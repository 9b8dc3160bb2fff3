----------------------------- MODULE DiskProofs ------------------------------
(***************************************************************************)
(* Proofs about what lies below a disk image: a file in flash, and the     *)
(* sector cache in front of an SD card.                                    *)
(***************************************************************************)
EXTENDS FlashFile, SdCache, FiniteSetTheorems, WellFoundedInduction, TLAPS

-----------------------------------------------------------------------------
(* A write to a disk in flash changes its own sectors only, and one that   *)
(* fails or loses power damages one erase block only, for every geometry   *)
(* of the flash and every request, on the disk or not.                     *)

WritePcs == {"merge", "erase", "program", "written", "failed", "cut"}

\* Sector s after the first d sectors of the request.
Target(s, d) == IF s \in Run(op.at, d) THEN op.data[s - op.at] ELSE old[s]

\* A request in bounds; one in hand has something left to do.
RequestOK ==
  op.pc \in WritePcs =>
    /\ op \in Writes
    /\ op.data \in [0 .. op.n - 1 -> Value]
    /\ op.at = Due /\ op.at + op.n <= Size /\ op.done <= op.n
    /\ op.pc # "written" => op.done < op.n
    /\ InHand => pos = op.at
    /\ op.pc = "written" => pos = op.at + op.n

\* What has been done at each point: nothing of the current block before it is
\* erased, then nothing outside it, and the merged block is what it is to become.
ProgressOK ==
  /\ op.pc = "merge" => \A s \in Sector : flash[s] = Target(s, op.done)
  /\ op.pc \in {"erase", "program", "failed", "cut"} =>
       \A s \in Sector : s \notin Current => flash[s] = Target(s, op.done)
  /\ op.pc \in {"erase", "program"} =>
       \A s \in Sector : s \in Current => op.block[s - Base] = Target(s, op.done + Chunk)
  /\ op.pc = "written" => \A s \in Sector : flash[s] = Target(s, op.n)

FlashInv == FlashTypeOK /\ RequestOK /\ ProgressOK

-----------------------------------------------------------------------------

\* Division.
LEMMA Quotient ==
    ASSUME NEW h \in Nat, NEW m \in Nat \ {0}
    PROVE  h \div m \in Nat /\ h = m * (h \div m) + (h % m) /\ h % m \in 0 .. m - 1
<1>1. h \div m \in Nat
  OBVIOUS
<1>2. h = m * (h \div m) + (h % m)
  OBVIOUS
<1>3. h % m \in 0 .. m - 1
  OBVIOUS
<1> QED BY <1>1, <1>2, <1>3

LEMMA Monotone ==
    ASSUME NEW m \in Nat, NEW a \in Nat, NEW b \in Nat, a <= b
    PROVE  m * a <= m * b
OBVIOUS

\* Whole blocks fit.
LEMMA BlockFits ==
    ASSUME NEW n \in Nat \ {0}, NEW m \in Nat \ {0}, NEW h \in Nat, h < m * n
    PROVE  /\ h - (h % m) \in Nat /\ h - (h % m) <= h /\ h < h - (h % m) + m
           /\ h - (h % m) + m <= m * n
<1> DEFINE q == h \div m
<1>1. q \in Nat /\ h = m * q + (h % m) /\ h % m \in 0 .. m - 1
  BY Quotient
<1> HIDE DEF q
<1>a. m * q \in Nat /\ m * n \in Nat
  BY <1>1
<1>2. h - (h % m) = m * q /\ m * q <= h /\ h < m * q + m
  BY <1>1, <1>a
<1>3. q + 1 <= n
  <2>1. SUFFICES ASSUME n <= q PROVE FALSE
    BY <1>1
  <2>2. m * n <= m * q
    BY <1>1, <2>1, Monotone
  <2> QED BY <1>2, <1>a, <2>2
<1>4. m * (q + 1) <= m * n
  BY <1>1, <1>3, Monotone
<1>5. m * (q + 1) = m * q + m
  BY <1>1
<1> QED BY <1>a, <1>2, <1>4, <1>5

\* A chunk lies in the current block, is not empty and is within the request.
LEMMA ChunkFits ==
    ASSUME FlashSizes, RequestOK, op.pc \in WritePcs, op.pc # "written"
    PROVE  /\ Here \in Nat /\ Base \in Nat /\ Base <= Here
           /\ Chunk \in Nat \ {0} /\ op.done + Chunk <= op.n /\ Here + Chunk <= Base + BlockSectors
           /\ Base + BlockSectors <= Size
<1>1. /\ op.at \in Nat /\ op.done \in Nat /\ op.n \in Nat /\ op.done < op.n /\ op.at + op.n <= Size
      /\ BlockSectors \in Nat \ {0} /\ Blocks \in Nat \ {0} /\ Size \in Nat
  BY DEF RequestOK, Writes, FlashSizes, Size
<1>2. Here \in Nat /\ Here < Size
  BY <1>1 DEF Here
<1>3. /\ Base \in Nat /\ Base <= Here /\ Here < Base + BlockSectors /\ Base + BlockSectors <= Size
  <2>1. Size = BlockSectors * Blocks
    BY <1>1 DEF Size
  <2> QED BY <1>1, <1>2, <2>1, BlockFits DEF Base
<1>4. Chunk = IF BlockSectors - (Here - Base) > op.n - op.done THEN op.n - op.done
              ELSE BlockSectors - (Here - Base)
  BY <1>1, <1>2 DEF Chunk, Base
<1> QED BY <1>1, <1>2, <1>3, <1>4

-----------------------------------------------------------------------------

\* A number below the modulus is its own remainder.
LEMMA SmallModulus ==
    ASSUME NEW m \in Nat \ {0}, NEW x \in 0 .. m - 1
    PROVE  x % m = x
<1> DEFINE q == x \div m
<1>0. x \in Nat
  OBVIOUS
<1>1. q \in Nat /\ x = m * q + (x % m) /\ x % m \in 0 .. m - 1 /\ x \in Nat
  BY <1>0, Quotient
<1> HIDE DEF q
<1>2. q = 0
  <2>1. SUFFICES ASSUME 1 <= q PROVE FALSE
    BY <1>1
  <2>2. m * 1 <= m * q /\ m * q \in Nat
    BY <1>1, <2>1, Monotone
  <2> QED BY <1>1, <2>2
<1> QED BY <1>1, <1>2

\* The conversion to off_t keeps every position of the partition.
LEMMA OffTKeeps ==
    ASSUME FlashSizes, NEW s \in Int, Start + s \in 0 .. Size
    PROVE  OffT(s) = Start + s
<1> DEFINE x == Start + s + OffHalf
           m == 2 * OffHalf
<1>1. Start \in Nat /\ OffHalf \in Nat /\ Size \in Nat /\ OffHalf > Size
  BY DEF FlashSizes, Size
<1>2. m \in Nat \ {0} /\ x \in 0 .. m - 1 /\ x - OffHalf = Start + s
  BY <1>1
<1>3. OffT(s) = (x % m) - OffHalf
  BY DEF OffT
<1> HIDE DEF x, m
<1> QED BY <1>2, <1>3, SmallModulus

\* A seek stays in the partition, and goes to the place of the request.
LEMMA Seek ==
    ASSUME FlashSizes, FlashTypeOK, NEW s \in Asked
    PROVE  /\ SeekTo(s) \in 0 .. Size
           /\ SeekTo(s) = IF Start + s \in 0 .. Size THEN Start + s
                          ELSE IF OffT(s) \in 0 .. Size THEN OffT(s) ELSE pos
<1>1. s \in Int
  BY DEF FlashSizes
<1>2. pos \in 0 .. Size
  BY DEF FlashTypeOK
<1> QED BY <1>1, <1>2, OffTKeeps DEF SeekTo

LEMMA FlashInitInv == ASSUME FlashSizes PROVE FlashInit => FlashInv
<1> SUFFICES ASSUME FlashInit PROVE FlashInv
  OBVIOUS
<1>1. Size \in Nat
  BY DEF Size, FlashSizes
<1>2. op = NoOp /\ op.pc = "none"
  BY DEF FlashInit, NoOp
<1>3. flash \in [Sector -> Contents] /\ old \in [Sector -> Contents] /\ pos \in 0 .. Size
  BY <1>1 DEF FlashInit, Contents
<1> QED BY <1>2, <1>3 DEF FlashInv, FlashTypeOK, RequestOK, ProgressOK, WritePcs

\* An outcome without a write is all the invariant asks.
LEMMA NoWrite ==
    ASSUME flash' \in [Sector -> Contents], old' \in [Sector -> Contents], pos' \in 0 .. Size,
           op' \in {NoOp, [pc |-> "refused"], [pc |-> "read_failed"]} \cup Reads
    PROVE  FlashInv'
<1>1. op'.pc \in {"none", "refused", "read_failed", "read"}
  BY DEF NoOp, Reads
<1>2. FlashTypeOK'
  BY DEF FlashTypeOK
<1>3. RequestOK' /\ ProgressOK'
  BY <1>1 DEF RequestOK, ProgressOK, WritePcs
<1> QED BY <1>2, <1>3 DEF FlashInv

LEMMA ReadInv ==
    ASSUME FlashSizes, FlashInv, NEW s \in Asked, NEW n \in 1 .. MaxCount, Read(s, n)
    PROVE  FlashInv'
<1> DEFINE p == SeekTo(s)
           m == IF p + n <= Size THEN n ELSE Size - p
           b == [k \in 0 .. m - 1 |-> flash[p + k]]
<1>1. Size \in Nat /\ MaxCount \in Nat /\ n \in Nat /\ p \in 0 .. Size
  BY Seek DEF FlashSizes, Size, FlashInv
<1>2. flash' = flash /\ old' = flash /\ flash \in [Sector -> Contents]
  BY DEF Read, FlashInv, FlashTypeOK
<1>3. \/ op' = [pc |-> "read", from |-> s, n |-> n, buf |-> b] /\ pos' = p + m
      \/ op' = [pc |-> "read_failed"] /\ pos' = p
  BY DEF Read
<1> HIDE DEF p
<1>4. m \in 0 .. MaxCount /\ p + m \in 0 .. Size
  BY <1>1
<1>5. b \in [0 .. m - 1 -> Contents]
  BY <1>1, <1>2 DEF Sector
<1>6. b \in UNION {[0 .. k - 1 -> Contents] : k \in 0 .. MaxCount}
  BY <1>4, <1>5
<1> HIDE DEF m, b
<1>7. [pc |-> "read", from |-> s, n |-> n, buf |-> b] \in Reads
  BY <1>6 DEF Reads
<1>8. op' \in {NoOp, [pc |-> "refused"], [pc |-> "read_failed"]} \cup Reads /\ pos' \in 0 .. Size
  BY <1>1, <1>3, <1>4, <1>7
<1> QED BY <1>2, <1>8, NoWrite

LEMMA WriteCallInv ==
    ASSUME FlashSizes, FlashInv, NEW s \in Asked, NEW n \in 1 .. MaxCount,
           NEW data \in [0 .. n - 1 -> Value], WriteCall(s, n, data)
    PROVE  FlashInv'
<1> DEFINE p == SeekTo(s)
<1>1. Size \in Nat /\ MaxCount \in Nat /\ n \in Nat /\ p \in 0 .. Size /\ pos \in 0 .. Size
  BY Seek DEF FlashSizes, Size, FlashInv, FlashTypeOK
<1>2. flash' = flash /\ old' = flash /\ flash \in [Sector -> Contents] /\ pos' = p
  BY DEF WriteCall, FlashInv, FlashTypeOK
<1>3. CASE ~(Writable /\ Fits(p, n))
  <2>1. op' = [pc |-> "refused"]
    BY <1>3 DEF WriteCall
  <2> QED BY <1>1, <1>2, <2>1, NoWrite
<1>4. CASE Writable /\ Fits(p, n)
  <2>1. op' = [pc |-> "merge", from |-> s, was |-> pos, at |-> p, n |-> n, done |-> 0, data |-> data,
               block |-> LostBlock]
    BY <1>4 DEF WriteCall
  <2>a. p + n <= Size
    BY <1>4 DEF Fits
  <2>b. p = IF Start + s \in 0 .. Size THEN Start + s
            ELSE IF OffT(s) \in 0 .. Size THEN OffT(s) ELSE pos
    BY Seek DEF FlashInv
  <2> HIDE DEF p
  <2>2. LostBlock \in [0 .. BlockSectors - 1 -> Contents]
    BY DEF LostBlock, Contents
  <2>3. data \in UNION {[0 .. m - 1 -> Value] : m \in 1 .. MaxCount}
    OBVIOUS
  <2>4. op' \in Writes
    BY <1>1, <2>1, <2>2, <2>3 DEF Writes
  <2>5. FlashTypeOK'
    BY <1>1, <1>2, <2>4 DEF FlashTypeOK
  <2>6. op'.at = Due'
    BY <2>1, <2>b DEF Due, OffT
  <2>7. RequestOK'
    BY <1>1, <1>2, <2>a, <2>1, <2>4, <2>6 DEF RequestOK
  <2>8. ProgressOK'
    <3>1. op'.pc = "merge" /\ op'.done = 0 /\ op'.at = p
      BY <2>1
    <3>2. \A x \in Sector : x \notin Run(op.at, op.done)'
      BY <1>1, <3>1 DEF Run, Sector
    <3>3. \A x \in Sector : flash'[x] = Target(x, op.done)'
      BY <1>2, <3>2 DEF Target
    <3> QED BY <3>1, <3>3 DEF ProgressOK
  <2> QED BY <2>5, <2>7, <2>8 DEF FlashInv
<1> QED BY <1>3, <1>4

\* A step within a chunk keeps its place.
LEMMA SamePlace ==
    ASSUME op'.at = op.at, op'.done = op.done, op'.n = op.n, op'.data = op.data, old' = old
    PROVE  /\ Base' = Base /\ Chunk' = Chunk /\ Current' = Current
           /\ \A s, d : Target(s, d)' = Target(s, d)
BY DEF Base, Here, Chunk, Current, Target, Run

\* The place of a request is settled when it is made.
LEMMA SameDue == ASSUME op'.from = op.from, op'.was = op.was PROVE Due' = Due
BY DEF Due, OffT

LEMMA MergeInv == ASSUME FlashSizes, FlashInv, Merge PROVE FlashInv'
<1>1. /\ op.pc = "merge" /\ op' = [op EXCEPT !.pc = "erase", !.block = Merged]
      /\ UNCHANGED <<flash, pos, old>>
  BY DEF Merge
<1>2. op.pc \in WritePcs /\ op \in Writes /\ RequestOK /\ flash \in [Sector -> Contents]
  BY <1>1 DEF FlashInv, FlashTypeOK, RequestOK, WritePcs
<1>3. /\ Base \in Nat /\ Chunk \in Nat \ {0} /\ Base + BlockSectors <= Size /\ Here \in Nat
      /\ op.done + Chunk <= op.n /\ BlockSectors \in Nat \ {0} /\ Size \in Nat
  BY <1>1, <1>2, ChunkFits DEF FlashSizes, Size
<1>4. /\ op.at \in Nat /\ op.done \in Nat /\ op.n \in Nat /\ Here = op.at + op.done
      /\ op.data \in [0 .. op.n - 1 -> Value]
  BY <1>2 DEF Writes, Sector, RequestOK, Here
<1>5. \A s \in Sector : flash[s] = Target(s, op.done)
  BY <1>1 DEF FlashInv, ProgressOK
<1>6. ASSUME NEW k \in 0 .. BlockSectors - 1
      PROVE  Merged[k] \in Contents /\ Merged[k] = Target(Base + k, op.done + Chunk)
  <2>1. Base + k \in Sector /\ Base + k \in Nat
    BY <1>3 DEF Sector
  <2>2. Merged[k] = IF Base + k \in Run(Here, Chunk) THEN op.data[Base + k - op.at] ELSE flash[Base + k]
    BY DEF Merged
  <2>3. CASE Base + k \in Run(Here, Chunk)
    <3>1. Here <= Base + k /\ Base + k <= Here + Chunk - 1
      BY <1>3, <2>1, <2>3 DEF Run
    <3>2. (Base + k) - op.at \in 0 .. op.n - 1 /\ Base + k \in Run(op.at, op.done + Chunk)
      <4> DEFINE x == Base + k  c == Chunk
      <4>1. x \in Nat /\ c \in Nat /\ op.at + op.done <= x /\ x <= op.at + op.done + c - 1 /\ op.done + c <= op.n
        BY <1>3, <1>4, <2>1, <3>1
      <4> HIDE DEF x, c
      <4>2. x - op.at \in 0 .. op.n - 1 /\ x \in Run(op.at, op.done + c)
        BY <4>1, <1>4, SMTT(30) DEF Run
      <4> QED BY <4>2 DEF x, c
    <3>3. op.data[(Base + k) - op.at] \in Value
      BY <1>4, <3>2
    <3>4. Target(Base + k, op.done + Chunk) = op.data[(Base + k) - op.at]
      BY <3>2 DEF Target
    <3>5. Merged[k] = op.data[(Base + k) - op.at]
      <4>1. Base + k - op.at = (Base + k) - op.at
        BY <1>3, <1>4
      <4> QED BY <2>2, <2>3, <4>1
    <3> QED BY <3>3, <3>4, <3>5 DEF Contents
  <2>4. CASE Base + k \notin Run(Here, Chunk)
    <3>1. Base + k \in Run(op.at, op.done) <=> Base + k \in Run(op.at, op.done + Chunk)
      <4> DEFINE x == Base + k  c == Chunk
      <4>1. /\ x \in Nat /\ c \in Nat /\ x \notin op.at + op.done .. op.at + op.done + c - 1
            /\ op.at \in Nat /\ op.done \in Nat
        BY <1>3, <1>4, <2>1, <2>4 DEF Run
      <4> HIDE DEF x, c
      <4>2. x \in Run(op.at, op.done) <=> x \in Run(op.at, op.done + c)
        BY <4>1, SMTT(30) DEF Run
      <4> QED BY <4>2 DEF x, c
    <3> QED BY <1>2, <1>5, <2>1, <2>2, <2>4, <3>1 DEF Target
  <2> QED BY <2>3, <2>4
<1>7. Merged \in [0 .. BlockSectors - 1 -> Contents]
  BY <1>6 DEF Merged
<1>8. op' \in Writes /\ op'.pc = "erase" /\ op'.block = Merged
      /\ op'.at = op.at /\ op'.done = op.done /\ op'.n = op.n /\ op'.data = op.data /\ op'.from = op.from /\ op'.was = op.was
  BY <1>1, <1>2, <1>7 DEF Writes
<1>9. FlashTypeOK'
  BY <1>1, <1>8 DEF FlashInv, FlashTypeOK
<1>10. RequestOK'
  BY <1>1, <1>2, <1>8, SameDue DEF RequestOK, WritePcs, InHand
<1>11. ProgressOK'
  <2>1. /\ Base' = Base /\ Chunk' = Chunk /\ Current' = Current
        /\ \A s, d : Target(s, d)' = Target(s, d)
    BY <1>1, <1>8, SamePlace
  <2>2. \A s \in Sector : flash'[s] = Target(s, op.done)'
    BY <1>1, <1>5, <2>1
  <2>3. ASSUME NEW s \in Sector, s \in Current
        PROVE  op'.block[s - Base] = Target(s, op.done + Chunk)
    <3>1. s - Base \in 0 .. BlockSectors - 1 /\ Base + (s - Base) = s
      BY <1>3, <2>3 DEF Current, Run, Sector
    <3> QED BY <1>6, <1>8, <3>1
  <2> QED BY <1>8, <2>1, <2>2, <2>3 DEF ProgressOK
<1> QED BY <1>9, <1>10, <1>11 DEF FlashInv

\* Any part of the current block erased or programmed, and the request ended or
\* about to be programmed.
LEMMA TornInv ==
    ASSUME FlashSizes, FlashInv, InHand, NEW P \in SUBSET Current, NEW pc \in {"failed", "cut"},
           flash' = flash \/ (op.pc = "erase" /\ flash' = Erased(P)) \/ (op.pc = "program" /\ flash' = Programmed(P)),
           op' = [op EXCEPT !.pc = pc], old' = old, pos' \in 0 .. Size
    PROVE  FlashInv'
<1>1. op.pc \in WritePcs /\ op \in Writes /\ RequestOK /\ flash \in [Sector -> Contents]
  BY DEF FlashInv, FlashTypeOK, RequestOK, WritePcs, InHand
<1>2. op' \in Writes /\ op'.pc = pc
      /\ op'.at = op.at /\ op'.done = op.done /\ op'.n = op.n /\ op'.data = op.data /\ op'.from = op.from /\ op'.was = op.was
  BY <1>1 DEF Writes
<1>3. Base \in Nat /\ BlockSectors \in Nat \ {0}
  BY <1>1, ChunkFits DEF FlashSizes, InHand
<1>4. flash' \in [Sector -> Contents] /\ \A s \in Sector : s \notin Current => flash'[s] = flash[s]
  <2>1. CASE flash' = flash
    BY <1>1, <2>1
  <2>2. CASE flash' = Erased(P)
    BY <1>1, <2>2 DEF Erased, Contents
  <2>3. CASE flash' = Programmed(P)
    <3>1. ASSUME NEW s \in Sector, s \in P PROVE op.block[s - Base] \in Contents
      <4>1. s - Base \in 0 .. BlockSectors - 1
        BY <1>3, <3>1 DEF Current, Run, Sector
      <4> QED BY <1>1, <4>1 DEF Writes
    <3> QED BY <1>1, <2>3, <3>1 DEF Programmed
  <2> QED BY <2>1, <2>2, <2>3
<1>5. \A s \in Sector : s \notin Current => flash[s] = Target(s, op.done)
  BY DEF FlashInv, ProgressOK, InHand
<1>6. FlashTypeOK'
  BY <1>2, <1>4 DEF FlashInv, FlashTypeOK
<1>7. RequestOK'
  BY <1>1, <1>2, SameDue DEF RequestOK, WritePcs, InHand
<1>8. ProgressOK'
  <2>1. Current' = Current /\ \A s, d : Target(s, d)' = Target(s, d)
    BY <1>2, SamePlace
  <2> QED BY <1>2, <1>4, <1>5, <2>1 DEF ProgressOK
<1> QED BY <1>6, <1>7, <1>8 DEF FlashInv

LEMMA EraseInv == ASSUME FlashSizes, FlashInv, Erase PROVE FlashInv'
<1>1. /\ op.pc = "erase" /\ op' = [op EXCEPT !.pc = "program"] /\ flash' = Erased(Current)
      /\ UNCHANGED <<pos, old>>
  BY DEF Erase
<1>2. op.pc \in WritePcs /\ op \in Writes /\ RequestOK /\ flash \in [Sector -> Contents]
  BY <1>1 DEF FlashInv, FlashTypeOK, RequestOK, WritePcs
<1>3. op' \in Writes /\ op'.pc = "program" /\ op'.block = op.block
      /\ op'.at = op.at /\ op'.done = op.done /\ op'.n = op.n /\ op'.data = op.data /\ op'.from = op.from /\ op'.was = op.was
  BY <1>1, <1>2 DEF Writes
<1>4. flash' \in [Sector -> Contents] /\ \A s \in Sector : s \notin Current => flash'[s] = flash[s]
  BY <1>1, <1>2 DEF Erased, Contents
<1>5. FlashTypeOK'
  BY <1>1, <1>3, <1>4 DEF FlashInv, FlashTypeOK
<1>6. RequestOK'
  BY <1>1, <1>2, <1>3, SameDue DEF RequestOK, WritePcs, InHand
<1>7. ProgressOK'
  <2>1. /\ Base' = Base /\ Chunk' = Chunk /\ Current' = Current
        /\ \A s, d : Target(s, d)' = Target(s, d)
    BY <1>1, <1>3, SamePlace
  <2>2. /\ \A s \in Sector : s \notin Current => flash[s] = Target(s, op.done)
        /\ \A s \in Sector : s \in Current => op.block[s - Base] = Target(s, op.done + Chunk)
    BY <1>1 DEF FlashInv, ProgressOK
  <2> QED BY <1>3, <1>4, <2>1, <2>2 DEF ProgressOK
<1> QED BY <1>5, <1>6, <1>7 DEF FlashInv

LEMMA ProgramInv == ASSUME FlashSizes, FlashInv, Program PROVE FlashInv'
<1>1. /\ op.pc = "program" /\ flash' = Programmed(Current) /\ UNCHANGED old
      /\ op' = [op EXCEPT !.done = @ + Chunk,
                          !.pc = IF op.done + Chunk = op.n THEN "written" ELSE "merge"]
      /\ pos' = IF op.done + Chunk = op.n THEN pos + op.n ELSE pos
  BY DEF Program
<1>2. op.pc \in WritePcs /\ op \in Writes /\ RequestOK /\ flash \in [Sector -> Contents] /\ pos = op.at
  BY <1>1 DEF FlashInv, FlashTypeOK, RequestOK, WritePcs, InHand
<1>3. /\ Base \in Nat /\ Base <= Here /\ Chunk \in Nat \ {0} /\ Here + Chunk <= Base + BlockSectors /\ Here \in Nat
      /\ op.done + Chunk <= op.n /\ BlockSectors \in Nat \ {0} /\ Size \in Nat /\ MaxCount \in Nat
  BY <1>1, <1>2, ChunkFits DEF FlashSizes, Size
<1>4. /\ op.at \in Nat /\ op.done \in Nat /\ op.n \in 1 .. MaxCount /\ Here = op.at + op.done /\ op.at + op.n <= Size
  BY <1>2 DEF Writes, Sector, RequestOK, Here
<1> DEFINE c == op.done + Chunk
           e == IF c = op.n THEN "written" ELSE "merge"
<1>5. c \in 0 .. MaxCount /\ c <= op.n /\ e \in {"written", "merge"} /\ (e = "written" <=> c = op.n)
  BY <1>3, <1>4
<1>6. op' = [op EXCEPT !.done = c, !.pc = e]
  BY <1>1, <1>2 DEF Writes
<1>7. op' \in Writes /\ op'.pc = e /\ op'.done = c
      /\ op'.at = op.at /\ op'.n = op.n /\ op'.data = op.data /\ op'.from = op.from /\ op'.was = op.was
  <2> HIDE DEF c, e
  <2> QED BY <1>2, <1>5, <1>6 DEF Writes
<1>8. ASSUME NEW s \in Sector
      PROVE  flash'[s] \in Contents /\ flash'[s] = Target(s, c)
  <2>1. flash'[s] = IF s \in Current THEN op.block[s - Base] ELSE flash[s]
    BY <1>1 DEF Programmed
  <2>2. CASE s \in Current
    <3>1. s - Base \in 0 .. BlockSectors - 1
      BY <1>3, <2>2 DEF Current, Run, Sector
    <3>2. op.block[s - Base] \in Contents
      BY <1>2, <3>1 DEF Writes
    <3>3. op.block[s - Base] = Target(s, c)
      BY <1>1, <2>2 DEF FlashInv, ProgressOK
    <3> QED BY <2>1, <2>2, <3>2, <3>3
  <2>3. CASE s \notin Current
    <3>1. flash[s] = Target(s, op.done)
      BY <1>1, <2>3 DEF FlashInv, ProgressOK
    <3>2. s \in Run(op.at, op.done) <=> s \in Run(op.at, c)
      BY <1>3, <1>4, <2>3 DEF Current, Run, Sector
    <3>3. Target(s, c) = Target(s, op.done)
      BY <3>2 DEF Target
    <3> QED BY <1>2, <2>1, <2>3, <3>1, <3>3
  <2> QED BY <2>2, <2>3
<1>9. flash' \in [Sector -> Contents]
  <2>1. flash' = [s \in Sector |-> flash'[s]]
    BY <1>1 DEF Programmed
  <2> QED BY <1>8, <2>1
<1>10. pos' \in 0 .. Size /\ (e = "merge" => pos' = op.at) /\ (e = "written" => pos' = op.at + op.n)
  BY <1>1, <1>2, <1>3, <1>4
<1> HIDE DEF c, e
<1>11. FlashTypeOK'
  BY <1>1, <1>7, <1>9, <1>10 DEF FlashInv, FlashTypeOK
<1>12. RequestOK'
  <2>1. op.data \in [0 .. op.n - 1 -> Value] /\ op.at = Due /\ Due' = Due
    BY <1>2, <1>7, SameDue DEF RequestOK
  <2>2. e # "written" => c < op.n
    BY <1>4, <1>5
  <2> QED BY <1>4, <1>5, <1>7, <1>10, <2>1, <2>2 DEF RequestOK, WritePcs, InHand
<1>13. ProgressOK'
  <2>2. \A s \in Sector : flash'[s] = IF s \in Run(op.at, c) THEN op.data[s - op.at] ELSE old[s]
    BY <1>8 DEF Target
  <2>3. \A s \in Sector : flash'[s] = Target(s, op.done)'
    BY <1>1, <1>7, <2>2 DEF Target, Run
  <2>4. e = "written" => \A s \in Sector : flash'[s] = Target(s, op.n)'
    BY <1>1, <1>5, <1>7, <2>2 DEF Target, Run
  <2> QED BY <1>5, <1>7, <2>3, <2>4 DEF ProgressOK
<1> QED BY <1>11, <1>12, <1>13 DEF FlashInv

LEMMA FlashNextInv == ASSUME FlashSizes, FlashInv, [FlashNext]_flashVars PROVE FlashInv'
<1>1. ASSUME NEW s \in Asked, NEW n \in 1 .. MaxCount, Read(s, n)
      PROVE  FlashInv'
  BY <1>1, ReadInv
<1>2. ASSUME NEW s \in Asked, NEW n \in 1 .. MaxCount,
             NEW data \in [0 .. n - 1 -> Value], WriteCall(s, n, data)
      PROVE  FlashInv'
  BY <1>2, WriteCallInv
<1>3. CASE Merge
  BY <1>3, MergeInv
<1>4. CASE Erase
  BY <1>4, EraseInv
<1>5. CASE Program
  BY <1>5, ProgramInv
<1>6. ASSUME InHand, Torn
      PROVE  \E P \in SUBSET Current :
               \/ flash' = flash
               \/ op.pc = "erase" /\ flash' = Erased(P)
               \/ op.pc = "program" /\ flash' = Programmed(P)
  BY <1>6 DEF Torn
<1>7. CASE Fails
  <2>1. InHand /\ Torn /\ op' = [op EXCEPT !.pc = "failed"] /\ pos' = pos + op.done /\ old' = old
    BY <1>7 DEF Fails
  <2>2. pos' \in 0 .. Size
    <3>1. op.pc \in WritePcs /\ op.pc # "written" /\ InHand
      BY <2>1 DEF InHand, WritePcs
    <3>2. op \in Writes /\ pos = op.at /\ op.done < op.n /\ op.at + op.n <= Size
      BY <3>1 DEF FlashInv, RequestOK
    <3>3. op.at \in Nat /\ op.done \in Nat /\ op.n \in Nat /\ Size \in Nat
      BY <3>2 DEF Writes, FlashSizes, Size
    <3> QED BY <2>1, <3>2, <3>3
  <2> QED BY <1>6, <2>1, <2>2, TornInv
<1>8. CASE PowerCut
  <2>0. pos' \in 0 .. Size /\ old' = old
    <3>1. Size \in Nat
      BY DEF FlashSizes, Size
    <3> QED BY <1>8, <3>1 DEF PowerCut
  <2>1. CASE InHand
    <3>1. Torn /\ op' = [op EXCEPT !.pc = "cut"]
      BY <1>8, <2>1 DEF PowerCut
    <3> QED BY <1>6, <2>0, <2>1, <3>1, TornInv
  <2>2. CASE ~InHand
    <3>1. flash' = flash /\ op' = NoOp
      BY <1>8, <2>2 DEF PowerCut
    <3> QED BY <2>0, <3>1, NoWrite DEF FlashInv, FlashTypeOK
  <2> QED BY <2>1, <2>2
<1>9. CASE UNCHANGED flashVars
  BY <1>9 DEF flashVars, FlashInv, FlashTypeOK, RequestOK, ProgressOK, InHand, Base, Here, Chunk, Current, Target, Run,
           Due, OffT
<1> QED BY <1>1, <1>2, <1>3, <1>4, <1>5, <1>7, <1>8, <1>9 DEF FlashNext

\* The invariant implies the property.
LEMMA FlashFollows == ASSUME FlashSizes, FlashInv PROVE FlashSound
<1>1. DamageConfined
  <2>1. SUFFICES ASSUME op.pc \in {"merge", "erase", "program", "failed", "cut"},
                        NEW s \in Sector, s \notin Current
                 PROVE  flash[s] = IF s \in Run(Due, op.done) THEN op.data[s - Due] ELSE old[s]
    BY DEF DamageConfined
  <2>2. op.at = Due
    BY <2>1 DEF FlashInv, RequestOK, WritePcs
  <2>3. flash[s] = Target(s, op.done)
    BY <2>1 DEF FlashInv, ProgressOK
  <2> QED BY <2>2, <2>3 DEF Target
<1>2. WrittenExactly
  <2>1. SUFFICES ASSUME op.pc = "written"
                 PROVE  /\ Due + op.n <= Size /\ pos = Due + op.n
                        /\ \A s \in Sector :
                             flash[s] = IF s \in Run(Due, op.n) THEN op.data[s - Due] ELSE old[s]
    BY DEF WrittenExactly
  <2>2. op.at = Due /\ op.at + op.n <= Size /\ pos = op.at + op.n
    BY <2>1 DEF FlashInv, RequestOK, WritePcs
  <2>3. \A s \in Sector : flash[s] = Target(s, op.n)
    BY <2>1 DEF FlashInv, ProgressOK
  <2> QED BY <2>2, <2>3 DEF Target
<1> QED BY <1>1, <1>2 DEF FlashInv, FlashSound

\* For every geometry of the flash, every request, on the disk or beyond it, every
\* error and every power cut: a write ends with as many sectors changed as it has,
\* its own when it begins on the disk and those behind the request before it when
\* the seek is refused, and one that does not end damages the block it had come to.
THEOREM FlashSafe == ASSUME FlashSizes PROVE FlashSpec => []FlashSound
BY FlashInitInv, FlashNextInv, FlashFollows, PTL DEF FlashSpec

-----------------------------------------------------------------------------
(* The sector cache: what a read answers is what its sectors may hold, for *)
(* every size of the cache and every set of callers that keep to sectors   *)
(* of their own.                                                           *)

\* A nonempty set of natural numbers has a least element.
LEMMA LeastIs ==
    ASSUME NEW S, S \subseteq Nat, S # {}
    PROVE  Least(S) \in S /\ \A x \in S : Least(S) <= x
<1> DEFINE R == {p \in Nat \X Nat : p[1] < p[2]}
<1>1. IsWellFoundedOn(R, Nat)
  BY NatLessThanWellFounded DEF OpToRel
<1>2. PICK w \in S : \A x \in S : ~(<<x, w>> \in R)
  <2> HIDE DEF R
  <2> QED BY <1>1, WFMin
<1>3. \A x \in S : w <= x
  <2> TAKE x \in S
  <2>1. ~(<<x, w>> \in R) /\ x \in Nat /\ w \in Nat
    BY <1>2
  <2> QED BY <2>1
<1> QED BY <1>2, <1>3 DEF Least

-----------------------------------------------------------------------------
(* The cache as a value.                                                     *)

CacheType == [Set -> [Way -> Entries \cup {NoEntry}]]

\* Way w of set x holds sector s.
HeldAt(es, x, w, s) == es[x][w].valid /\ es[x][w].sector = s

\* Every copy lies in the set of its sector, and no sector has two.
Placed(es) ==
  /\ \A x \in Set, w \in Way, s \in CardSector : HeldAt(es, x, w, s) => x = SetOf(s)
  /\ \A s \in CardSector, w, y \in Way :
       HeldAt(es, SetOf(s), w, s) /\ HeldAt(es, SetOf(s), y, s) => w = y

\* Copy of s with contents v is in, in place of something that is not a second copy of s.
Stored(es, fs, s, v) ==
  \E w \in Way :
    /\ fs \in CacheType
    /\ fs[SetOf(s)][w].valid /\ fs[SetOf(s)][w].sector = s /\ fs[SetOf(s)][w].data = v
    /\ \A x \in Set, y \in Way : ~(x = SetOf(s) /\ y = w) => fs[x][y] = es[x][y]
    /\ \A y \in Way : HeldAt(es, SetOf(s), y, s) => y = w

LEMMA SetOfIs == ASSUME NEW s \in CardSector PROVE SetOf(s) \in Set
BY CacheSizes DEF SetOf, Set

LEMMA WayIs == Way \subseteq Nat /\ Way # {} /\ 0 \in Way
<1>1. 0 \in Way
  BY CacheSizes DEF Way
<1>2. Way \subseteq Nat
  BY DEF Way
<1> QED BY <1>1, <1>2

LEMMA NoEntryIs == NoEntry \notin Entries /\ ~NoEntry.valid
<1>1. NoEntry.valid = FALSE
  BY DEF NoEntry
<1>2. \A e \in Entries : e.valid
  BY DEF Entries
<1> QED BY <1>1, <1>2

LEMMA ValidIs ==
    ASSUME NEW es \in CacheType, NEW x \in Set, NEW w \in Way
    PROVE  /\ es[x][w] \in Entries \cup {NoEntry}
           /\ es[x][w].valid \in BOOLEAN
           /\ es[x][w].valid => es[x][w] \in Entries
<1>1. es[x][w] \in Entries \cup {NoEntry}
  BY DEF CacheType
<1>2. CASE es[x][w] \in Entries
  BY <1>2 DEF Entries
<1>3. CASE es[x][w] = NoEntry
  BY <1>3, NoEntryIs DEF NoEntry
<1> QED BY <1>1, <1>2, <1>3

\* The ways that hold a sector, and the copy a lookup finds.
LEMMA HoldingIs ==
    ASSUME NEW es \in CacheType, NEW s \in CardSector
    PROVE  /\ Holding(es, s) = {w \in Way : HeldAt(es, SetOf(s), w, s)}
           /\ Cached(es, s) <=> \E w \in Way : HeldAt(es, SetOf(s), w, s)
           /\ Cached(es, s) => /\ Least(Holding(es, s)) \in Way
                               /\ HeldAt(es, SetOf(s), Least(Holding(es, s)), s)
<1>1. Holding(es, s) = {w \in Way : HeldAt(es, SetOf(s), w, s)}
  BY DEF Holding, HeldAt
<1>2. Cached(es, s) <=> \E w \in Way : HeldAt(es, SetOf(s), w, s)
  BY <1>1 DEF Cached
<1>3. ASSUME Cached(es, s) PROVE Least(Holding(es, s)) \in Holding(es, s)
  <2>1. Holding(es, s) \subseteq Nat /\ Holding(es, s) # {}
    BY <1>1, <1>3, WayIs DEF Cached
  <2> QED BY <2>1, LeastIs
<1> QED BY <1>1, <1>2, <1>3

\* The victim is a way: a free one, or the oldest.
LEMMA VictimIs ==
    ASSUME NEW es \in CacheType, NEW s \in CardSector
    PROVE  Victim(es, s) \in Way
<1> DEFINE set == es[SetOf(s)]
           free == {w \in Way : ~set[w].valid}
           oldest == {w \in Way : \A x \in Way : set[w].age <= set[x].age}
<1>1. CASE free # {}
  <2>1. Least(free) \in free
    BY <1>1, LeastIs, WayIs
  <2> QED BY <1>1, <2>1 DEF Victim
<1>2. CASE free = {}
  <2> DEFINE ages == {set[w].age : w \in Way}
  <2>1. \A w \in Way : set[w] \in Entries
    BY <1>2, ValidIs, SetOfIs
  <2>2. \A w \in Way : set[w].age \in Nat
    <3> TAKE w \in Way
    <3>1. set[w] \in Entries
      BY <2>1
    <3>2. set[w].age \in 0 .. AgeMod - 1
      BY <3>1 DEF Entries
    <3> QED BY <3>2
  <2>3. ages \subseteq Nat /\ ages # {}
    BY <2>2, WayIs
  <2>4. Least(ages) \in ages /\ \A a \in ages : Least(ages) <= a
    BY <2>3, LeastIs
  <2>5. PICK w \in Way : set[w].age = Least(ages)
    BY <2>4
  <2>6. w \in oldest
    BY <2>4, <2>5
  <2>7. Least(oldest) \in oldest
    BY <2>6, LeastIs, WayIs
  <2> QED BY <1>2, <2>7 DEF Victim
<1> QED BY <1>1, <1>2

LEMMA PlaceStores ==
    ASSUME NEW es \in CacheType, NEW s \in CardSector, NEW w \in Way, NEW a \in 0 .. AgeMod - 1,
           NEW v \in CardData, \A y \in Way : HeldAt(es, SetOf(s), y, s) => y = w
    PROVE  Stored(es, Place(es, s, w, a, v), s, v)
<1> DEFINE e == [valid |-> TRUE, sector |-> s, age |-> a, data |-> v]
           fs == Place(es, s, w, a, v)
           X == SetOf(s)
<1>1. X \in Set
  BY SetOfIs
<1>2. e \in Entries
  BY DEF Entries
<1>3. fs = [es EXCEPT ![X] = [es[X] EXCEPT ![w] = e]]
  BY DEF Place
<1>4. es[X] \in [Way -> Entries \cup {NoEntry}] /\ DOMAIN es = Set
  BY <1>1 DEF CacheType
<1>5. fs \in CacheType
  BY <1>1, <1>2, <1>3, <1>4 DEF CacheType
<1>6. fs[X] = [es[X] EXCEPT ![w] = e] /\ \A x \in Set : x # X => fs[x] = es[x]
  BY <1>1, <1>3, <1>4
<1>7. fs[X][w] = e /\ \A y \in Way : y # w => fs[X][y] = es[X][y]
  BY <1>4, <1>6
<1>8. e.valid /\ e.sector = s /\ e.data = v
  OBVIOUS
<1>9. fs[X][w].valid /\ fs[X][w].sector = s /\ fs[X][w].data = v
  BY <1>7, <1>8
<1>10. \A x \in Set, y \in Way : ~(x = X /\ y = w) => fs[x][y] = es[x][y]
  BY <1>6, <1>7
<1> HIDE DEF e, fs, X
<1>11. \A y \in Way : HeldAt(es, X, y, s) => y = w
  BY DEF X
<1> QED BY <1>5, <1>9, <1>10, <1>11 DEF Stored, fs, X

LEMMA InsertStores ==
    ASSUME NEW es \in CacheType, NEW s \in CardSector, NEW a \in 0 .. AgeMod - 1, NEW v \in CardData,
           ~Cached(es, s)
    PROVE  Stored(es, Insert(es, s, a, v), s, v)
BY VictimIs, PlaceStores, HoldingIs DEF Insert

LEMMA UpdateStores ==
    ASSUME NEW es \in CacheType, NEW s \in CardSector, NEW a \in 0 .. AgeMod - 1, NEW v \in CardData,
           Placed(es)
    PROVE  Stored(es, Update(es, s, a, v), s, v)
<1>1. CASE Cached(es, s)
  <2>1. /\ Least(Holding(es, s)) \in Way
        /\ \A y \in Way : HeldAt(es, SetOf(s), y, s) => y = Least(Holding(es, s))
    BY <1>1, HoldingIs DEF Placed
  <2> QED BY <1>1, <2>1, PlaceStores DEF Update
<1>2. CASE ~Cached(es, s)
  BY <1>2, InsertStores DEF Update
<1> QED BY <1>1, <1>2

\* What storing a sector leaves: one copy of it, with its contents, and of other sectors
\* some of the copies there were.
LEMMA StoredIs ==
    ASSUME NEW es \in CacheType, NEW fs, NEW s \in CardSector, NEW v, Placed(es), Stored(es, fs, s, v)
    PROVE  /\ fs \in CacheType /\ Placed(fs)
           /\ \A x \in Set, y \in Way : HeldAt(fs, x, y, s) => fs[x][y].data = v
           /\ \A x \in Set, y \in Way, z \in CardSector :
                z # s /\ HeldAt(fs, x, y, z) => fs[x][y] = es[x][y]
<1>1. PICK w \in Way :
        /\ fs \in CacheType
        /\ fs[SetOf(s)][w].valid /\ fs[SetOf(s)][w].sector = s /\ fs[SetOf(s)][w].data = v
        /\ \A x \in Set, y \in Way : ~(x = SetOf(s) /\ y = w) => fs[x][y] = es[x][y]
        /\ \A y \in Way : HeldAt(es, SetOf(s), y, s) => y = w
  BY DEF Stored
<1>2. \A x \in Set, y \in Way, z \in CardSector :
        z # s /\ HeldAt(fs, x, y, z) => fs[x][y] = es[x][y] /\ HeldAt(es, x, y, z)
  BY <1>1 DEF HeldAt
<1>3. \A x \in Set, y \in Way : HeldAt(fs, x, y, s) => x = SetOf(s) /\ y = w
  <2> SUFFICES ASSUME NEW x \in Set, NEW y \in Way, HeldAt(fs, x, y, s), ~(x = SetOf(s) /\ y = w)
               PROVE  FALSE
    OBVIOUS
  <2>1. HeldAt(es, x, y, s)
    BY <1>1 DEF HeldAt
  <2>2. x = SetOf(s)
    BY <2>1 DEF Placed
  <2> QED BY <1>1, <2>1, <2>2
<1>4. \A x \in Set, y \in Way, z \in CardSector : HeldAt(fs, x, y, z) => x = SetOf(z)
  BY <1>2, <1>3 DEF Placed
<1>5. \A z \in CardSector, p, y \in Way :
        HeldAt(fs, SetOf(z), p, z) /\ HeldAt(fs, SetOf(z), y, z) => p = y
  BY <1>2, <1>3, SetOfIs DEF Placed
<1> QED BY <1>1, <1>2, <1>3, <1>4, <1>5 DEF Placed

\* A copy of another sector was there before.
LEMMA CachedBefore ==
    ASSUME NEW es \in CacheType, NEW fs, NEW s \in CardSector, NEW v, Placed(es), Stored(es, fs, s, v),
           NEW z \in CardSector, z # s, Cached(fs, z)
    PROVE  Cached(es, z)
<1>1. fs \in CacheType
  BY StoredIs
<1>2. PICK w \in Way : HeldAt(fs, SetOf(z), w, z)
  BY <1>1, HoldingIs
<1>3. fs[SetOf(z)][w] = es[SetOf(z)][w]
  BY <1>2, StoredIs, SetOfIs
<1> QED BY <1>2, <1>3, HoldingIs DEF HeldAt

\* An empty cache holds nothing.
LEMMA EmptyIs ==
    /\ EmptyCache \in CacheType /\ Placed(EmptyCache)
    /\ \A x \in Set, w \in Way : ~EmptyCache[x][w].valid
    /\ \A s \in CardSector : ~Cached(EmptyCache, s)
<1>1. EmptyCache \in CacheType
  BY DEF EmptyCache, CacheType
<1>2. \A x \in Set, w \in Way : ~EmptyCache[x][w].valid
  BY NoEntryIs DEF EmptyCache
<1>3. Placed(EmptyCache)
  BY <1>2, SetOfIs DEF Placed, HeldAt
<1> QED BY <1>1, <1>2, <1>3, HoldingIs, SetOfIs DEF HeldAt

-----------------------------------------------------------------------------
(* The invariant.                                                            *)

Buffers == UNION {[S -> CardData] : S \in SUBSET CardSector}

\* The sectors of a request the cache has still to be told of, and those it misses.
Owed(r) == IF r.pc \in {"written", "update"} THEN r.from + r.i .. r.from + r.n - 1 ELSE {}
Missed(r) == IF r.pc \in {"fetch", "fetched", "insert"} THEN Span(r.from + r.i - r.miss, r.miss) ELSE {}
Holds(r) == r.pc \in {"scan", "insert", "update"}

\* How far a request of task t has come, and what is in its buffer.
Progress(r, t) ==
  r # NoRequest =>
    /\ r.i <= r.n /\ Span(r.from, r.n) \subseteq Region[t]
    /\ r.pc \in {"lock", "bypass", "write", "written"} => r.i = 0
    /\ r.pc \in {"lock", "bypass"} => DOMAIN r.buf = {}
    /\ r.pc \in {"fetch", "fetched", "insert"} => r.miss \in 1 .. r.i
    /\ r.pc = "fetch" => DOMAIN r.buf = Span(r.from, r.i - r.miss)
    /\ r.pc \in {"scan", "fetched", "insert"} => DOMAIN r.buf = Span(r.from, r.i)
    /\ r.pc \in {"done", "write", "written", "update"} => DOMAIN r.buf = Span(r.from, r.n)
    /\ r.pc = "update" => r.i < r.n

\* What has been read, or written to the card, is what its sectors may hold.
Fresh(r, held) ==
  r # NoRequest /\ r.pc # "write" => \A s \in DOMAIN r.buf : r.buf[s] \in held[s]

\* What is being fetched is not in the cache.
Absent(r, es) == \A s \in Missed(r) : ~Cached(es, s)

RequestsSound ==
  \A t \in Task : Progress(req[t], t) /\ Fresh(req[t], may) /\ Absent(req[t], entries)

\* The cache is used by the task that holds the mutex only.
Exclusive == \A t \in Task : Holds(req[t]) <=> mutex = t

\* Nothing is cached, and nobody uses the cache, before it is initialised.
NotReady ==
  ~ready => /\ \A x \in Set, w \in Way : ~entries[x][w].valid
            /\ \A t \in Task : req[t].pc \in {"idle", "bypass", "done", "write"}

CardSound == \A s \in CardSector : card[s] \in may[s]

SdInv ==
  /\ SdTypeOK /\ RequestsSound /\ Exclusive /\ NotReady /\ CardSound
  /\ Placed(entries) /\ Coherent

LEMMA BufferIs ==
    ASSUME NEW b
    PROVE  /\ b \in Buffers => DOMAIN b \subseteq CardSector /\ b \in [DOMAIN b -> CardData]
           /\ \A S \in SUBSET CardSector : b \in [S -> CardData] => b \in Buffers
BY DEF Buffers

LEMMA NoRequestIs ==
    /\ NoRequest.pc = "idle" /\ NoRequest \notin Requests
    /\ \A r \in Requests : r.pc # "idle"
<1>1. NoRequest.pc = "idle"
  BY DEF NoRequest
<1>2. \A r \in Requests : r.pc # "idle"
  BY DEF Requests, Pcs
<1> QED BY <1>1, <1>2

LEMMA FieldsOf ==
    ASSUME NEW q \in Requests
    PROVE  /\ q.pc \in Pcs /\ q.from \in CardSector /\ q.from \in Nat /\ q.n \in 1 .. MaxRun
           /\ q.i \in 0 .. MaxRun /\ q.miss \in 0 .. MaxRun /\ q.buf \in Buffers /\ q.i \in Nat
           /\ q.n \in Nat /\ q.miss \in Nat
           /\ q = [pc |-> q.pc, from |-> q.from, n |-> q.n, i |-> q.i, miss |-> q.miss, buf |-> q.buf]
<1>1. /\ q.pc \in Pcs /\ q.from \in CardSector /\ q.n \in 1 .. MaxRun
      /\ q.i \in 0 .. MaxRun /\ q.miss \in 0 .. MaxRun /\ q.buf \in Buffers
      /\ q = [pc |-> q.pc, from |-> q.from, n |-> q.n, i |-> q.i, miss |-> q.miss, buf |-> q.buf]
  BY DEF Requests, Buffers
<1>2. q.from \in Nat /\ q.i \in Nat /\ q.n \in Nat /\ q.miss \in Nat
  BY <1>1, CacheSizes
<1> QED BY <1>1, <1>2

\* Request q with some fields changed.
Edited(q, p, i, k, b) == [pc |-> p, from |-> q.from, n |-> q.n, i |-> i, miss |-> k, buf |-> b]

LEMMA EditedIs ==
    ASSUME NEW q \in Requests, NEW p \in Pcs, NEW i \in 0 .. MaxRun, NEW k \in 0 .. MaxRun,
           NEW b \in Buffers
    PROVE  /\ Edited(q, p, i, k, b) \in Requests /\ Edited(q, p, i, k, b) # NoRequest
           /\ Edited(q, p, i, k, b).pc = p /\ Edited(q, p, i, k, b).from = q.from
           /\ Edited(q, p, i, k, b).n = q.n /\ Edited(q, p, i, k, b).i = i
           /\ Edited(q, p, i, k, b).miss = k /\ Edited(q, p, i, k, b).buf = b
<1>1. q.from \in CardSector /\ q.n \in 1 .. MaxRun
  BY FieldsOf
<1>2. Edited(q, p, i, k, b) \in Requests
  BY <1>1 DEF Edited, Requests, Buffers
<1>3. /\ Edited(q, p, i, k, b).pc = p /\ Edited(q, p, i, k, b).from = q.from
      /\ Edited(q, p, i, k, b).n = q.n /\ Edited(q, p, i, k, b).i = i
      /\ Edited(q, p, i, k, b).miss = k /\ Edited(q, p, i, k, b).buf = b
  BY DEF Edited
<1> QED BY <1>2, <1>3, NoRequestIs

\* A task at a place that is not "idle" has a request.
LEMMA Requesting ==
    ASSUME SdTypeOK, NEW t \in Task
    PROVE  /\ req[t] \in Requests \cup {NoRequest}
           /\ req[t].pc = "idle" <=> req[t] = NoRequest
           /\ req[t].pc # "idle" <=> req[t] \in Requests
BY NoRequestIs DEF SdTypeOK

LEMMA BehindIs ==
    ASSUME SdTypeOK, NEW s
    PROVE  Behind(s) <=> \E t \in Task : s \in Owed(req[t])
<1>1. \A t \in Task : s \in Owed(req[t]) <=> /\ req[t].pc \in {"written", "update"}
                                            /\ s \in NextSector(t) .. EndSector(t) - 1
  <2> TAKE t \in Task
  <2>1. CASE req[t].pc \in {"written", "update"}
    <3>1. req[t] \in Requests
      BY <2>1, Requesting
    <3>2. req[t].from \in Nat /\ req[t].n \in Nat /\ req[t].i \in Nat
      BY <3>1, FieldsOf
    <3>3. Owed(req[t]) = req[t].from + req[t].i .. req[t].from + req[t].n - 1
      BY <2>1 DEF Owed
    <3> QED BY <2>1, <3>2, <3>3 DEF NextSector, EndSector
  <2>2. CASE req[t].pc \notin {"written", "update"}
    BY <2>2 DEF Owed
  <2> QED BY <2>1, <2>2
<1> QED BY <1>1 DEF Behind

LEMMA BehindIsPrimed ==
    ASSUME SdTypeOK', NEW s
    PROVE  Behind(s)' <=> \E t \in Task : s \in Owed(req'[t])
<1>1. \A t \in Task : s \in Owed(req'[t]) <=> /\ req'[t].pc \in {"written", "update"}
                                             /\ s \in NextSector(t)' .. EndSector(t)' - 1
  <2> TAKE t \in Task
  <2>1. CASE req'[t].pc \in {"written", "update"}
    <3>1. req'[t] \in Requests
      BY <2>1 DEF SdTypeOK, NoRequest
    <3>2. req'[t].from \in Nat /\ req'[t].n \in Nat /\ req'[t].i \in Nat
      BY <3>1, FieldsOf
    <3>3. Owed(req'[t]) = req'[t].from + req'[t].i .. req'[t].from + req'[t].n - 1
      BY <2>1 DEF Owed
    <3> QED BY <2>1, <3>2, <3>3 DEF NextSector, EndSector
  <2>2. CASE req'[t].pc \notin {"written", "update"}
    BY <2>2 DEF Owed
  <2> QED BY <2>1, <2>2
<1> QED BY <1>1 DEF Behind

LEMMA SpanIn ==
    ASSUME NEW f \in Nat, NEW i \in Nat, NEW n \in Nat, i <= n
    PROVE  /\ Span(f, i) \subseteq Span(f, n)
           /\ \A k \in Nat : k <= i => Span(f, i - k) \subseteq Span(f, n) /\ Span(f + i - k, k) \subseteq Span(f, n)
BY DEF Span

LEMMA SpanJoin ==
    ASSUME NEW f \in Nat, NEW i \in Nat, NEW k \in 1 .. i
    PROVE  Span(f, i - k) \cup Span(f + i - k, k) = Span(f, i)
BY DEF Span

\* Everything a request has to do with lies in its sectors.
LEMMA InSpan ==
    ASSUME NEW t, NEW q \in Requests, Progress(q, t)
    PROVE  /\ Span(q.from, q.n) \subseteq Region[t] /\ q.i <= q.n
           /\ DOMAIN q.buf \subseteq Span(q.from, q.n) /\ Missed(q) \subseteq Span(q.from, q.n)
<1>1. q.pc \in Pcs /\ q.from \in Nat /\ q.n \in Nat /\ q.i \in Nat /\ q.miss \in Nat
  BY FieldsOf
<1>2. q # NoRequest
  BY NoRequestIs
<1>3. Span(q.from, q.n) \subseteq Region[t] /\ q.i <= q.n
  BY <1>2 DEF Progress
<1>4. q.pc \in {"fetch", "fetched", "insert"} => q.miss <= q.i
  BY <1>1, <1>2 DEF Progress
<1>5. Missed(q) \subseteq Span(q.from, q.n)
  BY <1>1, <1>3, <1>4, SpanIn DEF Missed
<1>6. CASE q.pc \in {"lock", "bypass"}
  BY <1>2, <1>3, <1>5, <1>6 DEF Progress
<1>7. CASE q.pc = "fetch"
  <2>1. DOMAIN q.buf = Span(q.from, q.i - q.miss)
    BY <1>2, <1>7 DEF Progress
  <2> QED BY <1>1, <1>3, <1>4, <1>5, <1>7, <2>1, SpanIn
<1>8. CASE q.pc \in {"scan", "fetched", "insert"}
  <2>1. DOMAIN q.buf = Span(q.from, q.i)
    BY <1>2, <1>8 DEF Progress
  <2> QED BY <1>1, <1>3, <1>5, <2>1, SpanIn
<1>9. CASE q.pc \in {"done", "write", "written", "update"}
  BY <1>2, <1>3, <1>5, <1>9 DEF Progress
<1> QED BY <1>1, <1>6, <1>7, <1>8, <1>9 DEF Pcs

\* A step of one task on its own sectors leaves the requests of the others as they were.
LEMMA OthersKeep ==
    ASSUME SdInv, NEW t \in Task, NEW r \in Requests \cup {NoRequest},
           req' = [req EXCEPT ![t] = r],
           Progress(r, t), Fresh(r, may'), Absent(r, entries'),
           \A s \in CardSector \ Region[t] :
              may[s] \subseteq may'[s] /\ (Cached(entries', s) => Cached(entries, s))
    PROVE  /\ req' \in [Task -> Requests \cup {NoRequest}] /\ req'[t] = r
           /\ \A u \in Task \ {t} : req'[u] = req[u]
           /\ RequestsSound'
<1>1. req \in [Task -> Requests \cup {NoRequest}]
  BY DEF SdInv, SdTypeOK
<1>2. /\ req' \in [Task -> Requests \cup {NoRequest}] /\ req'[t] = r
      /\ \A u \in Task \ {t} : req'[u] = req[u]
  BY <1>1
<1>3. ASSUME NEW u \in Task \ {t}
      PROVE  Progress(req[u], u) /\ Fresh(req[u], may') /\ Absent(req[u], entries')
  <2>1. Progress(req[u], u) /\ Fresh(req[u], may) /\ Absent(req[u], entries)
    BY DEF SdInv, RequestsSound
  <2>2. CASE req[u] = NoRequest
    <3>1. Missed(NoRequest) = {}
      BY NoRequestIs DEF Missed
    <3> QED BY <2>1, <2>2, <3>1 DEF Fresh, Absent
  <2>3. CASE req[u] \in Requests
    <3> DEFINE q == req[u]
    <3>1. /\ q.pc \in Pcs /\ q.from \in Nat /\ q.n \in Nat /\ q.i \in Nat /\ q.miss \in Nat
          /\ DOMAIN q.buf \subseteq CardSector
      BY <2>3, FieldsOf, BufferIs
    <3>2. q # NoRequest
      BY <2>3, NoRequestIs
    <3>3. DOMAIN q.buf \subseteq Region[u] /\ Missed(q) \subseteq Region[u]
      BY <2>1, <2>3, InSpan
    <3>4. Region[u] \subseteq CardSector \ Region[t]
      BY CallersApart
    <3>7. Fresh(q, may')
      BY <2>1, <3>3, <3>4 DEF Fresh
    <3>8. Absent(q, entries')
      BY <2>1, <3>3, <3>4 DEF Absent
    <3> QED BY <2>1, <3>7, <3>8
  <2> QED BY <1>1, <2>2, <2>3
<1>4. RequestsSound'
  BY <1>2, <1>3 DEF RequestsSound
<1> QED BY <1>2, <1>4

\* The mutex as a step of task t leaves it.
MutexStep(t, r) ==
  /\ mutex' = mutex \/ (mutex \in {t, NoTask} /\ mutex' \in {t, NoTask})
  /\ Holds(r) <=> mutex' = t

\* A copy is owed an update, holds what its sector may hold, or is as it was.
CopyKept(t, r, x, w) ==
  LET e == entries'[x][w]
  IN  \/ e.sector \in Owed(r)
      \/ e.data \in may'[e.sector]
      \/ e = entries[x][w] /\ may[e.sector] \subseteq may'[e.sector] /\ e.sector \notin Owed(req[t])

\* What a step of task t has to show.
LEMMA StepHolds ==
    ASSUME SdInv, NEW t \in Task, NEW r \in Requests \cup {NoRequest},
           req' = [req EXCEPT ![t] = r],
           card' \in [CardSector -> CardData], may' \in [CardSector -> SUBSET CardData],
           entries' \in CacheType, age' \in 0 .. AgeMod - 1, ready' \in BOOLEAN,
           MutexStep(t, r),
           Progress(r, t), Fresh(r, may'), Absent(r, entries'),
           \A s \in CardSector \ Region[t] :
              may[s] \subseteq may'[s] /\ (Cached(entries', s) => Cached(entries, s)),
           CardSound', Placed(entries'),
           ~ready' => /\ ~ready /\ \A x \in Set, w \in Way : ~entries'[x][w].valid
                      /\ r.pc \in {"idle", "bypass", "done", "write"},
           \A x \in Set, w \in Way : entries'[x][w].valid => CopyKept(t, r, x, w)
    PROVE  SdInv'
<1>1. /\ req' \in [Task -> Requests \cup {NoRequest}] /\ req'[t] = r
      /\ \A u \in Task \ {t} : req'[u] = req[u]
      /\ RequestsSound'
  BY OthersKeep
<1>2. SdTypeOK'
  <2>1. mutex' \in Task \cup {NoTask}
    BY DEF MutexStep, SdInv, SdTypeOK
  <2> QED BY <1>1, <2>1 DEF SdTypeOK, CacheType
<1>3. Exclusive'
  <2>1. ASSUME NEW u \in Task \ {t} PROVE Holds(req'[u]) <=> mutex' = u
    <3>1. u # t /\ u # NoTask
      BY CacheSizes
    <3>2. Holds(req[u]) <=> mutex = u
      BY DEF SdInv, Exclusive
    <3>3. req'[u] = req[u]
      BY <1>1
    <3>4. mutex' = u <=> mutex = u
      BY <3>1 DEF MutexStep
    <3> QED BY <3>2, <3>3, <3>4
  <2>2. Holds(req'[t]) <=> mutex' = t
    BY <1>1 DEF MutexStep
  <2> QED BY <2>1, <2>2 DEF Exclusive
<1>4. NotReady'
  BY <1>1 DEF SdInv, NotReady
<1>5. Coherent'
  <2> SUFFICES ASSUME NEW x \in Set, NEW w \in Way, NEW z, z = entries'[x][w].sector,
                      entries'[x][w].valid, ~Behind(z)'
               PROVE  entries'[x][w].data \in may'[z]
    BY DEF Coherent, Behind
  <2> DEFINE e == entries'[x][w]
  <2>1. \A u \in Task : z \notin Owed(req'[u])
    BY <1>2, BehindIsPrimed
  <2>2. z \notin Owed(r)
    BY <1>1, <2>1
  <2>3. CASE e = entries[x][w] /\ may[z] \subseteq may'[z] /\ z \notin Owed(req[t])
    <3>1. \A u \in Task : z \notin Owed(req[u])
      BY <1>1, <2>1, <2>3
    <3>2. SdTypeOK /\ Coherent
      BY DEF SdInv
    <3>3. ~Behind(z)
      BY <3>1, <3>2, BehindIs
    <3>4. entries[x][w].valid /\ ~Behind(entries[x][w].sector)
      BY <2>3, <3>3
    <3>5. entries[x][w].data \in may[entries[x][w].sector]
      BY <3>2, <3>4 DEF Coherent
    <3> QED BY <2>3, <3>5
  <2>4. CopyKept(t, r, x, w)
    OBVIOUS
  <2> QED BY <2>2, <2>3, <2>4 DEF CopyKept
<1> QED BY <1>1, <1>2, <1>3, <1>4, <1>5 DEF SdInv

\* The same for a step that leaves the card and the cache alone.
LEMMA QuietHolds ==
    ASSUME SdInv, NEW t \in Task, NEW r \in Requests \cup {NoRequest},
           req' = [req EXCEPT ![t] = r],
           UNCHANGED <<card, ready, entries, age, may>>,
           MutexStep(t, r),
           Progress(r, t), Fresh(r, may), Absent(r, entries),
           ~ready => r.pc \in {"idle", "bypass", "done", "write"},
           Owed(req[t]) \subseteq Owed(r)
    PROVE  SdInv'
<1>1. /\ card \in [CardSector -> CardData] /\ may \in [CardSector -> SUBSET CardData]
      /\ entries \in CacheType /\ age \in 0 .. AgeMod - 1 /\ ready \in BOOLEAN
      /\ CardSound /\ Placed(entries) /\ NotReady
  BY DEF SdInv, SdTypeOK, CacheType
<1>2. CardSound'
  BY <1>1 DEF CardSound
<1>3. \A s \in CardSector \ Region[t] :
        may[s] \subseteq may'[s] /\ (Cached(entries', s) => Cached(entries, s))
  OBVIOUS
<1>4. ~ready' => /\ ~ready /\ \A x \in Set, w \in Way : ~entries'[x][w].valid
                 /\ r.pc \in {"idle", "bypass", "done", "write"}
  BY <1>1 DEF NotReady
<1>5. \A x \in Set, w \in Way : entries'[x][w].valid => CopyKept(t, r, x, w)
  BY DEF CopyKept
<1>6. Fresh(r, may') /\ Absent(r, entries')
  OBVIOUS
<1> QED BY <1>1, <1>2, <1>3, <1>4, <1>5, <1>6, StepHolds

-----------------------------------------------------------------------------
(* The steps.                                                                *)

LEMMA RequestSound ==
    ASSUME SdInv, NEW t \in Task, req[t].pc # "idle"
    PROVE  /\ req[t] \in Requests /\ req[t] # NoRequest
           /\ Progress(req[t], t) /\ Fresh(req[t], may) /\ Absent(req[t], entries)
           /\ Holds(req[t]) <=> mutex = t
           /\ ~ready => req[t].pc \in {"bypass", "done", "write"}
<1>1. SdTypeOK
  BY DEF SdInv
<1>2. req[t] \in Requests /\ req[t] # NoRequest
  BY <1>1, Requesting
<1> QED BY <1>2 DEF SdInv, RequestsSound, Exclusive, NotReady

LEMMA EndedSound ==
    ASSUME NEW t \in Task
    PROVE  /\ Progress(NoRequest, t) /\ Owed(NoRequest) = {} /\ ~Holds(NoRequest)
           /\ \A held : Fresh(NoRequest, held)
           /\ \A es : Absent(NoRequest, es)
<1>1. NoRequest.pc = "idle"
  BY NoRequestIs
<1> QED BY <1>1 DEF Progress, Owed, Holds, Fresh, Absent, Missed

LEMMA EditPc ==
    ASSUME NEW q \in Requests, NEW p
    PROVE  [q EXCEPT !.pc = p] = Edited(q, p, q.i, q.miss, q.buf)
<1> DEFINE R(a, c, d, e) == [pc |-> a, from |-> q.from, n |-> q.n, i |-> c, miss |-> d, buf |-> e]
<1>1. q = R(q.pc, q.i, q.miss, q.buf)
  BY FieldsOf
<1> QED BY <1>1 DEF Edited

LEMMA EditPcBuf ==
    ASSUME NEW q \in Requests, NEW p, NEW b
    PROVE  [q EXCEPT !.pc = p, !.buf = b] = Edited(q, p, q.i, q.miss, b)
<1> DEFINE R(a, c, d, e) == [pc |-> a, from |-> q.from, n |-> q.n, i |-> c, miss |-> d, buf |-> e]
<1>1. q = R(q.pc, q.i, q.miss, q.buf)
  BY FieldsOf
<1>2. [R(q.pc, q.i, q.miss, q.buf) EXCEPT !.pc = p] = R(p, q.i, q.miss, q.buf)
  OBVIOUS
<1>3. [R(p, q.i, q.miss, q.buf) EXCEPT !.buf = b] = R(p, q.i, q.miss, b)
  OBVIOUS
<1>4. [q EXCEPT !.pc = p, !.buf = b] = [[q EXCEPT !.pc = p] EXCEPT !.buf = b]
  OBVIOUS
<1>5. Edited(q, p, q.i, q.miss, b) = R(p, q.i, q.miss, b)
  BY DEF Edited
<1> HIDE DEF R
<1>6. [q EXCEPT !.pc = p] = R(p, q.i, q.miss, q.buf)
  BY <1>1, <1>2, Zenon
<1>7. [[q EXCEPT !.pc = p] EXCEPT !.buf = b] = R(p, q.i, q.miss, b)
  BY <1>6, <1>3, Zenon
<1> QED BY <1>4, <1>5, <1>7, Zenon

LEMMA EditIBuf ==
    ASSUME NEW q \in Requests, NEW i, NEW b
    PROVE  [q EXCEPT !.i = i, !.buf = b] = Edited(q, q.pc, i, q.miss, b)
<1> DEFINE R(a, c, d, e) == [pc |-> a, from |-> q.from, n |-> q.n, i |-> c, miss |-> d, buf |-> e]
<1>1. q = R(q.pc, q.i, q.miss, q.buf)
  BY FieldsOf
<1>2. [R(q.pc, q.i, q.miss, q.buf) EXCEPT !.i = i] = R(q.pc, i, q.miss, q.buf)
  OBVIOUS
<1>3. [R(q.pc, i, q.miss, q.buf) EXCEPT !.buf = b] = R(q.pc, i, q.miss, b)
  OBVIOUS
<1>4. [q EXCEPT !.i = i, !.buf = b] = [[q EXCEPT !.i = i] EXCEPT !.buf = b]
  OBVIOUS
<1>5. Edited(q, q.pc, i, q.miss, b) = R(q.pc, i, q.miss, b)
  BY DEF Edited
<1> HIDE DEF R
<1>6. [q EXCEPT !.i = i] = R(q.pc, i, q.miss, q.buf)
  BY <1>1, <1>2, Zenon
<1>7. [[q EXCEPT !.i = i] EXCEPT !.buf = b] = R(q.pc, i, q.miss, b)
  BY <1>6, <1>3, Zenon
<1> QED BY <1>4, <1>5, <1>7, Zenon

LEMMA EditMiss ==
    ASSUME NEW q \in Requests, NEW p, NEW k, NEW i
    PROVE  [q EXCEPT !.pc = p, !.miss = k, !.i = i] = Edited(q, p, i, k, q.buf)
<1> DEFINE R(a, c, d, e) == [pc |-> a, from |-> q.from, n |-> q.n, i |-> c, miss |-> d, buf |-> e]
<1>1. q = R(q.pc, q.i, q.miss, q.buf)
  BY FieldsOf
<1>2. [R(q.pc, q.i, q.miss, q.buf) EXCEPT !.pc = p] = R(p, q.i, q.miss, q.buf)
  OBVIOUS
<1>3. [R(p, q.i, q.miss, q.buf) EXCEPT !.miss = k] = R(p, q.i, k, q.buf)
  OBVIOUS
<1>4. [R(p, q.i, k, q.buf) EXCEPT !.i = i] = R(p, i, k, q.buf)
  OBVIOUS
<1>5. [q EXCEPT !.pc = p, !.miss = k, !.i = i] = [[[q EXCEPT !.pc = p] EXCEPT !.miss = k] EXCEPT !.i = i]
  OBVIOUS
<1>6. Edited(q, p, i, k, q.buf) = R(p, i, k, q.buf)
  BY DEF Edited
<1> HIDE DEF R
<1>7. [q EXCEPT !.pc = p] = R(p, q.i, q.miss, q.buf)
  BY <1>1, <1>2, Zenon
<1>8. [[q EXCEPT !.pc = p] EXCEPT !.miss = k] = R(p, q.i, k, q.buf)
  BY <1>7, <1>3, Zenon
<1>9. [[[q EXCEPT !.pc = p] EXCEPT !.miss = k] EXCEPT !.i = i] = R(p, i, k, q.buf)
  BY <1>8, <1>4, Zenon
<1> QED BY <1>5, <1>6, <1>9, Zenon

LEMMA EditMissPc ==
    ASSUME NEW q \in Requests, NEW k, NEW p
    PROVE  [q EXCEPT !.miss = k, !.pc = p] = Edited(q, p, q.i, k, q.buf)
<1> DEFINE R(a, c, d, e) == [pc |-> a, from |-> q.from, n |-> q.n, i |-> c, miss |-> d, buf |-> e]
<1>1. q = R(q.pc, q.i, q.miss, q.buf)
  BY FieldsOf
<1>2. [R(q.pc, q.i, q.miss, q.buf) EXCEPT !.miss = k] = R(q.pc, q.i, k, q.buf)
  OBVIOUS
<1>3. [R(q.pc, q.i, k, q.buf) EXCEPT !.pc = p] = R(p, q.i, k, q.buf)
  OBVIOUS
<1>4. [q EXCEPT !.miss = k, !.pc = p] = [[q EXCEPT !.miss = k] EXCEPT !.pc = p]
  OBVIOUS
<1>5. Edited(q, p, q.i, k, q.buf) = R(p, q.i, k, q.buf)
  BY DEF Edited
<1> HIDE DEF R
<1>6. [q EXCEPT !.miss = k] = R(q.pc, q.i, k, q.buf)
  BY <1>1, <1>2, Zenon
<1>7. [[q EXCEPT !.miss = k] EXCEPT !.pc = p] = R(p, q.i, k, q.buf)
  BY <1>6, <1>3, Zenon
<1> QED BY <1>4, <1>5, <1>7, Zenon

LEMMA EditI ==
    ASSUME NEW q \in Requests, NEW i
    PROVE  [q EXCEPT !.i = i] = Edited(q, q.pc, i, q.miss, q.buf)
<1> DEFINE R(a, c, d, e) == [pc |-> a, from |-> q.from, n |-> q.n, i |-> c, miss |-> d, buf |-> e]
<1>1. q = R(q.pc, q.i, q.miss, q.buf)
  BY FieldsOf
<1> QED BY <1>1 DEF Edited

LEMMA Places == \A p \in {"lock", "bypass", "scan", "fetch", "fetched", "insert", "done", "write", "written", "update"} : p \in Pcs
BY DEF Pcs

\* Buffer b is buffer was with the sectors of S copied into it.
CopiedInto(b, was, S, data) ==
  /\ b \in Buffers /\ DOMAIN b = DOMAIN was \cup S
  /\ \A s \in DOMAIN was \cup S : b[s] = IF s \in S THEN data[s] ELSE was[s]

SectorsIn(S, data) == \A s \in S : data[s] \in CardData

LEMMA BufferWithIs ==
    ASSUME NEW t \in Task, req[t] \in Requests, NEW S \in SUBSET CardSector, NEW data, SectorsIn(S, data)
    PROVE  CopiedInto(BufferWith(t, S, data), req[t].buf, S, data)
<1> DEFINE D == DOMAIN req[t].buf
<1>1. D \subseteq CardSector /\ \A s \in D : req[t].buf[s] \in CardData
  BY FieldsOf, BufferIs
<1>2. BufferWith(t, S, data) \in [D \cup S -> CardData]
  BY <1>1 DEF BufferWith, SectorsIn
<1>3. D \cup S \in SUBSET CardSector
  BY <1>1
<1> QED BY <1>2, <1>3, BufferIs DEF BufferWith, CopiedInto

\* A step that only moves a request on to its next place.
LEMMA MoveOn ==
    ASSUME SdInv, NEW t \in Task, req[t].pc # "idle", NEW p \in Pcs,
           req' = [req EXCEPT ![t].pc = p],
           UNCHANGED <<card, ready, entries, age, may>>,
           mutex' = mutex \/ (mutex \in {t, NoTask} /\ mutex' \in {t, NoTask}),
           p \in {"scan", "insert", "update"} <=> mutex' = t,
           Progress(Edited(req[t], p, req[t].i, req[t].miss, req[t].buf), t),
           req[t].pc # "write", Owed(req[t]) \subseteq Owed(Edited(req[t], p, req[t].i, req[t].miss, req[t].buf)),
           p \in {"fetch", "fetched", "insert"} => req[t].pc \in {"fetch", "fetched", "insert"},
           ready \/ p \in {"bypass", "done", "write"}
    PROVE  SdInv'
<1> DEFINE q == req[t]
           r == Edited(q, p, q.i, q.miss, q.buf)
<1>1. q \in Requests /\ q # NoRequest /\ Progress(q, t) /\ Fresh(q, may) /\ Absent(q, entries)
  BY RequestSound
<1>2. /\ r \in Requests /\ r.pc = p /\ r.from = q.from /\ r.n = q.n /\ r.i = q.i
      /\ r.miss = q.miss /\ r.buf = q.buf
  BY <1>1, FieldsOf, EditedIs
<1>3. req' = [req EXCEPT ![t] = r]
  BY <1>1, EditPc
<1> HIDE DEF r
<1>4. Fresh(r, may)
  BY <1>1, <1>2 DEF Fresh
<1>5. Absent(r, entries)
  <2>1. Missed(r) \subseteq Missed(q)
    BY <1>2 DEF Missed
  <2> QED BY <1>1, <2>1 DEF Absent
<1>6. MutexStep(t, r)
  BY <1>2 DEF MutexStep, Holds
<1>7. Progress(r, t) /\ Owed(req[t]) \subseteq Owed(r)
  BY DEF r
<1>8. ~ready => r.pc \in {"idle", "bypass", "done", "write"}
  BY <1>2
<1> QED BY <1>2, <1>3, <1>4, <1>5, <1>6, <1>7, <1>8, QuietHolds

\* A step that ends a request without the cache.
LEMMA EndHolds ==
    ASSUME SdInv, NEW t \in Task, req' = [req EXCEPT ![t] = NoRequest],
           UNCHANGED <<card, ready, entries, age, may, mutex>>,
           mutex # t, Owed(req[t]) = {}
    PROVE  SdInv'
<1>1. MutexStep(t, NoRequest)
  BY EndedSound DEF MutexStep
<1> QED BY <1>1, EndedSound, NoRequestIs, QuietHolds

LEMMA LockHolds == ASSUME SdInv, NEW t \in Task, Lock(t) PROVE SdInv'
<1>1. req[t].pc = "lock" /\ req' = [req EXCEPT ![t].pc = "scan"] /\ mutex = NoTask /\ mutex' = t
  BY DEF Lock, At, Take
<1> DEFINE q == req[t]
           r == Edited(q, "scan", q.i, q.miss, q.buf)
<1>2. q \in Requests /\ q # NoRequest /\ Progress(q, t)
  BY <1>1, RequestSound
<1>3. r.pc = "scan" /\ r.from = q.from /\ r.n = q.n /\ r.i = q.i /\ r.buf = q.buf
  BY DEF Edited
<1>4. q.i = 0 /\ DOMAIN q.buf = {} /\ q.i <= q.n /\ Span(q.from, q.n) \subseteq Region[t] /\ q.from \in Nat
  BY <1>1, <1>2, FieldsOf DEF Progress
<1>5. Span(q.from, 0) = {}
  BY <1>4 DEF Span
<1>6. Progress(r, t)
  BY <1>3, <1>4, <1>5 DEF Progress
<1>7. Owed(q) = {} /\ ready
  BY <1>1, RequestSound DEF Owed
<1> QED BY <1>1, <1>6, <1>7, MoveOn DEF Pcs, Lock

LEMMA RelockHolds == ASSUME SdInv, NEW t \in Task, Relock(t) PROVE SdInv'
<1>1. req[t].pc = "fetched" /\ req' = [req EXCEPT ![t].pc = "insert"] /\ mutex = NoTask /\ mutex' = t
  BY DEF Relock, At, Take
<1> DEFINE q == req[t]
           r == Edited(q, "insert", q.i, q.miss, q.buf)
<1>2. q \in Requests /\ q # NoRequest /\ Progress(q, t)
  BY <1>1, RequestSound
<1>3. /\ r.pc = "insert" /\ r.from = q.from /\ r.n = q.n /\ r.i = q.i /\ r.buf = q.buf
      /\ r.miss = q.miss
  BY DEF Edited
<1>4. Progress(r, t)
  BY <1>1, <1>2, <1>3 DEF Progress
<1>5. Owed(q) = {} /\ ready
  BY <1>1, RequestSound DEF Owed
<1> QED BY <1>1, <1>4, <1>5, MoveOn DEF Pcs, Relock

LEMMA ReadDoneHolds == ASSUME SdInv, NEW t \in Task, ReadDone(t) PROVE SdInv'
<1>1. /\ req[t].pc = "scan" /\ req' = [req EXCEPT ![t].pc = "done"] /\ mutex = t /\ mutex' = NoTask
      /\ NextSector(t) = EndSector(t)
  BY DEF ReadDone, At, Give
<1> DEFINE q == req[t]
           r == Edited(q, "done", q.i, q.miss, q.buf)
<1>2. q \in Requests /\ q # NoRequest /\ Progress(q, t)
  BY <1>1, RequestSound
<1>3. r.pc = "done" /\ r.from = q.from /\ r.n = q.n /\ r.i = q.i /\ r.buf = q.buf
  BY DEF Edited
<1>4. q.i = q.n
  BY <1>1, <1>2, FieldsOf DEF NextSector, EndSector
<1>5. Progress(r, t)
  BY <1>1, <1>2, <1>3, <1>4 DEF Progress
<1>6. Owed(q) = {} /\ mutex' # t
  BY <1>1, CacheSizes DEF Owed
<1> QED BY <1>1, <1>5, <1>6, MoveOn DEF Pcs, ReadDone

LEMMA LockUpdateHolds == ASSUME SdInv, NEW t \in Task, LockUpdate(t) PROVE SdInv'
<1>1. req[t].pc = "written" /\ req' = [req EXCEPT ![t].pc = "update"] /\ mutex = NoTask /\ mutex' = t
  BY DEF LockUpdate, At, Take
<1> DEFINE q == req[t]
           r == Edited(q, "update", q.i, q.miss, q.buf)
<1>2. q \in Requests /\ q # NoRequest /\ Progress(q, t)
  BY <1>1, RequestSound
<1>3. r.pc = "update" /\ r.from = q.from /\ r.n = q.n /\ r.i = q.i /\ r.buf = q.buf
  BY DEF Edited
<1>4. q.i = 0 /\ q.i < q.n
  BY <1>1, <1>2, FieldsOf DEF Progress
<1>5. Progress(r, t)
  BY <1>1, <1>2, <1>3, <1>4 DEF Progress
<1>6. Owed(q) \subseteq Owed(r) /\ ready
  BY <1>1, <1>3, RequestSound DEF Owed
<1> QED BY <1>1, <1>5, <1>6, MoveOn DEF Pcs, LockUpdate

LEMMA ReturnHolds == ASSUME SdInv, NEW t \in Task, Return(t) PROVE SdInv'
<1>1. req[t].pc = "done" /\ req' = [req EXCEPT ![t] = NoRequest]
  BY DEF Return, At
<1>2. Owed(req[t]) = {} /\ mutex # t
  BY <1>1, RequestSound DEF Owed, Holds
<1> QED BY <1>1, <1>2, EndHolds DEF Return

\* A new request, whether or not it initialises the cache.
LEMMA CallHolds ==
    ASSUME SdInv, NEW t \in Task, req[t].pc = "idle", LazyInit, NEW r \in Requests,
           req' = [req EXCEPT ![t] = r], UNCHANGED <<card, age, mutex, may>>,
           r.pc \in {"lock", "bypass", "write"}, ready' \/ r.pc # "lock",
           Progress(r, t), Fresh(r, may)
    PROVE  SdInv'
<1>1. SdTypeOK /\ Exclusive /\ NotReady /\ CardSound /\ Placed(entries)
  BY DEF SdInv
<1>2. Missed(r) = {} /\ Owed(r) = {} /\ Owed(req[t]) = {} /\ ~Holds(r) /\ ~Holds(req[t])
  BY DEF Missed, Owed, Holds
<1>3. MutexStep(t, r)
  BY <1>1, <1>2 DEF MutexStep, Exclusive
<1>4. CASE UNCHANGED <<ready, entries>>
  <2>1. Absent(r, entries)
    BY <1>2 DEF Absent
  <2>2. ~ready => r.pc \in {"idle", "bypass", "done", "write"}
    BY <1>4
  <2> QED BY <1>2, <1>3, <1>4, <2>1, <2>2, QuietHolds
<1>5. CASE ~ready /\ ready' = TRUE /\ entries' = EmptyCache
  <2>1. /\ card' \in [CardSector -> CardData] /\ may' \in [CardSector -> SUBSET CardData]
        /\ age' \in 0 .. AgeMod - 1 /\ CardSound'
    BY <1>1 DEF SdTypeOK, CardSound
  <2>2. entries' \in CacheType /\ ready' \in BOOLEAN /\ Placed(entries')
    BY <1>5, EmptyIs
  <2>3. Fresh(r, may') /\ Absent(r, entries')
    BY <1>2 DEF Absent
  <2>4. \A s \in CardSector \ Region[t] :
          may[s] \subseteq may'[s] /\ (Cached(entries', s) => Cached(entries, s))
    BY <1>5, EmptyIs
  <2>5. \A x \in Set, w \in Way : entries'[x][w].valid => CopyKept(t, r, x, w)
    BY <1>5, EmptyIs
  <2> QED BY <1>3, <1>5, <2>1, <2>2, <2>3, <2>4, <2>5, StepHolds
<1> QED BY <1>4, <1>5 DEF LazyInit

LEMMA ReadSectorsHolds ==
    ASSUME SdInv, NEW t \in Task, NEW from \in CardSector, NEW n \in 1 .. MaxRun, ReadSectors(t, from, n)
    PROVE  SdInv'
<1> DEFINE p == IF ready' THEN "lock" ELSE "bypass"
           none == [s \in {} |-> 0]
           r == [pc |-> p, from |-> from, n |-> n, i |-> 0, miss |-> 0, buf |-> none]
<1>1. none \in Buffers /\ DOMAIN none = {}
  <2>1. none \in [{} -> CardData] /\ DOMAIN none = {}
    OBVIOUS
  <2> QED BY <2>1, BufferIs
<1>2. r \in Requests
  <2>1. p \in Pcs /\ 0 \in 0 .. MaxRun
    BY CacheSizes DEF Pcs
  <2> HIDE DEF p, none
  <2> QED BY <1>1, <2>1 DEF Requests, Buffers
<1>3. r.pc = p /\ r.from = from /\ r.n = n /\ r.i = 0 /\ r.buf = none
  OBVIOUS
<1>4. p \in {"lock", "bypass"} /\ (ready' \/ p # "lock") /\ 0 <= n
  OBVIOUS
<1>5. /\ req[t].pc = "idle" /\ Span(from, n) \subseteq Region[t] /\ LazyInit
      /\ req' = [req EXCEPT ![t] = r]
  BY DEF ReadSectors, At
<1> HIDE DEF r, p, none
<1>6. Progress(r, t)
  BY <1>1, <1>3, <1>4, <1>5 DEF Progress
<1>7. Fresh(r, may)
  BY <1>1, <1>3 DEF Fresh
<1> QED BY <1>2, <1>3, <1>4, <1>5, <1>6, <1>7, CallHolds DEF ReadSectors

LEMMA WriteSectorsHolds ==
    ASSUME SdInv, NEW t \in Task, NEW from \in CardSector, NEW n \in 1 .. MaxRun,
           NEW data \in [Span(from, n) -> CardData], WriteSectors(t, from, n, data)
    PROVE  SdInv'
<1> DEFINE r == [pc |-> "write", from |-> from, n |-> n, i |-> 0, miss |-> 0, buf |-> data]
<1>1. /\ req[t].pc = "idle" /\ Span(from, n) \subseteq Region[t] /\ LazyInit
      /\ req' = [req EXCEPT ![t] = r]
  BY DEF WriteSectors, At
<1>2. data \in Buffers
  <2>1. Span(from, n) \in SUBSET CardSector
    BY <1>1, CallersApart
  <2> QED BY <2>1, BufferIs
<1>3. r \in Requests
  <2>1. "write" \in Pcs /\ 0 \in 0 .. MaxRun
    BY CacheSizes DEF Pcs
  <2> QED BY <1>2, <2>1 DEF Requests, Buffers
<1>4. r.pc = "write" /\ r.from = from /\ r.n = n /\ r.i = 0 /\ r.buf = data /\ DOMAIN data = Span(from, n)
  OBVIOUS
<1> HIDE DEF r
<1>5. Progress(r, t) /\ Fresh(r, may)
  BY <1>1, <1>4 DEF Progress, Fresh
<1> QED BY <1>1, <1>3, <1>4, <1>5, CallHolds DEF WriteSectors

LEMMA BypassHolds == ASSUME SdInv, NEW t \in Task, Bypass(t) PROVE SdInv'
<1> DEFINE q == req[t]
           S == Span(q.from, q.n)
           b == BufferWith(t, S, card)
           r == Edited(q, "done", q.i, q.miss, b)
<1>1. q.pc = "bypass" /\ UNCHANGED <<card, ready, entries, age, mutex, may>>
  BY DEF Bypass, At
<1>2. q \in Requests /\ q # NoRequest /\ Progress(q, t) /\ mutex # t
  BY <1>1, RequestSound DEF Holds
<1>3. Owed(q) = {}
  BY <1>1 DEF Owed
<1>4. CASE req' = [req EXCEPT ![t] = NoRequest]
  BY <1>1, <1>2, <1>3, <1>4, EndHolds
<1>5. CASE req' = [req EXCEPT ![t].pc = "done", ![t].buf = b]
  <2>1. S \in SUBSET CardSector /\ DOMAIN q.buf = {} /\ q.i <= q.n /\ S \subseteq Region[t]
    BY <1>1, <1>2, CallersApart DEF Progress
  <2>2. card \in [CardSector -> CardData] /\ \A s \in CardSector : card[s] \in may[s]
    BY DEF SdInv, SdTypeOK, CardSound
  <2>3. b \in Buffers /\ DOMAIN b = S /\ \A s \in S : b[s] = card[s]
    <3>1. SectorsIn(S, card)
      BY <2>1, <2>2 DEF SectorsIn
    <3> HIDE DEF S
    <3>2. CopiedInto(b, q.buf, S, card)
      BY <1>2, <2>1, <3>1, BufferWithIs
    <3> HIDE DEF b
    <3> QED BY <2>1, <3>2 DEF CopiedInto
  <2>4. /\ r \in Requests /\ r.pc = "done" /\ r.from = q.from /\ r.n = q.n /\ r.i = q.i /\ r.buf = b
    <3>1. "done" \in Pcs /\ q.i \in 0 .. MaxRun /\ q.miss \in 0 .. MaxRun
      BY <1>2, Places, FieldsOf
    <3>2. b \in Buffers
      BY <2>3
    <3> HIDE DEF b, S
    <3> QED BY <1>2, <3>1, <3>2, EditedIs
  <2>5. req' = [req EXCEPT ![t] = r]
    <3>1. req' = [req EXCEPT ![t] = [q EXCEPT !.pc = "done", !.buf = b]]
      BY <1>5
    <3> HIDE DEF b
    <3>2. [q EXCEPT !.pc = "done", !.buf = b] = r
      BY <1>2, EditPcBuf
    <3> QED BY <3>1, <3>2, Zenon
  <2> HIDE DEF b, r
  <2>6. Progress(r, t)
    BY <2>1, <2>3, <2>4 DEF Progress
  <2>7. Fresh(r, may) /\ Absent(r, entries) /\ MutexStep(t, r)
    BY <1>1, <1>2, <2>1, <2>2, <2>3, <2>4 DEF Fresh, Absent, Missed, MutexStep, Holds
  <2> QED BY <1>1, <1>3, <2>4, <2>5, <2>6, <2>7, QuietHolds
<1> QED BY <1>4, <1>5 DEF Bypass

LEMMA CopyHitHolds == ASSUME SdInv, NEW t \in Task, CopyHit(t) PROVE SdInv'
<1> DEFINE q == req[t]
           s == NextSector(t)
           hits == [z \in CardSector |-> Hit(entries, z)]
           b == BufferWith(t, {s}, hits)
           r == Edited(q, q.pc, q.i + 1, q.miss, b)
<1>1. /\ q.pc = "scan" /\ UNCHANGED <<card, ready, entries, age, mutex, may>>
      /\ s < EndSector(t) /\ Cached(entries, s)
      /\ req' = [req EXCEPT ![t].i = @ + 1, ![t].buf = b]
  BY DEF CopyHit, At
<1>2. q \in Requests /\ q # NoRequest /\ Progress(q, t) /\ Fresh(q, may) /\ mutex = t /\ ready
  BY <1>1, RequestSound DEF Holds
<1>3. /\ q.from \in Nat /\ q.i \in Nat /\ q.n \in Nat /\ q.n <= MaxRun /\ q.miss \in 0 .. MaxRun
      /\ q.pc \in Pcs
  BY <1>2, FieldsOf
<1>4. q.i + 1 <= q.n /\ s = q.from + q.i
  BY <1>1, <1>3 DEF NextSector, EndSector
<1>5. q.i + 1 \in 0 .. MaxRun
  BY <1>3, <1>4, CacheSizes
<1>6. s \in Span(q.from, q.n) /\ Span(q.from, q.i + 1) = Span(q.from, q.i) \cup {s}
  BY <1>3, <1>4 DEF Span
<1>7. Span(q.from, q.n) \subseteq Region[t] /\ s \in Region[t] /\ s \in CardSector
  BY <1>2, <1>6, CallersApart DEF Progress
<1>8. SdTypeOK /\ entries \in CacheType /\ Coherent
  BY DEF SdInv, SdTypeOK, CacheType
<1>9. Hit(entries, s) \in CardData /\ Hit(entries, s) \in may[s]
  <2> DEFINE w == Least(Holding(entries, s))
             e == entries[SetOf(s)][w]
  <2>1. w \in Way /\ HeldAt(entries, SetOf(s), w, s) /\ SetOf(s) \in Set
    BY <1>1, <1>7, <1>8, HoldingIs, SetOfIs
  <2>2. e.valid /\ e.sector = s /\ e \in Entries
    BY <1>8, <2>1, ValidIs DEF HeldAt
  <2>3. ~Behind(s)
    <3>1. ASSUME NEW u \in Task, s \in Owed(req[u]) PROVE FALSE
      <4>1. req[u].pc \in {"written", "update"} /\ u # t
        BY <1>1, <3>1 DEF Owed
      <4>2. req[u] \in Requests /\ Progress(req[u], u) /\ req[u] # NoRequest
        BY <4>1, RequestSound
      <4>3. Owed(req[u]) \subseteq Span(req[u].from, req[u].n)
        BY <4>1, <4>2, FieldsOf DEF Owed, Span
      <4>4. s \in Region[u]
        BY <3>1, <4>2, <4>3 DEF Progress
      <4> QED BY <1>7, <4>1, <4>4, CallersApart
    <3> QED BY <1>8, <3>1, BehindIs
  <2>4. e.data \in may[s]
    BY <1>8, <2>1, <2>2, <2>3 DEF Coherent
  <2>5. e.data \in CardData
    BY <2>2 DEF Entries
  <2> QED BY <2>4, <2>5 DEF Hit
<1>10. hits[s] = Hit(entries, s)
  BY <1>7
<1>11. /\ b \in Buffers /\ DOMAIN b = DOMAIN q.buf \cup {s}
       /\ b[s] = Hit(entries, s) /\ \A z \in DOMAIN q.buf : z # s => b[z] = q.buf[z]
  <2>1. {s} \in SUBSET CardSector /\ SectorsIn({s}, hits)
    BY <1>7, <1>9, <1>10 DEF SectorsIn
  <2> HIDE DEF hits, s
  <2>2. CopiedInto(b, q.buf, {s}, hits)
    BY <1>2, <2>1, BufferWithIs
  <2> HIDE DEF b
  <2> QED BY <1>10, <2>2 DEF CopiedInto
<1>12. DOMAIN q.buf = Span(q.from, q.i)
  BY <1>1, <1>2 DEF Progress
<1>13. /\ r \in Requests /\ r.pc = "scan" /\ r.from = q.from /\ r.n = q.n /\ r.i = q.i + 1 /\ r.buf = b
  <2> HIDE DEF b
  <2> QED BY <1>1, <1>2, <1>3, <1>5, <1>11, EditedIs
<1>14. req' = [req EXCEPT ![t] = r]
  <2>1. req' = [req EXCEPT ![t] = [q EXCEPT !.i = q.i + 1, !.buf = b]]
    BY <1>1
  <2> HIDE DEF b
  <2>2. [q EXCEPT !.i = q.i + 1, !.buf = b] = r
    BY <1>2, EditIBuf
  <2> QED BY <2>1, <2>2, Zenon
<1> HIDE DEF b, r, s, hits
<1>15. Progress(r, t)
  BY <1>4, <1>6, <1>7, <1>11, <1>12, <1>13 DEF Progress
<1>16. Fresh(r, may)
  BY <1>1, <1>2, <1>9, <1>11, <1>13 DEF Fresh
<1>17. Absent(r, entries) /\ MutexStep(t, r) /\ Owed(q) = {}
  BY <1>1, <1>2, <1>13 DEF Absent, Missed, MutexStep, Holds, Owed
<1> QED BY <1>1, <1>2, <1>13, <1>14, <1>15, <1>16, <1>17, QuietHolds

LEMMA MissHolds == ASSUME SdInv, NEW t \in Task, Miss(t) PROVE SdInv'
<1> DEFINE q == req[t]
           s == NextSector(t)
           k == Missing(t)
           K == {j \in 1 .. EndSector(t) - s : s + j < EndSector(t) => Cached(entries, s + j)}
           r == Edited(q, "fetch", q.i + k, k, q.buf)
<1>1. /\ q.pc = "scan" /\ UNCHANGED <<card, ready, entries, age, may>>
      /\ s < EndSector(t) /\ ~Cached(entries, s) /\ mutex = t /\ mutex' = NoTask
      /\ req' = [req EXCEPT ![t].pc = "fetch", ![t].miss = k, ![t].i = @ + k]
  BY DEF Miss, At, Give
<1>2. q \in Requests /\ q # NoRequest /\ Progress(q, t) /\ Fresh(q, may) /\ ready
  BY <1>1, RequestSound
<1>3. /\ q.from \in Nat /\ q.i \in Nat /\ q.n \in Nat /\ q.n <= MaxRun /\ q.buf \in Buffers
  BY <1>2, FieldsOf
<1>4. s = q.from + q.i /\ EndSector(t) = q.from + q.n /\ EndSector(t) - s \in Nat \ {0}
  BY <1>1, <1>3 DEF NextSector, EndSector
<1>5. K \subseteq Nat /\ EndSector(t) - s \in K
  BY <1>3, <1>4
<1>6. k \in K /\ \A j \in K : k <= j
  BY <1>5, LeastIs DEF Missing
<1>7. k \in 1 .. EndSector(t) - s
  BY <1>6
<1>8. k \in Nat /\ 1 <= k /\ q.i + k <= q.n
  BY <1>3, <1>4, <1>7
<1>9. \A j \in Nat : j < k => ~Cached(entries, s + j)
  <2> SUFFICES ASSUME NEW j \in Nat, j < k PROVE ~Cached(entries, s + j)
    OBVIOUS
  <2>1. CASE j = 0
    BY <1>1, <1>3, <1>4, <2>1
  <2>2. CASE j # 0
    <3>1. j \in 1 .. EndSector(t) - s /\ s + j < EndSector(t)
      BY <1>3, <1>4, <1>7, <2>2
    <3>2. j \notin K
      BY <1>6, <1>8
    <3> QED BY <3>1, <3>2
  <2> QED BY <2>1, <2>2
<1>10. k \in 0 .. MaxRun /\ q.i + k \in 0 .. MaxRun
  BY <1>3, <1>8, CacheSizes
<1>11. /\ r \in Requests /\ r.pc = "fetch" /\ r.from = q.from /\ r.n = q.n /\ r.i = q.i + k
       /\ r.miss = k /\ r.buf = q.buf
  <2>1. "fetch" \in Pcs
    BY Places
  <2> HIDE DEF k
  <2> QED BY <1>2, <1>3, <1>10, <2>1, EditedIs
<1>12. req' = [req EXCEPT ![t] = r]
  <2>1. req' = [req EXCEPT ![t] = [q EXCEPT !.pc = "fetch", !.miss = k, !.i = q.i + k]]
    BY <1>1
  <2> HIDE DEF k
  <2>2. [q EXCEPT !.pc = "fetch", !.miss = k, !.i = q.i + k] = r
    BY <1>2, EditMiss
  <2> QED BY <2>1, <2>2, Zenon
<1>13. Span(q.from, q.n) \subseteq Region[t] /\ DOMAIN q.buf = Span(q.from, q.i)
  BY <1>1, <1>2 DEF Progress
<1> HIDE DEF r, s, k, K
<1>14. r.i - r.miss = q.i /\ r.from + r.i - r.miss = s /\ r.miss \in 1 .. r.i
  BY <1>3, <1>4, <1>8, <1>11
<1>15. Progress(r, t)
  BY <1>8, <1>11, <1>13, <1>14 DEF Progress
<1>16. Absent(r, entries)
  <2>1. Missed(r) = Span(s, k)
    BY <1>11, <1>14 DEF Missed
  <2>2. ASSUME NEW z \in Span(s, k) PROVE ~Cached(entries, z)
    <3>1. z - s \in Nat /\ z - s < k /\ s + (z - s) = z
      BY <1>3, <1>4, <1>8 DEF Span
    <3> QED BY <1>9, <3>1
  <2> QED BY <2>1, <2>2 DEF Absent
<1>17. Fresh(r, may) /\ MutexStep(t, r) /\ Owed(q) = {}
  BY <1>1, <1>2, <1>11, CacheSizes DEF Fresh, MutexStep, Holds, Owed
<1> QED BY <1>1, <1>2, <1>11, <1>12, <1>15, <1>16, <1>17, QuietHolds

LEMMA FetchHolds == ASSUME SdInv, NEW t \in Task, Fetch(t) PROVE SdInv'
<1> DEFINE q == req[t]
           S == Span(NextSector(t) - q.miss, q.miss)
           b == BufferWith(t, S, card)
           r == Edited(q, "fetched", q.i, q.miss, b)
<1>1. q.pc = "fetch" /\ UNCHANGED <<card, ready, entries, age, mutex, may>>
  BY DEF Fetch, At
<1>2. /\ q \in Requests /\ q # NoRequest /\ Progress(q, t) /\ mutex # t /\ ready
      /\ Absent(q, entries) /\ Fresh(q, may)
  BY <1>1, RequestSound DEF Holds
<1>3. Owed(q) = {}
  BY <1>1 DEF Owed
<1>4. CASE req' = [req EXCEPT ![t] = NoRequest]
  BY <1>1, <1>2, <1>3, <1>4, EndHolds
<1>5. CASE req' = [req EXCEPT ![t].pc = "fetched", ![t].buf = b]
  <2>1. /\ q.from \in Nat /\ q.i \in Nat /\ q.n \in Nat /\ q.miss \in 1 .. q.i /\ q.i <= q.n
        /\ DOMAIN q.buf = Span(q.from, q.i - q.miss) /\ Span(q.from, q.n) \subseteq Region[t]
    BY <1>1, <1>2, FieldsOf DEF Progress
  <2>2. S = Missed(q) /\ S \subseteq Span(q.from, q.n)
    <3>1. S = Missed(q)
      BY <1>1, <2>1 DEF Missed, NextSector
    <3> QED BY <1>2, <3>1, InSpan
  <2>3. S \in SUBSET CardSector
    BY <2>1, <2>2, CallersApart
  <2>4. Span(q.from, q.i - q.miss) \cup S = Span(q.from, q.i)
    <3>1. NextSector(t) - q.miss = q.from + q.i - q.miss
      BY <2>1 DEF NextSector
    <3>2. S = Span(q.from + q.i - q.miss, q.miss)
      BY <3>1
    <3> QED BY <2>1, <3>2, SpanJoin
  <2>5. card \in [CardSector -> CardData] /\ \A s \in CardSector : card[s] \in may[s]
    BY DEF SdInv, SdTypeOK, CardSound
  <2>6. /\ b \in Buffers /\ DOMAIN b = Span(q.from, q.i)
        /\ \A s \in DOMAIN b : b[s] = IF s \in S THEN card[s] ELSE q.buf[s]
    <3>1. SectorsIn(S, card)
      BY <2>3, <2>5 DEF SectorsIn
    <3> HIDE DEF S
    <3>2. CopiedInto(b, q.buf, S, card)
      BY <1>2, <2>3, <3>1, BufferWithIs
    <3> HIDE DEF b
    <3> QED BY <2>1, <2>4, <3>2 DEF CopiedInto
  <2>7. /\ r \in Requests /\ r.pc = "fetched" /\ r.from = q.from /\ r.n = q.n /\ r.i = q.i
        /\ r.miss = q.miss /\ r.buf = b
    <3>1. "fetched" \in Pcs /\ q.i \in 0 .. MaxRun /\ q.miss \in 0 .. MaxRun
      BY <1>2, Places, FieldsOf
    <3>2. b \in Buffers
      BY <2>6
    <3> HIDE DEF b, S
    <3> QED BY <1>2, <3>1, <3>2, EditedIs
  <2>8. req' = [req EXCEPT ![t] = r]
    <3>1. req' = [req EXCEPT ![t] = [q EXCEPT !.pc = "fetched", !.buf = b]]
      BY <1>5
    <3> HIDE DEF b
    <3>2. [q EXCEPT !.pc = "fetched", !.buf = b] = r
      BY <1>2, EditPcBuf
    <3> QED BY <3>1, <3>2, Zenon
  <2> HIDE DEF b, r, S
  <2>9. Progress(r, t)
    BY <2>1, <2>6, <2>7 DEF Progress
  <2>10. Fresh(r, may)
    <3> SUFFICES ASSUME NEW s \in DOMAIN b PROVE b[s] \in may[s]
      BY <2>7 DEF Fresh
    <3>1. CASE s \in S
      BY <2>3, <2>5, <2>6, <3>1
    <3>2. CASE s \notin S
      BY <1>1, <1>2, <2>1, <2>4, <2>6, <3>2 DEF Fresh
    <3> QED BY <3>1, <3>2
  <2>11. Absent(r, entries) /\ MutexStep(t, r)
    BY <1>1, <1>2, <2>7 DEF Absent, Missed, MutexStep, Holds
  <2> QED BY <1>1, <1>2, <1>3, <2>7, <2>8, <2>9, <2>10, <2>11, QuietHolds
<1> QED BY <1>4, <1>5 DEF Fetch

\* A step that stores one sector of a request in the cache.
LEMMA StoreHolds ==
    ASSUME SdInv, NEW t \in Task, req[t] \in Requests, NEW r \in Requests \cup {NoRequest},
           req' = [req EXCEPT ![t] = r],
           UNCHANGED <<card, ready, may>>, ready, age' \in 0 .. AgeMod - 1,
           NEW s \in Region[t], NEW v \in may[s], Stored(entries, entries', s, v),
           MutexStep(t, r), Progress(r, t), Fresh(r, may),
           Missed(r) \subseteq Missed(req[t]) \ {s}, Owed(req[t]) \subseteq Owed(r) \cup {s}
    PROVE  SdInv'
<1>1. /\ card \in [CardSector -> CardData] /\ may \in [CardSector -> SUBSET CardData]
      /\ entries \in CacheType /\ Placed(entries) /\ CardSound
      /\ Progress(req[t], t) /\ Absent(req[t], entries)
  BY DEF SdInv, SdTypeOK, CacheType, RequestsSound
<1>2. s \in CardSector
  BY CallersApart
<1>3. /\ entries' \in CacheType /\ Placed(entries')
      /\ \A x \in Set, y \in Way : HeldAt(entries', x, y, s) => entries'[x][y].data = v
      /\ \A x \in Set, y \in Way, z \in CardSector :
           z # s /\ HeldAt(entries', x, y, z) => entries'[x][y] = entries[x][y]
  BY <1>1, <1>2, StoredIs
<1>4. \A z \in CardSector : z # s /\ Cached(entries', z) => Cached(entries, z)
  BY <1>1, <1>2, CachedBefore
<1>5. Absent(r, entries')
  <2> SUFFICES ASSUME NEW z \in Missed(r) PROVE ~Cached(entries', z)
    BY DEF Absent
  <2>1. z # s /\ z \in Missed(req[t])
    OBVIOUS
  <2>2. z \in CardSector
    <3>1. Missed(req[t]) \subseteq Region[t]
      BY <1>1, InSpan
    <3> QED BY <2>1, <3>1, CallersApart
  <2> QED BY <1>1, <1>4, <2>1, <2>2 DEF Absent
<1>6. \A z \in CardSector \ Region[t] :
        may[z] \subseteq may'[z] /\ (Cached(entries', z) => Cached(entries, z))
  BY <1>4
<1>7. \A x \in Set, w \in Way : entries'[x][w].valid => CopyKept(t, r, x, w)
  <2> SUFFICES ASSUME NEW x \in Set, NEW w \in Way, entries'[x][w].valid PROVE CopyKept(t, r, x, w)
    OBVIOUS
  <2> DEFINE e == entries'[x][w]
  <2>1. e \in Entries
    BY <1>3, ValidIs
  <2>2. e.sector \in CardSector
    BY <2>1 DEF Entries
  <2>3. HeldAt(entries', x, w, e.sector)
    BY DEF HeldAt
  <2>4. CASE e.sector = s
    BY <1>3, <2>3, <2>4 DEF CopyKept
  <2>5. CASE e.sector # s
    <3>1. e = entries[x][w]
      BY <1>3, <2>2, <2>3, <2>5
    <3> QED BY <2>5, <3>1 DEF CopyKept
  <2> QED BY <2>4, <2>5
<1>8. CardSound'
  BY <1>1 DEF CardSound
<1>9. /\ card' \in [CardSector -> CardData] /\ may' \in [CardSector -> SUBSET CardData]
      /\ ready' \in BOOLEAN /\ ready' /\ Fresh(r, may')
  BY <1>1 DEF SdInv, SdTypeOK
<1> QED BY <1>3, <1>5, <1>6, <1>7, <1>8, <1>9, StepHolds

LEMMA AgedIs == ASSUME SdTypeOK PROVE Aged(1) \in 0 .. AgeMod - 1
<1>1. age \in Nat /\ AgeMod \in Nat \ {0}
  BY CacheSizes DEF SdTypeOK
<1> QED BY <1>1 DEF Aged

LEMMA SpanDrop ==
    ASSUME NEW f \in Nat, NEW i \in Nat, NEW k \in 1 .. i
    PROVE  /\ f + i - k \in Span(f, i) /\ f + i - k \in Span(f + i - k, k)
           /\ Span(f + i - (k - 1), k - 1) \subseteq Span(f + i - k, k) \ {f + i - k}
BY DEF Span

LEMMA InsertNextHolds == ASSUME SdInv, NEW t \in Task, InsertNext(t) PROVE SdInv'
<1> DEFINE q == req[t]
           s == NextSector(t) - q.miss
           v == q.buf[s]
           p == IF q.miss = 1 THEN "scan" ELSE "insert"
           r == Edited(q, p, q.i, q.miss - 1, q.buf)
<1>1. /\ q.pc = "insert" /\ UNCHANGED <<card, ready, mutex, may>>
      /\ entries' = Insert(entries, s, Aged(1), v) /\ age' = Aged(1)
      /\ req' = [req EXCEPT ![t] = [q EXCEPT !.miss = q.miss - 1, !.pc = p]]
  BY DEF InsertNext, At
<1>2. /\ q \in Requests /\ q # NoRequest /\ Progress(q, t) /\ mutex = t /\ ready
      /\ Absent(q, entries) /\ Fresh(q, may)
  BY <1>1, RequestSound DEF Holds
<1>3. /\ q.from \in Nat /\ q.i \in Nat /\ q.n \in Nat /\ q.miss \in 1 .. q.i /\ q.i <= q.n
      /\ q.i \in 0 .. MaxRun /\ q.miss - 1 \in 0 .. MaxRun /\ q.buf \in Buffers
      /\ DOMAIN q.buf = Span(q.from, q.i) /\ Span(q.from, q.n) \subseteq Region[t]
  BY <1>1, <1>2, FieldsOf, CacheSizes DEF Progress
<1>4. s = q.from + q.i - q.miss
  BY <1>3 DEF NextSector
<1>19. /\ s \in Span(q.from, q.i) /\ s \in Span(q.from + q.i - q.miss, q.miss)
       /\ Span(q.from + q.i - (q.miss - 1), q.miss - 1) \subseteq Span(q.from + q.i - q.miss, q.miss) \ {s}
  <2>1. q.from \in Nat /\ q.i \in Nat /\ q.miss \in 1 .. q.i
    BY <1>3
  <2> HIDE DEF q, s
  <2>2. /\ q.from + q.i - q.miss \in Span(q.from, q.i)
        /\ q.from + q.i - q.miss \in Span(q.from + q.i - q.miss, q.miss)
        /\ Span(q.from + q.i - (q.miss - 1), q.miss - 1)
              \subseteq Span(q.from + q.i - q.miss, q.miss) \ {q.from + q.i - q.miss}
    BY <2>1, SpanDrop
  <2> QED BY <1>4, <2>2
<1>5. s \in Span(q.from, q.i) /\ s \in Span(q.from, q.n)
  <2> HIDE DEF s
  <2> QED BY <1>3, <1>19, SpanIn
<1>6. s \in Region[t] /\ s \in CardSector
  BY <1>3, <1>5, CallersApart
<1>7. s \in Missed(q) /\ ~Cached(entries, s)
  <2>1. Missed(q) = Span(q.from + q.i - q.miss, q.miss)
    BY <1>1 DEF Missed
  <2>2. s \in Missed(q)
    <3> HIDE DEF s
    <3> QED BY <1>19, <2>1
  <2> QED BY <1>2, <2>2 DEF Absent
<1>8. v \in may[s] /\ v \in CardData
  <2>1. v \in may[s]
    BY <1>1, <1>2, <1>3, <1>5 DEF Fresh
  <2>2. may \in [CardSector -> SUBSET CardData]
    BY DEF SdInv, SdTypeOK
  <2> QED BY <1>6, <2>1, <2>2
<1>9. SdTypeOK /\ entries \in CacheType
  BY DEF SdInv, SdTypeOK, CacheType
<1>10. Stored(entries, entries', s, v) /\ age' \in 0 .. AgeMod - 1
  <2> HIDE DEF s, v
  <2> QED BY <1>1, <1>6, <1>7, <1>8, <1>9, AgedIs, InsertStores
<1>11. /\ r \in Requests /\ r.pc = p /\ r.from = q.from /\ r.n = q.n /\ r.i = q.i
       /\ r.miss = q.miss - 1 /\ r.buf = q.buf
  <2>1. p \in Pcs
    BY Places
  <2> HIDE DEF p
  <2> QED BY <1>2, <1>3, <2>1, EditedIs
<1>12. req' = [req EXCEPT ![t] = r]
  <2> HIDE DEF p
  <2>1. [q EXCEPT !.miss = q.miss - 1, !.pc = p] = r
    BY <1>2, EditMissPc
  <2> QED BY <1>1, <2>1, Zenon
<1> HIDE DEF r, s, v
<1>13. (p = "scan" /\ q.miss = 1) \/ (p = "insert" /\ q.miss # 1)
  OBVIOUS
<1> HIDE DEF p
<1>14. Progress(r, t)
  BY <1>3, <1>11, <1>13 DEF Progress
<1>15. Fresh(r, may)
  BY <1>1, <1>2, <1>11 DEF Fresh
<1>16. MutexStep(t, r)
  BY <1>1, <1>2, <1>11, <1>13 DEF MutexStep, Holds
<1>17. Missed(r) \subseteq Missed(q) \ {s}
  <2>1. CASE p = "scan"
    BY <1>11, <2>1 DEF Missed
  <2>2. CASE p = "insert"
    <3>1. Missed(q) = Span(q.from + q.i - q.miss, q.miss)
      BY <1>1 DEF Missed
    <3>2. Missed(r) = Span(q.from + q.i - (q.miss - 1), q.miss - 1)
      BY <1>11, <2>2 DEF Missed
    <3> QED BY <1>19, <3>1, <3>2
  <2> QED BY <1>13, <2>1, <2>2
<1>18. Owed(q) = {}
  BY <1>1 DEF Owed
<1> QED BY <1>1, <1>2, <1>6, <1>8, <1>10, <1>11, <1>12, <1>14, <1>15, <1>16, <1>17, <1>18, StoreHolds

LEMMA UpdateNextHolds == ASSUME SdInv, NEW t \in Task, UpdateNext(t) PROVE SdInv'
<1> DEFINE q == req[t]
           s == NextSector(t)
           v == q.buf[s]
           r == Edited(q, q.pc, q.i + 1, q.miss, q.buf)
<1>1. /\ q.pc = "update" /\ UNCHANGED <<card, ready, may>>
      /\ entries' = Update(entries, s, Aged(1), v) /\ age' = Aged(1)
  BY DEF UpdateNext, At
<1>2. /\ q \in Requests /\ q # NoRequest /\ Progress(q, t) /\ mutex = t /\ ready /\ Fresh(q, may)
  BY <1>1, RequestSound DEF Holds
<1>3. /\ q.from \in Nat /\ q.i \in Nat /\ q.n \in Nat /\ q.i < q.n /\ q.n <= MaxRun
      /\ q.miss \in 0 .. MaxRun /\ q.buf \in Buffers
      /\ DOMAIN q.buf = Span(q.from, q.n) /\ Span(q.from, q.n) \subseteq Region[t]
  BY <1>1, <1>2, FieldsOf DEF Progress
<1>4. s = q.from + q.i /\ EndSector(t) = q.from + q.n
  BY DEF NextSector, EndSector
<1>5. s \in Span(q.from, q.n)
  BY <1>3, <1>4 DEF Span
<1>6. s \in Region[t] /\ s \in CardSector
  BY <1>3, <1>5, CallersApart
<1>8. v \in may[s] /\ v \in CardData
  <2>1. v \in may[s]
    BY <1>1, <1>2, <1>3, <1>5 DEF Fresh
  <2>2. may \in [CardSector -> SUBSET CardData]
    BY DEF SdInv, SdTypeOK
  <2> QED BY <1>6, <2>1, <2>2
<1>9. SdTypeOK /\ entries \in CacheType /\ Placed(entries)
  BY DEF SdInv, SdTypeOK, CacheType
<1>10. Stored(entries, entries', s, v) /\ age' \in 0 .. AgeMod - 1
  <2> HIDE DEF s, v
  <2> QED BY <1>1, <1>6, <1>8, <1>9, AgedIs, UpdateStores
<1>11. Owed(q) = s .. q.from + q.n - 1
  BY <1>1, <1>4 DEF Owed
<1>12. CASE s + 1 < EndSector(t) /\ req' = [req EXCEPT ![t].i = q.i + 1] /\ UNCHANGED mutex
  <2>1. q.i + 1 \in 0 .. MaxRun /\ q.i + 1 < q.n
    BY <1>3, <1>4, <1>12, CacheSizes
  <2>2. /\ r \in Requests /\ r.pc = "update" /\ r.from = q.from /\ r.n = q.n /\ r.i = q.i + 1
        /\ r.miss = q.miss /\ r.buf = q.buf
    <3>1. q.pc \in Pcs
      BY <1>2, FieldsOf
    <3> QED BY <1>1, <1>2, <1>3, <2>1, <3>1, EditedIs
  <2>3. req' = [req EXCEPT ![t] = r]
    <3>1. [q EXCEPT !.i = q.i + 1] = r
      BY <1>2, EditI
    <3>2. req' = [req EXCEPT ![t] = [q EXCEPT !.i = q.i + 1]]
      BY <1>12
    <3> QED BY <3>1, <3>2, Zenon
  <2> HIDE DEF r, s, v
  <2>4. Progress(r, t)
    BY <1>1, <1>2, <1>3, <2>1, <2>2 DEF Progress
  <2>5. Fresh(r, may)
    BY <1>1, <1>2, <2>2 DEF Fresh
  <2>6. MutexStep(t, r) /\ Missed(r) = {}
    BY <1>2, <1>12, <2>2 DEF MutexStep, Holds, Missed
  <2>7. Owed(q) \subseteq Owed(r) \cup {s}
    <3>1. Owed(r) = q.from + (q.i + 1) .. q.from + q.n - 1
      BY <2>2 DEF Owed
    <3> QED BY <1>3, <1>4, <1>11, <3>1
  <2> QED BY <1>1, <1>2, <1>6, <1>8, <1>10, <2>2, <2>3, <2>4, <2>5, <2>6, <2>7, StoreHolds
<1>13. CASE s + 1 = EndSector(t) /\ req' = [req EXCEPT ![t] = NoRequest] /\ Give(t)
  <2>1. MutexStep(t, NoRequest)
    BY <1>2, <1>13, EndedSound, CacheSizes DEF MutexStep, Give
  <2>2. Owed(q) \subseteq Owed(NoRequest) \cup {s}
    BY <1>3, <1>4, <1>11, <1>13
  <2>3. Missed(NoRequest) = {}
    BY NoRequestIs DEF Missed
  <2> HIDE DEF s, v
  <2> QED BY <1>1, <1>2, <1>6, <1>8, <1>10, <1>13, <2>1, <2>2, <2>3, EndedSound, StoreHolds
<1> QED BY <1>12, <1>13 DEF UpdateNext

\* A write to the card, which the cache is told of or not.
LEMMA WriteHolds ==
    ASSUME SdInv, NEW t \in Task, req[t].pc = "write", NEW r \in Requests \cup {NoRequest},
           req' = [req EXCEPT ![t] = r],
           UNCHANGED <<ready, entries, age, mutex>>,
           card' \in [CardSector -> CardData], may' \in [CardSector -> SUBSET CardData], CardSound',
           r.pc \in {"idle", "written"}, r.pc = "written" => ready,
           Progress(r, t), Fresh(r, may'),
           \A s \in CardSector : may[s] \subseteq may'[s] \/ ~ready \/ s \in Owed(r),
           \A s \in CardSector \ Region[t] : may[s] \subseteq may'[s]
    PROVE  SdInv'
<1>1. /\ entries \in CacheType /\ Placed(entries) /\ NotReady
      /\ age' \in 0 .. AgeMod - 1 /\ ready' \in BOOLEAN
  BY DEF SdInv, SdTypeOK, CacheType
<1>2. mutex # t /\ Owed(req[t]) = {}
  BY RequestSound DEF Holds, Owed
<1>3. MutexStep(t, r)
  BY <1>2 DEF MutexStep, Holds
<1>4. Absent(r, entries')
  BY DEF Absent, Missed
<1>5. \A s \in CardSector \ Region[t] :
        may[s] \subseteq may'[s] /\ (Cached(entries', s) => Cached(entries, s))
  OBVIOUS
<1>6. ~ready' => /\ ~ready /\ \A x \in Set, w \in Way : ~entries'[x][w].valid
                 /\ r.pc \in {"idle", "bypass", "done", "write"}
  BY <1>1 DEF NotReady
<1>7. ASSUME NEW x \in Set, NEW w \in Way, entries'[x][w].valid PROVE CopyKept(t, r, x, w)
  <2>1. entries[x][w].valid /\ ready
    BY <1>1, <1>7 DEF NotReady
  <2>2. entries[x][w].sector \in CardSector
    BY <1>1, <2>1, ValidIs DEF Entries
  <2> QED BY <1>2, <2>1, <2>2 DEF CopyKept
<1> QED BY <1>1, <1>3, <1>4, <1>5, <1>6, <1>7, StepHolds

LEMMA WritingIs ==
    ASSUME SdInv, NEW t \in Task, req[t].pc = "write", NEW S, S = Span(req[t].from, req[t].n)
    PROVE  /\ S \subseteq CardSector /\ S \subseteq Region[t] /\ DOMAIN req[t].buf = S
           /\ \A s \in S : req[t].buf[s] \in CardData
           /\ card \in [CardSector -> CardData] /\ may \in [CardSector -> SUBSET CardData]
           /\ \A s \in CardSector : card[s] \in may[s]
           /\ req[t] \in Requests /\ req[t].i = 0 /\ req[t].i <= req[t].n
           /\ \A P \in SUBSET S : OnCard(t, P) \in [CardSector -> CardData]
<1>1. req[t] \in Requests /\ req[t] # NoRequest /\ Progress(req[t], t)
  BY RequestSound
<1>2. /\ S \subseteq Region[t] /\ DOMAIN req[t].buf = S /\ req[t].i = 0 /\ req[t].i <= req[t].n
  BY <1>1 DEF Progress
<1>3. S \subseteq CardSector
  BY <1>2, CallersApart
<1>4. \A s \in S : req[t].buf[s] \in CardData
  BY <1>1, <1>2, FieldsOf, BufferIs
<1>5. /\ card \in [CardSector -> CardData] /\ may \in [CardSector -> SUBSET CardData]
      /\ \A s \in CardSector : card[s] \in may[s]
  BY DEF SdInv, SdTypeOK, CardSound
<1>6. \A P \in SUBSET S : OnCard(t, P) \in [CardSector -> CardData]
  BY <1>4, <1>5 DEF OnCard
<1> QED BY <1>1, <1>2, <1>3, <1>4, <1>5, <1>6

LEMMA WriteCardHolds == ASSUME SdInv, NEW t \in Task, WriteCard(t) PROVE SdInv'
<1> DEFINE q == req[t]
           S == Span(q.from, q.n)
           d == Edited(q, "written", q.i, q.miss, q.buf)
           r == IF ready THEN d ELSE NoRequest
<1>1. /\ q.pc = "write" /\ UNCHANGED <<ready, entries, age, mutex>>
      /\ card' = OnCard(t, S)
      /\ may' = [s \in CardSector |-> IF s \in S THEN {q.buf[s]} ELSE may[s]]
      /\ req' = [req EXCEPT ![t] = IF ready THEN [q EXCEPT !.pc = "written"] ELSE NoRequest]
  BY DEF WriteCard, At
<1>2. /\ S \subseteq CardSector /\ S \subseteq Region[t] /\ DOMAIN q.buf = S
      /\ \A s \in S : q.buf[s] \in CardData
      /\ card \in [CardSector -> CardData] /\ may \in [CardSector -> SUBSET CardData]
      /\ \A s \in CardSector : card[s] \in may[s]
      /\ q \in Requests /\ q.i = 0 /\ q.i <= q.n
      /\ OnCard(t, S) \in [CardSector -> CardData]
  BY <1>1, WritingIs
<1>3. /\ d \in Requests /\ d.pc = "written" /\ d.from = q.from /\ d.n = q.n /\ d.i = 0 /\ d.buf = q.buf
      /\ d # NoRequest
  <2>1. q.i \in 0 .. MaxRun /\ q.miss \in 0 .. MaxRun /\ q.buf \in Buffers /\ "written" \in Pcs
    BY <1>2, Places, FieldsOf
  <2> QED BY <1>2, <2>1, EditedIs
<1>4. req' = [req EXCEPT ![t] = r]
  <2>1. [q EXCEPT !.pc = "written"] = d
    BY <1>2, EditPc
  <2> QED BY <1>1, <2>1, Zenon
<1>5. \A s \in S : may'[s] = {q.buf[s]} /\ card'[s] = q.buf[s]
  BY <1>1, <1>2 DEF OnCard
<1>6. \A s \in CardSector \ S : may'[s] = may[s] /\ card'[s] = card[s]
  BY <1>1, <1>2 DEF OnCard
<1>7. card' \in [CardSector -> CardData] /\ may' \in [CardSector -> SUBSET CardData]
  BY <1>1, <1>2
<1>8. Owed(d) = S
  <2>1. q.from \in Nat /\ q.n \in Nat
    BY <1>2, FieldsOf
  <2>2. Owed(d) = d.from + d.i .. d.from + d.n - 1
    BY <1>3 DEF Owed
  <2> HIDE DEF d
  <2> QED BY <1>3, <2>1, <2>2 DEF Span
<1> HIDE DEF d, S
<1>9. CardSound'
  BY <1>2, <1>5, <1>6 DEF CardSound
<1>10. Progress(d, t) /\ Fresh(d, may')
  <2>1. Progress(d, t)
    BY <1>2, <1>3 DEF Progress, S
  <2>2. Fresh(d, may')
    BY <1>2, <1>3, <1>5 DEF Fresh
  <2> QED BY <2>1, <2>2
<1>11. CASE ready
  <2>1. r = d
    BY <1>11
  <2> HIDE DEF r
  <2>2. \A s \in CardSector : may[s] \subseteq may'[s] \/ ~ready \/ s \in Owed(d)
    BY <1>6, <1>8
  <2>3. \A s \in CardSector \ Region[t] : may[s] \subseteq may'[s]
    BY <1>2, <1>6
  <2> QED BY <1>1, <1>3, <1>4, <1>7, <1>9, <1>10, <1>11, <2>1, <2>2, <2>3, WriteHolds
<1>12. CASE ~ready
  <2>1. r = NoRequest /\ r.pc = "idle" /\ r.pc # "written"
    BY <1>12, NoRequestIs
  <2> HIDE DEF r
  <2>2. \A s \in CardSector : may[s] \subseteq may'[s] \/ ~ready \/ s \in Owed(r)
    BY <1>12
  <2>3. \A s \in CardSector \ Region[t] : may[s] \subseteq may'[s]
    BY <1>2, <1>6
  <2>4. Progress(r, t) /\ Fresh(r, may')
    BY <2>1, EndedSound
  <2> QED BY <1>1, <1>4, <1>7, <1>9, <2>1, <2>2, <2>3, <2>4, WriteHolds
<1> QED BY <1>11, <1>12

LEMMA WriteFailsHolds == ASSUME SdInv, NEW t \in Task, WriteFails(t) PROVE SdInv'
<1> DEFINE q == req[t]
           S == Span(q.from, q.n)
<1>1. /\ q.pc = "write" /\ UNCHANGED <<ready, entries, age, mutex>>
      /\ may' = [s \in CardSector |-> IF s \in S THEN may[s] \cup {q.buf[s]} ELSE may[s]]
      /\ req' = [req EXCEPT ![t] = NoRequest]
  BY DEF WriteFails, At
<1>2. PICK P \in SUBSET S : card' = OnCard(t, P)
  BY DEF WriteFails
<1>3. /\ S \subseteq CardSector /\ \A s \in S : q.buf[s] \in CardData
      /\ card \in [CardSector -> CardData] /\ may \in [CardSector -> SUBSET CardData]
      /\ \A s \in CardSector : card[s] \in may[s]
      /\ OnCard(t, P) \in [CardSector -> CardData]
  BY <1>1, WritingIs
<1> HIDE DEF S
<1>4. \A s \in CardSector : may[s] \subseteq may'[s]
  BY <1>1
<1>5. may' \in [CardSector -> SUBSET CardData]
  BY <1>1, <1>3
<1>6. \A s \in CardSector : card'[s] \in may'[s]
  BY <1>1, <1>2, <1>3 DEF OnCard
<1>7. CardSound'
  BY <1>6 DEF CardSound
<1>8. NoRequest.pc = "idle" /\ NoRequest.pc # "written"
  BY NoRequestIs
<1>9. card' \in [CardSector -> CardData]
  BY <1>2, <1>3
<1> QED BY <1>1, <1>4, <1>5, <1>7, <1>8, <1>9, EndedSound, WriteHolds

LEMMA SdInitHolds == ASSUME SdInit PROVE SdInv
<1>1. /\ card \in [CardSector -> CardData] /\ may = [s \in CardSector |-> {card[s]}]
      /\ ready = FALSE /\ entries = EmptyCache /\ age = 0
      /\ mutex = NoTask /\ req = [t \in Task |-> NoRequest]
  BY DEF SdInit
<1>2. SdTypeOK
  <2>1. entries \in [Set -> [Way -> Entries \cup {NoEntry}]]
    BY <1>1, EmptyIs DEF CacheType
  <2>2. 0 \in 0 .. AgeMod - 1
    BY CacheSizes
  <2> QED BY <1>1, <2>1, <2>2 DEF SdTypeOK
<1>3. RequestsSound
  BY <1>1, EndedSound DEF RequestsSound
<1>4. Exclusive
  <2>1. \A t \in Task : t # NoTask
    BY CacheSizes
  <2> QED BY <1>1, <2>1, EndedSound DEF Exclusive
<1>5. NotReady /\ Placed(entries) /\ Coherent
  BY <1>1, EmptyIs, NoRequestIs DEF NotReady, Coherent
<1>6. CardSound
  BY <1>1 DEF CardSound
<1> QED BY <1>2, <1>3, <1>4, <1>5, <1>6 DEF SdInv

LEMMA StutterHolds == ASSUME SdInv, UNCHANGED sdVars PROVE SdInv'
<1>1. UNCHANGED <<card, ready, entries, age, mutex, req, may>>
  BY DEF sdVars
<1>2. SdTypeOK'
  BY <1>1 DEF SdInv, SdTypeOK
<1>3. RequestsSound' /\ Exclusive' /\ NotReady' /\ CardSound' /\ Placed(entries')
  BY <1>1 DEF SdInv, RequestsSound, Exclusive, NotReady, CardSound
<1>4. Coherent'
  BY <1>1 DEF SdInv, Coherent, Behind, NextSector, EndSector
<1> QED BY <1>2, <1>3, <1>4 DEF SdInv

LEMMA SdNextHolds == ASSUME SdInv, [SdNext]_sdVars PROVE SdInv'
<1>1. CASE UNCHANGED sdVars
  BY <1>1, StutterHolds
<1>2. ASSUME NEW t \in Task, SdRead(t) PROVE SdInv'
  BY <1>2, ReadSectorsHolds, BypassHolds, LockHolds, CopyHitHolds, MissHolds, FetchHolds,
     RelockHolds, InsertNextHolds, ReadDoneHolds, ReturnHolds DEF SdRead
<1>3. ASSUME NEW t \in Task, SdWrite(t) PROVE SdInv'
  BY <1>3, WriteSectorsHolds, WriteCardHolds, WriteFailsHolds, LockUpdateHolds, UpdateNextHolds DEF SdWrite
<1> QED BY <1>1, <1>2, <1>3 DEF SdNext

LEMMA SdSafe == SdSpec => []SdInv
<1>1. SdInit => SdInv
  BY SdInitHolds
<1>2. SdInv /\ [SdNext]_sdVars => SdInv'
  BY SdNextHolds
<1> QED BY <1>1, <1>2, PTL DEF SdSpec

\* Copies that are in their places are one copy of each sector at most.
LEMMA PlacedOnce == ASSUME NEW es \in CacheType, Placed(es), NEW s \in CardSector
                    PROVE  Cardinality(Holding(es, s)) <= 1
<1>1. CASE Holding(es, s) = {}
  BY <1>1, FS_EmptySet
<1>2. CASE Holding(es, s) # {}
  <2>1. PICK w \in Way : w \in Holding(es, s)
    BY <1>2, HoldingIs
  <2>2. Holding(es, s) = {w}
    BY <2>1, HoldingIs DEF Placed
  <2> QED BY <2>2, FS_Singleton
<1> QED BY <1>1, <1>2

\* Tasks that read and write sectors of their own through the cache, whatever the card does:
\* what a read answers for each sector, and what the cache holds of it unless a write has
\* still to tell it, is what the last write left there, or one that failed since; no sector
\* is cached twice.
THEOREM CacheSafe == SdSpec => []CacheSound
<1>1. ASSUME SdInv PROVE CacheSound
  <2>1. SdTypeOK /\ Coherent
    BY <1>1 DEF SdInv
  <2>2. CachedOnce
    <3>1. entries \in CacheType /\ Placed(entries)
      BY <1>1 DEF SdInv, SdTypeOK, CacheType
    <3> QED BY <3>1, PlacedOnce DEF CachedOnce
  <2>3. ReadsFresh
    <3> SUFFICES ASSUME NEW t \in Task, req[t].pc = "done"
                 PROVE  /\ DOMAIN req[t].buf = Span(req[t].from, req[t].n)
                        /\ \A s \in DOMAIN req[t].buf : req[t].buf[s] \in may[s]
      BY DEF ReadsFresh, At
    <3>1. req[t] # NoRequest /\ Progress(req[t], t) /\ Fresh(req[t], may)
      BY <1>1, RequestSound
    <3> QED BY <3>1 DEF Progress, Fresh
  <2> QED BY <2>1, <2>2, <2>3 DEF CacheSound
<1> QED BY <1>1, SdSafe, PTL

\* The cache is read and changed under the mutex only: the task that is at it holds the
\* mutex, so no two are.
THEOREM CacheExclusive == SdSpec => []Exclusive
<1>1. SdInv => Exclusive
  BY DEF SdInv
<1> QED BY <1>1, SdSafe, PTL

===============================================================================
