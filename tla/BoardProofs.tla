----------------------------- MODULE BoardProofs -----------------------------
(***************************************************************************)
(* The board around the processor: the ring of the debug console, the two  *)
(* ports at which the guest speaks to the board, USB devices, the start of *)
(* the tasks that drive it all, and the display, each for every size,      *)
(* text, set of devices, number of mappings, value written and choice of   *)
(* what may fail.                                                          *)
(*                                                                         *)
(* The argument about the ring measures every index by its distance from   *)
(* the head.  It never exceeds what has been sent, so a tail, also one     *)
(* stored late, does not pass the head, and what lies between them has     *)
(* been written.  As long as nothing was dropped, the tail is the reader's *)
(* own and what lies behind it is the end of what was sent, in order.      *)
(*                                                                         *)
(* The matcher of the boot line has always reached the one prefix of the   *)
(* line that ends what was written, since the line begins with a letter    *)
(* that is nowhere else in it; the matcher of the word has reached at      *)
(* least the longest such prefix.                                          *)
(*                                                                         *)
(* A device that was announced is in the queue, at hand, or dropped.  As   *)
(* long as none has been pulled, no device is twice in the queue and none  *)
(* there has been touched, so that nothing asked of it is refused.  While  *)
(* a report is compared with the last, the guest holds the keys of the new *)
(* one as far as the loops have come, and of the old one beyond.           *)
(*                                                                         *)
(* The screen drawn is the screen asked for, whatever values the guest     *)
(* writes into the display registers and in whatever order; and what it    *)
(* moves through the ports with a hidden position goes where it meant it   *)
(* to, for every palette.  In video memory a byte draws the pixels it is   *)
(* to draw, in every mode, and a wide access is its bytes one by one.      *)
(***************************************************************************)
EXTENDS Startup, DebugconRing, PcPorts, UsbInput, VgaMemory, VgaModes, VgaPorts, SequenceTheorems, WellFoundedInduction, TLAPS

-----------------------------------------------------------------------------
(* The ring of the debug console. *)

Index == 0 .. Mod - 1
Holding == {"copy", "check", "store", "print"}

\* No index in use is further from the head than what was written.
Behind ==
  /\ Dist(head, tail) <= sent
  /\ Dist(head, r.tail) <= sent
  /\ w.pc = "drop" => Dist(head, w.tail) \in Cap .. sent
  /\ w.pc # "idle" => sent < MaxChars

\* Every slot between has been written.
Filled ==
  /\ \A s \in 0 .. Cap - 1 : buf[s] <= sent + 1
  /\ \A i \in Index : Dist(head, i) \in 1 .. sent => buf[Slot(i)] >= 1
  /\ w.pc = "publish" => buf[Slot(head)] = sent + 1

\* The reader takes what is there.
Copied ==
  /\ r.pc \in Holding => r.n \in 1 .. Dist(head, r.tail)
  /\ r.pc = "copy" => Len(r.local) < r.n
  /\ r.pc \in {"check", "store", "print"} => Len(r.local) = r.n
  /\ \A j \in 1 .. Len(r.local) : r.local[j] \in 1 .. sent + 1

\* Until the ring overflows, tail and head frame the characters not yet printed.
Framed ==
  /\ Dist(head, tail) <= Cap
  /\ w.pc \in {"put", "publish"} => Dist(head, tail) < Cap
  /\ r.pc \in {"head", "copy", "check", "store"} => r.tail = tail
  /\ \A i \in Index : Dist(head, i) \in 1 .. Dist(head, tail) => buf[Slot(i)] = sent - Dist(head, i) + 1
  /\ printed.exact
  /\ printed.last = sent - Dist(head, tail) - (IF r.pc = "print" THEN r.n ELSE 0)
  /\ r.pc \in Holding => \A j \in 1 .. Len(r.local) : r.local[j] = printed.last + j

RingInv == RingTypeOK /\ Behind /\ Filled /\ Copied /\ (~lost => Framed)

-------------------------------------------------------------------------------
(* Arithmetic of the indices. *)

\* One turn around, in either direction.
Turned(m, x) ==
  /\ x % m \in 0 .. m - 1
  /\ 0 <= x /\ x < m => x % m = x
  /\ m <= x /\ x < m + m => x % m = x - m
  /\ -m <= x /\ x < 0 => x % m = x + m

LEMMA OneTurn ==
  ASSUME NEW m \in Nat \ {0}, NEW x \in Int
  PROVE  Turned(m, x)
<1>1. x % m \in 0 .. m - 1 OBVIOUS
<1>2. 0 <= x /\ x < m => x % m = x OBVIOUS
<1>3. m <= x /\ x < m + m => x % m = x - m OBVIOUS
<1>4. -m <= x /\ x < 0 => x % m = x + m OBVIOUS
<1>5. QED BY <1>1, <1>2, <1>3, <1>4 DEF Turned

\* Two numbers with the same remainder are not less than the modulus apart.
LEMMA Apart ==
  ASSUME NEW m \in Nat \ {0}, NEW x \in Int, NEW y \in Int, x % m = y % m, x < y
  PROVE  x + m <= y
<1> DEFINE p == x \div m
           q == y \div m
<1>1. p \in Int /\ q \in Int /\ x = m * p + (x % m) /\ y = m * q + (y % m) OBVIOUS
<1> HIDE DEF p, q
<1>2. y - x = m * (q - p) BY <1>1
<1>3. CASE q - p <= 0
  <2>1. PICK d \in Int : d = q - p BY <1>1
  <2>2. m * d <= 0 BY <1>3, <2>1
  <2>3. QED BY <2>1, <2>2, <1>2
<1>4. CASE q - p >= 1
  <2>1. PICK d \in Int : d = q - p BY <1>1
  <2>2. m * d >= m BY <1>4, <2>1
  <2>3. QED BY <2>1, <2>2, <1>2
<1>5. QED BY <1>1, <1>3, <1>4

\* Adding a multiple of the modulus leaves the remainder.
LEMMA SameRemainder ==
  ASSUME NEW m \in Nat \ {0}, NEW n \in Nat, n % m = 0, NEW x \in Int
  PROVE  (x + n) % m = x % m
<1> DEFINE p == x \div m
           q == (x + n) \div m
           k == n \div m
           a == x % m
           b == (x + n) % m
<1>1. /\ p \in Int /\ q \in Int /\ k \in Int /\ a \in 0 .. m - 1 /\ b \in 0 .. m - 1
      /\ x = m * p + a /\ x + n = m * q + b /\ n = m * k
  OBVIOUS
<1> HIDE DEF p, q, k, a, b
<1>2. b - a = m * (p + k - q) BY <1>1
<1>3. PICK d \in Int : d = p + k - q BY <1>1
<1>4. b - a = m * d BY <1>2, <1>3
<1>5. d >= 1 => m * d >= m OBVIOUS
<1>6. d <= -1 => m * d <= -m OBVIOUS
<1>7. d = 0 BY <1>1, <1>4, <1>5, <1>6
<1>8. b = a BY <1>1, <1>4, <1>7
<1>9. QED BY <1>8 DEF a, b

\* The distance of two indices, and the index k further on.
LEMMA DistIs ==
  ASSUME RingSizes, NEW a \in Index, NEW b \in Index
  PROVE  /\ Dist(a, b) \in Index
         /\ Dist(a, b) = IF a >= b THEN a - b ELSE a - b + Mod
<1>1. Mod \in Nat \ {0} /\ a - b \in Int BY DEF RingSizes, Index
<1>2. Turned(Mod, a - b) BY <1>1, OneTurn, Zenon
<1>3. QED BY <1>1, <1>2 DEF Dist, Index, Turned

LEMMA AfterIs ==
  ASSUME RingSizes, NEW a \in Index, NEW k \in Index
  PROVE  /\ (a + k) % Mod \in Index
         /\ (a + k) % Mod = IF a + k < Mod THEN a + k ELSE a + k - Mod
<1>1. Mod \in Nat \ {0} /\ a + k \in Int BY DEF RingSizes, Index
<1>2. Turned(Mod, a + k) BY <1>1, OneTurn, Zenon
<1>3. QED BY <1>1, <1>2 DEF Index, Turned

\* The head moves on: every index falls one further behind.
LEMMA HeadMoves ==
  ASSUME RingSizes, NEW h \in Index, NEW i \in Index
  PROVE  /\ (h + 1) % Mod \in Index
         /\ Dist((h + 1) % Mod, i) = IF Dist(h, i) = Mod - 1 THEN 0 ELSE Dist(h, i) + 1
<1>1. 1 \in Index BY DEF RingSizes, Index
<1>2. (h + 1) % Mod \in Index /\ (h + 1) % Mod = IF h + 1 < Mod THEN h + 1 ELSE h + 1 - Mod
  BY <1>1, AfterIs
<1>3. PICK g \in Index : g = (h + 1) % Mod BY <1>2
<1>4. Dist(h, i) = IF h >= i THEN h - i ELSE h - i + Mod BY DistIs
<1>5. Dist(g, i) = IF g >= i THEN g - i ELSE g - i + Mod BY DistIs
<1>6. QED BY <1>2, <1>3, <1>4, <1>5 DEF RingSizes, Index

\* An index moves on, not past the head: it gets as much closer.
LEMMA IndexMoves ==
  ASSUME RingSizes, NEW h \in Index, NEW i \in Index, NEW k \in 0 .. Dist(h, i)
  PROVE  /\ (i + k) % Mod \in Index
         /\ Dist(h, (i + k) % Mod) = Dist(h, i) - k
<1>1. Dist(h, i) \in Index /\ Dist(h, i) = IF h >= i THEN h - i ELSE h - i + Mod BY DistIs
<1>2. k \in Index BY <1>1 DEF RingSizes, Index
<1>3. (i + k) % Mod \in Index /\ (i + k) % Mod = IF i + k < Mod THEN i + k ELSE i + k - Mod
  BY <1>2, AfterIs
<1>4. PICK g \in Index : g = (i + k) % Mod BY <1>3
<1>5. Dist(h, g) = IF h >= g THEN h - g ELSE h - g + Mod BY DistIs
<1>6. k <= IF h >= i THEN h - i ELSE h - i + Mod BY <1>1, <1>2 DEF Index, RingSizes
<1>7. QED BY <1>1, <1>2, <1>3, <1>4, <1>5, <1>6 DEF RingSizes, Index

\* A slot, also when the index has not been reduced.
LEMMA SlotIs ==
  ASSUME RingSizes, NEW a \in Index, NEW k \in Index
  PROVE  /\ Slot(a) \in 0 .. Cap - 1
         /\ Slot((a + k) % Mod) = Slot(a + k)
<1>1. Cap \in Nat \ {0} /\ Mod \in Nat /\ Mod % Cap = 0 /\ a \in Int /\ k \in Int BY DEF RingSizes, Index
<1>2. Slot(a) \in 0 .. Cap - 1 BY <1>1 DEF Slot
<1>3. PICK x \in Int : x = a + k - Mod BY <1>1
<1>4. (x + Mod) % Cap = x % Cap BY <1>1, SameRemainder, Zenon
<1>5. (a + k) % Mod = IF a + k < Mod THEN a + k ELSE a + k - Mod BY AfterIs
<1>6. x + Mod = a + k BY <1>1, <1>3
<1>7. QED BY <1>2, <1>3, <1>4, <1>5, <1>6 DEF Slot

\* Indices less than a ring's length apart have slots of their own.
LEMMA SlotsApart ==
  ASSUME RingSizes, NEW h \in Index, NEW i \in Index, NEW j \in Index,
         Dist(h, i) < Dist(h, j), Dist(h, j) < Dist(h, i) + Cap
  PROVE  Slot(i) # Slot(j)
<1>1. Dist(h, i) = IF h >= i THEN h - i ELSE h - i + Mod BY DistIs
<1>2. Dist(h, j) = IF h >= j THEN h - j ELSE h - j + Mod BY DistIs
<1>3. Cap \in Nat \ {0} /\ Mod \in Nat /\ Mod % Cap = 0 /\ i \in Int /\ j \in Int /\ h \in Int
  BY DEF RingSizes, Index
<1>4. \/ j < i /\ i < j + Cap
      \/ j < i + Mod /\ i + Mod < j + Cap
  BY <1>1, <1>2, <1>3 DEF Index
<1>5. SUFFICES ASSUME i % Cap = j % Cap PROVE FALSE BY DEF Slot
<1>6. (i + Mod) % Cap = i % Cap BY <1>3, SameRemainder
<1>7. CASE j < i /\ i < j + Cap
  <2>1. j + Cap <= i BY <1>3, <1>5, <1>7, Apart
  <2>2. QED BY <2>1, <1>3, <1>7
<1>8. CASE j < i + Mod /\ i + Mod < j + Cap
  <2>1. PICK y \in Int : y = i + Mod BY <1>3
  <2>2. y % Cap = j % Cap /\ j < y BY <2>1, <1>5, <1>6, <1>8
  <2>3. j + Cap <= y BY <1>3, <2>2, Apart
  <2>4. QED BY <2>1, <2>3, <1>3, <1>8
<1>9. QED BY <1>4, <1>7, <1>8

-------------------------------------------------------------------------------
(* The invariant, action by action. *)

\* What a proof step needs of the types.
Typed ==
  /\ head \in Index /\ tail \in Index /\ r.tail \in Index /\ w.tail \in Index
  /\ \A i \in Index : Dist(head, i) \in Nat
  /\ r.n \in 0 .. Chunk
  /\ r.local \in Seq(0 .. MaxChars) /\ Len(r.local) <= Chunk
  /\ sent \in Nat /\ sent <= MaxChars
  /\ Cap \in Nat \ {0} /\ Chunk \in Nat \ {0} /\ MaxChars \in Nat /\ Mod \in Nat /\ MaxChars + 1 < Mod

\* A text the task has copied is a sequence.
LEMMA TextIs ==
  ASSUME RingSizes, NEW s
  PROVE  s \in Texts <=> s \in Seq(0 .. MaxChars) /\ Len(s) <= Chunk
<1>1. ASSUME s \in Texts PROVE s \in Seq(0 .. MaxChars) /\ Len(s) <= Chunk
  <2>1. PICK n \in 0 .. Chunk : s \in [1 .. n -> 0 .. MaxChars] BY <1>1 DEF Texts
  <2>2. n \in Nat BY <2>1 DEF RingSizes
  <2>3. s \in Seq(0 .. MaxChars) BY <2>1, <2>2, SeqDef
  <2>4. Len(s) \in Nat /\ 1 .. Len(s) = 1 .. n BY <2>1, <2>3, LenProperties
  <2>5. Len(s) = n
    <3>1. Len(s) >= 1 => Len(s) \in 1 .. n BY <2>4
    <3>2. n >= 1 => n \in 1 .. Len(s) BY <2>2, <2>4
    <3>3. QED BY <2>2, <2>4, <3>1, <3>2
  <2>6. QED BY <2>1, <2>2, <2>3, <2>5 DEF RingSizes
<1>2. ASSUME s \in Seq(0 .. MaxChars), Len(s) <= Chunk PROVE s \in Texts
  <2>1. Len(s) \in Nat /\ s \in [1 .. Len(s) -> 0 .. MaxChars] BY <1>2, LenProperties
  <2>2. Len(s) \in 0 .. Chunk BY <1>2, <2>1 DEF RingSizes
  <2>3. QED BY <2>1, <2>2 DEF Texts
<1>3. QED BY <1>1, <1>2

LEMMA TypedHolds == ASSUME RingSizes, RingTypeOK PROVE Typed
<1>1. /\ head \in Index /\ tail \in Index /\ r.tail \in Index /\ w.tail \in Index
      /\ sent \in Nat /\ sent <= MaxChars /\ r.n \in 0 .. Chunk
  BY DEF RingTypeOK, RingSizes, Index
<1>2. r.local \in Texts BY DEF RingTypeOK
<1>3. ASSUME NEW i \in Index PROVE Dist(head, i) \in Nat
  <2>1. Dist(head, i) \in Index BY <1>1, DistIs
  <2>2. QED BY <2>1 DEF Index, RingSizes
<1>4. r.local \in Seq(0 .. MaxChars) /\ Len(r.local) <= Chunk BY <1>2, TextIs
<1>5. MaxChars + 1 < Mod BY DEF RingSizes
<1>6. QED BY <1>1, <1>3, <1>4, <1>5 DEF Typed, RingSizes

LEMMA KeptByWriteLoad == ASSUME RingSizes, RingInv, WriteLoad PROVE RingInv'
<1>1. Typed BY TypedHolds DEF RingInv
<1>2. RingTypeOK' BY <1>1 DEF RingInv, RingTypeOK, WriteLoad, Typed, Index
<1>3. Behind' BY <1>1 DEF RingInv, Behind, WriteLoad, Typed, Index
<1>4. Filled' BY <1>1 DEF RingInv, Filled, WriteLoad
<1>5. Copied' BY <1>1 DEF RingInv, Copied, WriteLoad
<1>6. (~lost => Framed)' BY <1>1 DEF RingInv, Framed, WriteLoad, Typed, Index
<1>7. QED BY <1>2, <1>3, <1>4, <1>5, <1>6 DEF RingInv

LEMMA KeptByWriteDrop == ASSUME RingSizes, RingInv, WriteDrop PROVE RingInv'
<1>1. Typed BY TypedHolds DEF RingInv
<1>2. Dist(head, w.tail) \in Cap .. sent BY DEF RingInv, Behind, WriteDrop
<1>3. 1 \in 0 .. Dist(head, w.tail) BY <1>1, <1>2 DEF Typed
<1>4. tail' \in Index /\ Dist(head, tail') = Dist(head, w.tail) - 1
  BY <1>1, <1>3, IndexMoves DEF WriteDrop, Typed
<1>5. RingTypeOK' BY <1>1, <1>4 DEF RingInv, RingTypeOK, WriteDrop, Typed, Index
<1>6. Behind' BY <1>1, <1>2, <1>4 DEF RingInv, Behind, WriteDrop, Typed, Index
<1>7. Filled' BY <1>1 DEF RingInv, Filled, WriteDrop
<1>8. Copied' BY <1>1 DEF RingInv, Copied, WriteDrop
<1>9. (~lost => Framed)' BY DEF WriteDrop
<1>10. QED BY <1>5, <1>6, <1>7, <1>8, <1>9 DEF RingInv

LEMMA KeptByWritePut == ASSUME RingSizes, RingInv, WritePut PROVE RingInv'
<1>1. Typed BY TypedHolds DEF RingInv
<1>2. \A i \in Index : Slot(i) \in 0 .. Cap - 1
  <2>1. 0 \in Index BY DEF RingSizes, Index
  <2>2. QED BY <2>1, SlotIs
<1>3. PICK p \in 0 .. Cap - 1 : p = Slot(head) BY <1>1, <1>2 DEF Typed
<1>4. sent < MaxChars BY DEF RingInv, Behind, WritePut
<1>5. buf \in [0 .. Cap - 1 -> 0 .. MaxChars] BY DEF RingInv, RingTypeOK
<1>6. buf' = [buf EXCEPT ![p] = sent + 1] BY <1>3 DEF WritePut
<1>7. /\ buf'[p] = sent + 1
      /\ \A s \in 0 .. Cap - 1 : s # p => buf'[s] = buf[s]
  BY <1>5, <1>6
<1>8. RingTypeOK'
  <2>1. buf' \in [0 .. Cap - 1 -> 0 .. MaxChars] BY <1>1, <1>4, <1>5, <1>6 DEF Typed
  <2>2. QED BY <2>1 DEF RingInv, RingTypeOK, WritePut
<1>9. Behind' BY <1>1, <1>4 DEF RingInv, Behind, WritePut
<1>10. Filled'
  <2>1. ASSUME NEW s \in 0 .. Cap - 1 PROVE buf'[s] <= sent + 1
    <3>1. buf[s] <= sent + 1 BY DEF RingInv, Filled
    <3>2. CASE s = p BY <1>1, <1>7, <3>2 DEF Typed
    <3>3. CASE s # p BY <1>7, <3>1, <3>3
    <3>4. QED BY <3>2, <3>3
  <2>2. ASSUME NEW i \in Index, Dist(head, i) \in 1 .. sent PROVE buf'[Slot(i)] >= 1
    <3>1. buf[Slot(i)] >= 1 BY <2>2 DEF RingInv, Filled
    <3>2. CASE Slot(i) = p BY <1>1, <1>7, <3>2 DEF Typed
    <3>3. CASE Slot(i) # p BY <1>2, <1>7, <3>1, <3>3
    <3>4. QED BY <3>2, <3>3
  <2>3. QED BY <1>3, <1>7, <2>1, <2>2 DEF Filled, WritePut
<1>11. Copied' BY <1>1 DEF RingInv, Copied, WritePut
<1>12. ASSUME ~lost PROVE Framed'
  <2>1. Framed /\ Dist(head, tail) < Cap BY <1>12 DEF RingInv, Framed, WritePut
  <2>2. Dist(head, head) = 0 BY <1>1, DistIs DEF Typed, Index
  <2>3. ASSUME NEW i \in Index, Dist(head, i) \in 1 .. Dist(head, tail)
        PROVE  buf'[Slot(i)] = buf[Slot(i)]
    <3>1. /\ Dist(head, i) \in Nat /\ Dist(head, tail) \in Nat /\ Cap \in Nat /\ Mod \in Nat
      BY <1>1 DEF Typed
    <3>2. Dist(head, head) < Dist(head, i) /\ Dist(head, i) < Dist(head, head) + Cap
      BY <2>1, <2>2, <2>3, <3>1
    <3>3. Slot(head) # Slot(i) BY <1>1, <3>2, SlotsApart DEF Typed
    <3>4. QED BY <1>2, <1>3, <1>7, <3>3
  <2>4. QED BY <2>1, <2>3 DEF Framed, WritePut
<1>13. QED BY <1>8, <1>9, <1>10, <1>11, <1>12 DEF RingInv, WritePut

LEMMA KeptByWritePublish == ASSUME RingSizes, RingInv, WritePublish PROVE RingInv'
<1>1. Typed BY TypedHolds DEF RingInv
<1>2. sent < MaxChars BY DEF RingInv, Behind, WritePublish
<1>3. head' \in Index /\ \A i \in Index :
        Dist(head', i) = IF Dist(head, i) = Mod - 1 THEN 0 ELSE Dist(head, i) + 1
  BY <1>1, HeadMoves DEF Typed, WritePublish
<1>4. sent' = sent + 1 BY DEF WritePublish
<1>5. Dist(head, tail) \in 0 .. sent /\ Dist(head, r.tail) \in 0 .. sent
  BY <1>1 DEF Typed, RingInv, Behind
<1>6. Dist(head', tail) = Dist(head, tail) + 1 /\ Dist(head', r.tail) = Dist(head, r.tail) + 1
  BY <1>1, <1>2, <1>3, <1>5 DEF Typed
<1>7. Dist(head, head) = 0 BY <1>1, DistIs DEF Typed, Index
<1>8. \A i \in Index : Dist(head', i) = 1 => i = head
  <2>1. SUFFICES ASSUME NEW i \in Index, Dist(head', i) = 1 PROVE i = head OBVIOUS
  <2>2. Dist(head, i) = 0 BY <1>1, <1>3, <2>1 DEF Typed
  <2>3. Dist(head, i) = IF head >= i THEN head - i ELSE head - i + Mod BY <1>1, DistIs DEF Typed
  <2>4. QED BY <1>1, <2>2, <2>3 DEF Typed, Index
<1>9. \A i \in Index : Dist(head', i) > 1 => Dist(head, i) = Dist(head', i) - 1
  BY <1>1, <1>3 DEF Typed
<1>10. RingTypeOK'
  <2>1. sent' \in 0 .. MaxChars BY <1>1, <1>2, <1>4 DEF Typed
  <2>2. head' \in 0 .. Mod - 1 BY <1>3 DEF Index
  <2>3. QED BY <2>1, <2>2 DEF RingInv, RingTypeOK, WritePublish
<1>11. Behind' BY <1>1, <1>2, <1>4, <1>5, <1>6 DEF RingInv, Behind, WritePublish, Typed
<1>12. Filled'
  <2>1. \A s \in 0 .. Cap - 1 : buf[s] \in Nat /\ buf[s] <= sent + 1
    BY <1>1 DEF RingInv, RingTypeOK, Filled, Typed
  <2>2. \A s \in 0 .. Cap - 1 : buf[s] <= sent' + 1 BY <1>1, <1>4, <2>1 DEF Typed
  <2>3. ASSUME NEW i \in Index, Dist(head', i) \in 1 .. sent' PROVE buf[Slot(i)] >= 1
    <3>1. CASE Dist(head', i) = 1 BY <1>1, <1>8, <3>1 DEF RingInv, Filled, WritePublish, Typed
    <3>2. CASE Dist(head', i) > 1
      <4>1. Dist(head, i) \in 1 .. sent BY <1>1, <1>4, <1>9, <2>3, <3>2 DEF Typed
      <4>2. QED BY <4>1 DEF RingInv, Filled
    <3>3. QED BY <2>3, <3>1, <3>2
  <2>4. QED BY <2>2, <2>3 DEF Filled, WritePublish
<1>13. Copied'
  <2>1. r.n \in Nat BY <1>1 DEF Typed
  <2>2. r.pc \in Holding => r.n \in 1 .. Dist(head', r.tail)
    BY <1>1, <1>5, <1>6, <2>1 DEF RingInv, Copied, Typed
  <2>3. \A j \in 1 .. Len(r.local) : r.local[j] \in 1 .. sent' + 1
    <3>1. \A j \in 1 .. Len(r.local) : r.local[j] \in 1 .. sent + 1  BY DEF RingInv, Copied
    <3>2. sent \in Nat /\ sent' = sent + 1  BY <1>1, <1>4 DEF Typed
    <3>3. 1 .. sent + 1 \subseteq 1 .. sent' + 1  BY <3>2
    <3>4. QED  BY <3>1, <3>3
  <2>4. QED BY <2>2, <2>3 DEF RingInv, Copied, WritePublish
<1>14. ASSUME ~lost PROVE Framed'
  <2>1. Framed /\ Dist(head, tail) < Cap BY <1>14 DEF RingInv, Framed, WritePublish
  <2>2. ASSUME NEW i \in Index, Dist(head', i) \in 1 .. Dist(head', tail)
        PROVE  buf[Slot(i)] = sent' - Dist(head', i) + 1
    <3>1. CASE Dist(head', i) = 1 BY <1>1, <1>4, <1>8, <3>1 DEF RingInv, Filled, WritePublish, Typed
    <3>2. CASE Dist(head', i) > 1
      <4>1. Dist(head, i) \in 1 .. Dist(head, tail) BY <1>1, <1>5, <1>6, <1>9, <2>2, <3>2
      <4>2. buf[Slot(i)] = sent - Dist(head, i) + 1 BY <2>1, <4>1 DEF Framed
      <4>3. Dist(head', i) \in Int BY <2>2
      <4>4. QED BY <1>1, <1>4, <1>9, <3>2, <4>2, <4>3 DEF Typed
    <3>3. QED BY <2>2, <3>1, <3>2
  <2>3. printed.last = sent' - Dist(head', tail) - (IF r.pc = "print" THEN r.n ELSE 0)
    BY <1>1, <1>4, <1>5, <1>6, <2>1 DEF Framed, Typed
  <2>4. Dist(head', tail) <= Cap BY <1>1, <1>5, <1>6, <2>1 DEF Typed
  <2>5. w'.pc = "idle" BY DEF WritePublish, RingInv, RingTypeOK
  <2>6. QED BY <2>1, <2>2, <2>3, <2>4, <2>5 DEF Framed, WritePublish
<1>15. QED BY <1>10, <1>11, <1>12, <1>13, <1>14 DEF RingInv, WritePublish

LEMMA KeptByReadTail == ASSUME RingSizes, RingInv, ReadTail PROVE RingInv'
<1>1. Typed BY TypedHolds DEF RingInv
<1>2. r'.pc = "head" /\ r'.tail = tail /\ r'.n = r.n /\ r'.local = r.local
  BY DEF ReadTail, RingInv, RingTypeOK
<1>3. RingTypeOK' BY DEF RingInv, RingTypeOK, ReadTail
<1>4. Behind' BY <1>2 DEF RingInv, Behind, ReadTail
<1>5. Filled' BY DEF RingInv, Filled, ReadTail
<1>6. Copied' BY <1>2 DEF RingInv, Copied, ReadTail, Holding
<1>7. (~lost => Framed)' BY <1>2 DEF RingInv, Framed, ReadTail, Holding
<1>8. QED BY <1>3, <1>4, <1>5, <1>6, <1>7 DEF RingInv

LEMMA KeptByReadHead == ASSUME RingSizes, RingInv, ReadHead PROVE RingInv'
<1>1. Typed BY TypedHolds DEF RingInv
<1>2. PICK n : n = Taken(Dist(head, r.tail)) OBVIOUS
<1>3. n \in 0 .. Chunk /\ n <= Dist(head, r.tail) BY <1>1, <1>2 DEF Taken, Typed
<1>4. /\ r'.pc = (IF n = 0 THEN "tail" ELSE "copy")
      /\ r'.tail = r.tail /\ r'.n = n /\ r'.local = <<>>
  BY <1>2 DEF ReadHead, RingInv, RingTypeOK
<1>5. <<>> \in Texts
  <2>1. <<>> \in Seq(0 .. MaxChars) /\ Len(<<>>) = 0 OBVIOUS
  <2>2. Len(<<>>) <= Chunk BY <1>1, <2>1 DEF Typed
  <2>3. QED BY <2>1, <2>2, TextIs, Zenon
<1>6. RingTypeOK' BY <1>2, <1>3, <1>5 DEF RingInv, RingTypeOK, ReadHead
<1>7. Behind' BY <1>4 DEF RingInv, Behind, ReadHead
<1>8. Filled' BY DEF RingInv, Filled, ReadHead
<1>9. Copied'
  <2>1. n # 0 => n \in 1 .. Dist(head, r.tail) /\ 0 < n BY <1>1, <1>3 DEF Typed
  <2>2. Len(<<>>) = 0 /\ 1 .. 0 = {} OBVIOUS
  <2>3. QED BY <1>4, <2>1, <2>2 DEF Copied, ReadHead, Holding
<1>10. ASSUME ~lost PROVE Framed'
  <2>1. Framed BY <1>10 DEF RingInv
  <2>2. Len(<<>>) = 0 /\ 1 .. 0 = {} OBVIOUS
  <2>3. r.pc = "head" BY DEF ReadHead
  <2>4. QED BY <1>4, <2>1, <2>2, <2>3 DEF Framed, ReadHead
<1>11. QED BY <1>6, <1>7, <1>8, <1>9, <1>10 DEF RingInv, ReadHead

LEMMA KeptByReadCopy == ASSUME RingSizes, RingInv, ReadCopy PROVE RingInv'
<1>1. Typed BY TypedHolds DEF RingInv
<1>2. PICK k \in Nat : k = Len(r.local) BY <1>1 DEF Typed
<1>3. r.n \in 1 .. Dist(head, r.tail) /\ k < r.n /\ r.n <= Chunk
  BY <1>1, <1>2 DEF RingInv, Copied, Holding, ReadCopy, Typed
<1>4. Dist(head, r.tail) \in 0 .. sent /\ r.tail \in Index /\ head \in Index
  BY <1>1 DEF Typed, RingInv, Behind
<1>5. PICK i \in Index : i = (r.tail + k) % Mod /\ Dist(head, i) = Dist(head, r.tail) - k
  <2>1. k \in 0 .. Dist(head, r.tail) BY <1>1, <1>3, <1>4
  <2>2. QED BY <1>4, <2>1, IndexMoves
<1>6. Slot(i) \in 0 .. Cap - 1 /\ Slot(i) = Slot(r.tail + k)
  <2>1. k \in Index
    <3>1. PICK d \in 0 .. sent : d = Dist(head, r.tail) BY <1>4
    <3>2. sent \in Nat /\ sent < Mod /\ Mod \in Nat BY <1>1 DEF Typed
    <3>3. k < d BY <1>2, <1>3, <3>1, <3>2
    <3>4. QED BY <1>2, <3>1, <3>2, <3>3 DEF Index
  <2>2. QED BY <1>4, <1>5, <2>1, SlotIs
<1>7. Dist(head, i) \in 1 .. sent BY <1>1, <1>3, <1>4, <1>5 DEF Typed
<1>8. PICK c : c = buf[Slot(i)] OBVIOUS
<1>9. c \in 0 .. MaxChars /\ c \in 1 .. sent + 1
  <2>1. c \in 0 .. MaxChars BY <1>6, <1>8 DEF RingInv, RingTypeOK
  <2>2. c >= 1 /\ c <= sent + 1 BY <1>6, <1>7, <1>8 DEF RingInv, Filled
  <2>3. QED BY <1>1, <2>1, <2>2 DEF Typed
<1>10. /\ r'.pc = (IF k + 1 = r.n THEN "check" ELSE "copy")
       /\ r'.tail = r.tail /\ r'.n = r.n /\ r'.local = Append(r.local, c)
  BY <1>2, <1>6, <1>8 DEF ReadCopy, RingInv, RingTypeOK
<1>11. /\ Append(r.local, c) \in Seq(0 .. MaxChars) /\ Len(Append(r.local, c)) = k + 1
       /\ \A j \in 1 .. k : Append(r.local, c)[j] = r.local[j]
       /\ Append(r.local, c)[k + 1] = c
  BY <1>1, <1>2, <1>9, AppendProperties DEF Typed
<1>12. RingTypeOK'
  <2>1. Append(r.local, c) \in Texts
    <3>1. Len(Append(r.local, c)) <= Chunk BY <1>1, <1>2, <1>3, <1>11 DEF Typed
    <3>2. QED BY <1>11, <3>1, TextIs, Zenon
  <2>2. QED BY <1>2, <1>6, <1>8, <2>1 DEF RingInv, RingTypeOK, ReadCopy
<1>13. Behind' BY <1>10 DEF RingInv, Behind, ReadCopy
<1>14. Filled' BY DEF RingInv, Filled, ReadCopy
<1>15. Copied'
  <2>1. \A j \in 1 .. k + 1 : Append(r.local, c)[j] \in 1 .. sent + 1
    BY <1>2, <1>9, <1>11 DEF RingInv, Copied
  <2>2. k + 1 # r.n => k + 1 < r.n BY <1>1, <1>3 DEF Typed
  <2>3. QED BY <1>3, <1>10, <1>11, <2>1, <2>2 DEF Copied, ReadCopy, Holding
<1>16. ASSUME ~lost PROVE Framed'
  <2>1. Framed /\ r.tail = tail /\ r.pc = "copy" BY <1>16 DEF RingInv, Framed, ReadCopy
  <2>2. c = sent - Dist(head, i) + 1
    <3>1. Dist(head, i) \in 1 .. Dist(head, tail) BY <1>1, <1>3, <1>4, <1>5, <2>1 DEF Typed
    <3>2. QED BY <1>8, <2>1, <3>1 DEF Framed
  <2>3. printed.last = sent - Dist(head, tail) BY <1>1, <1>4, <2>1 DEF Framed, Typed
  <2>4. c = printed.last + (k + 1) BY <1>1, <1>4, <1>5, <2>1, <2>2, <2>3 DEF Typed
  <2>5. \A j \in 1 .. k + 1 : Append(r.local, c)[j] = printed.last + j
    BY <1>2, <1>11, <2>1, <2>4 DEF Framed, Holding
  <2>6. QED BY <1>10, <1>11, <2>1, <2>5 DEF Framed, ReadCopy
<1>17. QED BY <1>12, <1>13, <1>14, <1>15, <1>16 DEF RingInv, ReadCopy

LEMMA KeptByReadCheck == ASSUME RingSizes, RingInv, ReadCheck PROVE RingInv'
<1>1. Typed BY TypedHolds DEF RingInv
<1>2. PICK to \in {"store", "print"} :
        r'.pc = to /\ r'.tail = r.tail /\ r'.n = r.n /\ r'.local = r.local
  BY DEF ReadCheck, RingInv, RingTypeOK
<1>3. RingTypeOK' BY DEF RingInv, RingTypeOK, ReadCheck
<1>4. Behind' BY <1>2 DEF RingInv, Behind, ReadCheck
<1>5. Filled' BY DEF RingInv, Filled, ReadCheck
<1>6. Copied' BY <1>2 DEF RingInv, Copied, ReadCheck, Holding
<1>7. ASSUME ~lost PROVE Framed'
  <2>1. Framed /\ r.tail = tail /\ r.pc = "check" BY <1>7 DEF RingInv, Framed, ReadCheck
  <2>2. r'.pc = "store"
    <3>1. r.n \in 1 .. Dist(head, r.tail) /\ Dist(head, r.tail) <= sent
      BY <2>1 DEF RingInv, Copied, Behind, Holding
    <3>2. r.n \in 1 .. MaxChars /\ r.tail \in Index BY <1>1, <3>1 DEF Typed
    <3>3. Mod \in Nat \ {0} /\ r.n \in Int /\ 0 < r.n /\ r.n < Mod BY <1>1, <3>2 DEF Typed
    <3>4. r.n < Mod \div 2
      <4>1. r.n + 1 + r.n + 1 <= Mod BY <1>1, <3>2 DEF Typed, RingSizes
      <4>2. QED BY <3>3, <4>1
    <3>5. (r.tail + r.n) - tail = r.n BY <1>1, <2>1, <3>3 DEF Typed, Index
    <3>6. r.n % Mod = r.n
      <4>1. Turned(Mod, r.n) BY <3>3, OneTurn, Zenon
      <4>2. QED BY <3>3, <4>1 DEF Turned
    <3>7. Dist(r.tail + r.n, tail) = r.n BY <3>5, <3>6, Zenon DEF Dist
    <3>8. QED BY <3>3, <3>4, <3>7 DEF ReadCheck, RingInv, RingTypeOK
  <2>3. QED BY <1>2, <2>1, <2>2 DEF Framed, ReadCheck, Holding
<1>8. QED BY <1>3, <1>4, <1>5, <1>6, <1>7 DEF RingInv, ReadCheck

LEMMA KeptByReadStore == ASSUME RingSizes, RingInv, ReadStore PROVE RingInv'
<1>1. Typed BY TypedHolds DEF RingInv
<1>2. r.n \in 1 .. Dist(head, r.tail) /\ Dist(head, r.tail) <= sent
  BY DEF RingInv, Copied, Behind, Holding, ReadStore
<1>3. tail' \in Index /\ Dist(head, tail') = Dist(head, r.tail) - r.n
  <2>1. r.n \in 0 .. Dist(head, r.tail) BY <1>1, <1>2 DEF Typed
  <2>2. QED BY <1>1, <2>1, IndexMoves DEF Typed, ReadStore
<1>4. r'.pc = "print" /\ r'.tail = r.tail /\ r'.n = r.n /\ r'.local = r.local
  BY DEF ReadStore, RingInv, RingTypeOK
<1>5. Dist(head, tail') >= 0 /\ Dist(head, tail') < Dist(head, r.tail) BY <1>1, <1>2, <1>3 DEF Typed
<1>6. RingTypeOK' BY <1>3 DEF RingInv, RingTypeOK, ReadStore, Index
<1>7. Behind'
  <2>1. Dist(head, tail') <= sent BY <1>1, <1>2, <1>3 DEF Typed
  <2>2. QED BY <1>2, <1>4, <2>1 DEF RingInv, Behind, ReadStore
<1>8. Filled' BY DEF RingInv, Filled, ReadStore
<1>9. Copied' BY <1>2, <1>4 DEF RingInv, Copied, ReadStore, Holding
<1>10. ASSUME ~lost PROVE Framed'
  <2>1. Framed /\ r.tail = tail /\ r.pc = "store" BY <1>10 DEF RingInv, Framed, ReadStore
  <2>2. Dist(head, tail') <= Dist(head, tail) /\ Dist(head, tail) \in Nat /\ Dist(head, tail') \in Nat
    BY <1>1, <1>3, <1>5, <2>1 DEF Typed
  <2>3. Dist(head, tail') <= Cap BY <1>1, <2>1, <2>2 DEF Framed, Typed
  <2>4. w.pc \in {"put", "publish"} => Dist(head, tail') < Cap BY <1>1, <2>1, <2>2 DEF Framed, Typed
  <2>5. \A i \in Index : Dist(head, i) \in 1 .. Dist(head, tail') => Dist(head, i) \in 1 .. Dist(head, tail)
    BY <1>1, <2>2 DEF Typed
  <2>6. printed.last = sent - Dist(head, tail') - r.n BY <1>1, <1>3, <2>1, <2>2 DEF Framed, Typed
  <2>7. QED BY <1>4, <2>1, <2>3, <2>4, <2>5, <2>6 DEF Framed, ReadStore, Holding
<1>11. QED BY <1>6, <1>7, <1>8, <1>9, <1>10 DEF RingInv, ReadStore

LEMMA KeptByReadPrint == ASSUME RingSizes, RingInv, ReadPrint PROVE RingInv'
<1>1. Typed BY TypedHolds DEF RingInv
<1>2. r.n \in 1 .. Len(r.local) /\ Len(r.local) = r.n
  BY <1>1 DEF RingInv, Copied, Holding, ReadPrint, Typed
<1>3. r'.pc = "tail" /\ r'.tail = r.tail /\ r'.n = r.n /\ r'.local = r.local
  BY DEF ReadPrint, RingInv, RingTypeOK
<1>4. /\ printed'.last = r.local[r.n]
      /\ printed'.exact = (printed.exact /\ \A i \in 1 .. r.n : r.local[i] = printed.last + i)
  BY DEF ReadPrint
<1>5. RingTypeOK'
  <2>1. r.local[r.n] \in 0 .. MaxChars BY <1>1, <1>2 DEF Typed
  <2>2. printed' \in [last : 0 .. MaxChars, exact : BOOLEAN] BY <2>1 DEF ReadPrint, RingInv, RingTypeOK
  <2>3. QED BY <2>2 DEF RingInv, RingTypeOK, ReadPrint
<1>6. Behind' BY <1>3 DEF RingInv, Behind, ReadPrint
<1>7. Filled' BY DEF RingInv, Filled, ReadPrint
<1>8. Copied' BY <1>3 DEF RingInv, Copied, ReadPrint, Holding
<1>9. ASSUME ~lost PROVE Framed'
  <2>1. Framed /\ r.pc = "print" BY <1>9 DEF RingInv, ReadPrint
  <2>2. \A j \in 1 .. r.n : r.local[j] = printed.last + j BY <1>2, <2>1 DEF Framed, Holding
  <2>3. printed'.exact BY <1>4, <2>1, <2>2 DEF Framed
  <2>4. printed'.last = sent - Dist(head, tail)
    <3>1. printed'.last = printed.last + r.n BY <1>2, <1>4, <2>2
    <3>2. printed.last = sent - Dist(head, tail) - r.n BY <2>1 DEF Framed
    <3>3. QED BY <1>1, <1>2, <3>1, <3>2 DEF Typed
  <2>5. printed'.last = sent - Dist(head, tail) - 0 BY <1>1, <2>4 DEF Typed
  <2>6. QED BY <1>3, <2>1, <2>3, <2>5 DEF Framed, ReadPrint, Holding
<1>10. QED BY <1>5, <1>6, <1>7, <1>8, <1>9 DEF RingInv, ReadPrint

-------------------------------------------------------------------------------

LEMMA RingStarts == ASSUME RingSizes, RingInit PROVE RingInv
<1>1. Start \in Index /\ Dist(Start, Start) = 0
  <2>1. Start \in Index BY DEF RingSizes, Index
  <2>2. QED BY <2>1, DistIs DEF RingSizes, Index
<1>2. Len(<<>>) = 0 /\ 1 .. 0 = {} OBVIOUS
<1>3. RingTypeOK
  <2>1. <<>> \in Texts
    <3>1. <<>> \in Seq(0 .. MaxChars) /\ Len(<<>>) <= Chunk BY <1>2 DEF RingSizes
    <3>2. QED BY <3>1, TextIs, Zenon
  <2>2. buf \in [0 .. Cap - 1 -> 0 .. MaxChars] BY DEF RingInit, RingSizes
  <2>3. Start \in 0 .. Mod - 1 /\ 0 \in 0 .. Mod - 1 /\ 0 \in 0 .. Chunk /\ 0 \in 0 .. MaxChars
    BY DEF RingSizes
  <2>4. QED BY <2>1, <2>2, <2>3 DEF RingInit, RingTypeOK
<1>4. Behind BY <1>1 DEF RingInit, Behind
<1>5. Filled
  <2>1. \A s \in 0 .. Cap - 1 : buf[s] <= sent + 1 BY DEF RingInit
  <2>2. 1 .. sent = {} BY DEF RingInit
  <2>3. QED BY <2>1, <2>2 DEF RingInit, Filled
<1>6. Copied BY <1>2 DEF RingInit, Copied, Holding
<1>7. Framed
  <2>1. 1 .. Dist(head, tail) = {} BY <1>1 DEF RingInit
  <2>2. QED BY <1>1, <2>1 DEF RingInit, Framed, RingSizes, Holding
<1>8. QED BY <1>3, <1>4, <1>5, <1>6, <1>7 DEF RingInv

LEMMA RingKept == ASSUME RingSizes, RingInv, [RingNext]_ringVars PROVE RingInv'
<1>1. CASE Writer
  BY <1>1, KeptByWriteLoad, KeptByWriteDrop, KeptByWritePut, KeptByWritePublish DEF Writer
<1>2. CASE Reader
  BY <1>2, KeptByReadTail, KeptByReadHead, KeptByReadCopy, KeptByReadCheck, KeptByReadStore, KeptByReadPrint
     DEF Reader
<1>3. CASE UNCHANGED ringVars
  BY <1>3 DEF ringVars, RingInv, RingTypeOK, Behind, Filled, Copied, Framed
<1>4. QED BY <1>1, <1>2, <1>3 DEF RingNext

\* What the invariant says of what is printed.
LEMMA RingHolds == ASSUME RingSizes, RingInv PROVE RingSound
<1>1. Faithful BY DEF RingInv, Framed, Faithful
<1>2. OnlyWritten BY DEF RingInv, Copied, OnlyWritten
<1>3. QED BY <1>1, <1>2 DEF RingSound, RingInv

\* However debugcon_write_char and debugcon_task interleave their accesses, and
\* however long they run, nothing is printed that was not written, and as long as
\* the ring has not overflowed everything is, in order and once.
THEOREM RingSafe == ASSUME RingSizes PROVE RingSpec => []RingSound
<1>1. RingSpec => []RingInv BY RingStarts, RingKept, PTL DEF RingSpec
<1>2. RingInv => RingSound BY RingHolds
<1>3. QED BY <1>1, <1>2, PTL

-----------------------------------------------------------------------------
(* The two texts. *)

Letters == Range(Message) \union Range(Word) \union {Nul, Other}

\* The last j characters of d are the first j of the text.
EndsIn(text, d, j) == j <= Len(d) /\ \A i \in 1..j : d[(Len(d) - j) + i] = text[i]
\* The text stands in d.
Stands(text, d) ==
    \E i \in 0..Len(d) - Len(text) : \A k \in 1..Len(text) : d[i + k] = text[k]

LEMMA Standing ==
    ASSUME NEW S, NEW text \in Seq(S), NEW d \in Seq(S), Len(text) > 0
    PROVE  Stands(text, d) <=> \E i \in 0..Len(d) - Len(text) : SubSeq(d, i + 1, i + Len(text)) = text
<1>1. ASSUME NEW i \in 0..Len(d) - Len(text)
      PROVE  SubSeq(d, i + 1, i + Len(text)) = text <=> \A k \in 1..Len(text) : d[i + k] = text[k]
  <2>1. Len(d) \in Nat /\ Len(text) \in Nat /\ i \in Nat OBVIOUS
  <2>2. i + 1 \in 1..Len(d) /\ i + Len(text) \in i + 1 - 1 .. Len(d) BY <2>1
  <2>3. PICK u : u = SubSeq(d, i + 1, i + Len(text)) OBVIOUS
  <2>4. u \in Seq(S) /\ Len(u) = Len(text) /\ \A k \in 1..Len(text) : u[k] = d[i + k]
    BY <2>1, <2>2, <2>3
  <2>5. u = text => \A k \in 1..Len(text) : d[i + k] = text[k] BY <2>4
  <2>6. (\A k \in 1..Len(text) : d[i + k] = text[k]) => u = text
    BY <2>4, SeqEqual
  <2>7. QED BY <2>3, <2>5, <2>6
<1>2. QED BY <1>1 DEF Stands

\* One more character.
LEMMA EndsLonger ==
    ASSUME NEW S, NEW text \in Seq(S), NEW d \in Seq(S), NEW c \in S, NEW j \in 1..Len(text)
    PROVE  EndsIn(text, Append(d, c), j) <=> c = text[j] /\ EndsIn(text, d, j - 1)
<1>1. PICK e : e = Append(d, c) OBVIOUS
<1>2. /\ Len(d) \in Nat /\ Len(e) = Len(d) + 1 /\ e[Len(d) + 1] = c
      /\ \A k \in 1..Len(d) : e[k] = d[k]
  BY <1>1
<1>3. ASSUME EndsIn(text, e, j) PROVE c = text[j] /\ EndsIn(text, d, j - 1)
  <2>1. c = text[j]
    <3>1. e[(Len(e) - j) + j] = text[j] BY <1>3 DEF EndsIn
    <3>2. (Len(e) - j) + j = Len(d) + 1 BY <1>2
    <3>3. QED BY <1>2, <3>1, <3>2
  <2>2. j - 1 <= Len(d) BY <1>2, <1>3 DEF EndsIn
  <2>3. ASSUME NEW i \in 1..j - 1 PROVE d[(Len(d) - (j - 1)) + i] = text[i]
    <3>1. e[(Len(e) - j) + i] = text[i] BY <1>3 DEF EndsIn
    <3>2. (Len(e) - j) + i = (Len(d) - (j - 1)) + i /\ (Len(d) - (j - 1)) + i \in 1..Len(d) BY <1>2, <2>2
    <3>3. QED BY <1>2, <3>1, <3>2
  <2>4. QED BY <2>1, <2>2, <2>3 DEF EndsIn
<1>4. ASSUME c = text[j], EndsIn(text, d, j - 1) PROVE EndsIn(text, e, j)
  <2>1. j - 1 <= Len(d) BY <1>4 DEF EndsIn
  <2>2. ASSUME NEW i \in 1..j PROVE e[(Len(e) - j) + i] = text[i]
    <3>1. CASE i = j
      <4>1. (Len(e) - j) + i = Len(d) + 1 BY <1>2, <3>1
      <4>2. QED BY <1>2, <1>4, <3>1, <4>1
    <3>2. CASE i # j
      <4>1. i \in 1..j - 1 BY <3>2
      <4>2. d[(Len(d) - (j - 1)) + i] = text[i] BY <1>4, <4>1 DEF EndsIn
      <4>3. (Len(e) - j) + i = (Len(d) - (j - 1)) + i /\ (Len(d) - (j - 1)) + i \in 1..Len(d)
        BY <1>2, <2>1, <4>1
      <4>4. QED BY <1>2, <4>2, <4>3
    <3>3. QED BY <3>1, <3>2
  <2>3. QED BY <1>2, <2>1, <2>2 DEF EndsIn
<1>5. QED BY <1>1, <1>3, <1>4

\* The text stands in what is longer by a character if it did before or ends it.
LEMMA StandsLonger ==
    ASSUME NEW S, NEW text \in Seq(S), NEW d \in Seq(S), NEW c \in S, Len(text) > 0
    PROVE  Stands(text, Append(d, c)) <=> Stands(text, d) \/ EndsIn(text, Append(d, c), Len(text))
<1>1. PICK e : e = Append(d, c) OBVIOUS
<1>2. PICK n \in Nat : n = Len(text) OBVIOUS
<1>3. /\ Len(d) \in Nat /\ Len(e) = Len(d) + 1 /\ \A k \in 1..Len(d) : e[k] = d[k]
  BY <1>1
<1>4. ASSUME Stands(text, e) PROVE Stands(text, d) \/ EndsIn(text, e, n)
  <2>1. PICK i \in 0..Len(e) - n : \A k \in 1..n : e[i + k] = text[k] BY <1>2, <1>4 DEF Stands
  <2>2. CASE i = Len(e) - n
    <3>1. n <= Len(e) BY <1>2, <1>3, <2>1
    <3>2. QED BY <1>2, <2>1, <2>2, <3>1 DEF EndsIn
  <2>3. CASE i # Len(e) - n
    <3>1. i \in 0..Len(d) - n
      <4>1. \A a, b, m \in Nat : b = a + 1 => \A x \in 0..b - m : x # b - m => x \in 0..a - m
        OBVIOUS
      <4>2. Len(e) \in Nat BY <1>3
      <4>3. QED BY <1>2, <1>3, <2>1, <2>3, <4>1, <4>2
    <3>2. ASSUME NEW k \in 1..n PROVE d[i + k] = text[k]
      <4>1. i + k \in 1..Len(d) BY <1>2, <1>3, <3>1
      <4>2. QED BY <1>3, <2>1, <4>1
    <3>3. QED BY <1>2, <3>1, <3>2 DEF Stands
  <2>4. QED BY <2>2, <2>3
<1>5. ASSUME Stands(text, d) PROVE Stands(text, e)
  <2>1. PICK i \in 0..Len(d) - n : \A k \in 1..n : d[i + k] = text[k] BY <1>2, <1>5 DEF Stands
  <2>2. i \in 0..Len(e) - n BY <1>2, <1>3, <2>1
  <2>3. ASSUME NEW k \in 1..n PROVE e[i + k] = text[k]
    <3>1. i + k \in 1..Len(d) BY <1>2, <1>3, <2>1
    <3>2. QED BY <1>3, <2>1, <3>1
  <2>4. QED BY <1>2, <2>2, <2>3 DEF Stands
<1>6. ASSUME EndsIn(text, e, n) PROVE Stands(text, e)
  <2>1. Len(e) - n \in 0..Len(e) - n BY <1>2, <1>3, <1>6 DEF EndsIn
  <2>2. QED BY <1>2, <1>6, <2>1 DEF Stands, EndsIn
<1>7. QED BY <1>1, <1>2, <1>4, <1>5, <1>6

-----------------------------------------------------------------------------
(* Port 0x402. *)

\* Until the line has been seen, match is the length of its only prefix that
\* ends what the guest wrote.
DebugInv ==
    /\ match \in Nat /\ sighted \in BOOLEAN /\ debug \in Seq(Letters)
    /\ sighted <=> Stands(Message, debug)
    /\ ~sighted =>
         /\ match < Len(Message)
         /\ \A j \in 1..Len(Message) : EndsIn(Message, debug, j) <=> j = match

LEMMA TextsAre ==
    ASSUME PortTexts
    PROVE  /\ Message \in Seq(Letters) /\ Word \in Seq(Letters)
           /\ Len(Message) \in Nat \ {0} /\ Len(Word) \in Nat \ {0}
           /\ \A i \in 1..Len(Word) : Word[i] \in Range(Word)
<1>1. Message \in Seq(Range(Message)) /\ Word \in Seq(Range(Word)) BY DEF PortTexts
<1>2. \A T : T \in Seq(Range(T)) /\ Range(T) \subseteq Letters => T \in Seq(Letters)
  OBVIOUS
<1>3. Message \in Seq(Letters) /\ Word \in Seq(Letters) BY <1>1, <1>2 DEF Letters
<1>4. QED BY <1>1, <1>3 DEF PortTexts

LEMMA DebugStep ==
    ASSUME PortTexts, DebugInv, NEW c \in Letters, Debug(c)
    PROVE  DebugInv'
<1> DEFINE n == Len(Message)
           e == Append(debug, c)
<1>1. Message \in Seq(Letters) /\ n \in Nat \ {0} BY TextsAre
<1>2. debug' = e /\ e \in Seq(Letters) BY DEF Debug, DebugInv
<1>3. PICK hit \in Finds(match, c), ends \in Ends(match) :
        IF hit THEN match' = match + 1 /\ sighted' = (sighted \/ ends)
        ELSE match' = (IF c = Message[1] THEN 1 ELSE 0) /\ sighted' = sighted
  BY DEF Debug
<1>4. hit \in BOOLEAN /\ ends \in BOOLEAN BY <1>3 DEF Finds, Ends
<1>5. match' \in Nat /\ sighted' \in BOOLEAN BY <1>3, <1>4 DEF DebugInv
<1>6. Stands(Message, e) <=> Stands(Message, debug) \/ EndsIn(Message, e, n)
  BY <1>1, StandsLonger DEF DebugInv
<1>7. CASE sighted
  <2>1. sighted' BY <1>3, <1>4, <1>7
  <2>2. QED BY <1>2, <1>5, <1>6, <1>7, <2>1 DEF DebugInv
<1>8. CASE ~sighted
  <2>1. match \in Nat /\ match < n /\ \A j \in 1..n : EndsIn(Message, debug, j) <=> j = match
    BY <1>8 DEF DebugInv
  <2>2. (hit <=> c = Message[match + 1]) /\ (ends <=> match + 1 = n)
    BY <1>3, <2>1 DEF Finds, Ends
  <2>3. ASSUME NEW j \in 1..n
        PROVE  EndsIn(Message, e, j) <=> c = Message[j] /\ (j = 1 \/ j - 1 = match)
    <3>1. EndsIn(Message, e, j) <=> c = Message[j] /\ EndsIn(Message, debug, j - 1)
      BY <1>1, EndsLonger DEF DebugInv
    <3>2. EndsIn(Message, debug, 0) BY DEF EndsIn, DebugInv
    <3>3. j # 1 => (EndsIn(Message, debug, j - 1) <=> j - 1 = match) BY <1>1, <2>1
    <3>4. QED BY <3>1, <3>2, <3>3
  <2>4. CASE hit
    <3>1. c = Message[match + 1] /\ match' = match + 1 BY <1>3, <2>2, <2>4
    <3>2. sighted' = ends BY <1>3, <1>4, <1>8, <2>4
    <3>3. match + 1 \in 1..n BY <1>1, <2>1
    <3>4. match + 1 # 1 => Message[match + 1] # Message[1] BY <1>1, <2>1, <3>3 DEF PortTexts
    <3>5. ASSUME NEW j \in 1..n PROVE EndsIn(Message, e, j) <=> j = match + 1
      <4>1. CASE j = 1 BY <2>1, <2>3, <3>1, <3>4, <4>1
      <4>2. CASE j # 1 BY <2>1, <2>3, <3>1, <4>2
      <4>3. QED BY <4>1, <4>2
    <3>6. EndsIn(Message, e, n) <=> match + 1 = n BY <1>1, <3>5
    <3>7. sighted' <=> Stands(Message, e) BY <1>6, <1>8, <2>2, <3>2, <3>6 DEF DebugInv
    <3>8. ~sighted' => match' < n BY <1>1, <2>1, <2>2, <3>1, <3>2
    <3>9. QED BY <1>2, <1>5, <3>1, <3>5, <3>7, <3>8 DEF DebugInv
  <2>5. CASE ~hit
    <3>1. c # Message[match + 1] /\ match' = (IF c = Message[1] THEN 1 ELSE 0) /\ sighted' = sighted
      BY <1>3, <2>2, <2>5
    <3>2. ASSUME NEW j \in 1..n PROVE EndsIn(Message, e, j) <=> j = match'
      <4>1. CASE j = 1 BY <2>3, <3>1, <4>1
      <4>2. CASE j # 1
        <5>1. ~EndsIn(Message, e, j) BY <2>1, <2>3, <3>1, <4>2
        <5>2. QED BY <3>1, <4>2, <5>1
      <4>3. QED BY <4>1, <4>2
    <3>3. match' < n
      <4>1. CASE c = Message[1]
        <5>1. match # 0 BY <3>1, <4>1
        <5>2. QED BY <1>1, <2>1, <3>1, <4>1, <5>1
      <4>2. CASE c # Message[1] BY <1>1, <3>1, <4>2
      <4>3. QED BY <4>1, <4>2
    <3>4. ~EndsIn(Message, e, n) BY <1>1, <3>2, <3>3
    <3>5. QED BY <1>2, <1>5, <1>6, <1>8, <3>1, <3>2, <3>3, <3>4 DEF DebugInv
  <2>6. QED BY <1>4, <2>4, <2>5
<1>9. QED BY <1>7, <1>8, <1>5

-----------------------------------------------------------------------------
(* Port 0x8900. *)

\* The first s letters of the word stand in p in order, and only letters of the
\* word from the first of them on.
Threads(f, p, s) ==
    /\ f \in [1..s -> 1..Len(p)]
    /\ \A i \in 1..s : p[f[i]] = Word[i] /\ (i > 1 => f[i - 1] < f[i])
    /\ s > 0 => \A k \in f[1]..Len(p) : p[k] \in Range(Word)

PowerInv ==
    /\ state \in 0..Len(Word) /\ power \in Seq(Letters)
    /\ \A j \in 1..Len(Word) : EndsIn(Word, power, j) => j <= state
    /\ \E f : Threads(f, power, state)

\* One more letter on the thread, and one more letter beside it.
LEMMA ThreadLonger ==
    ASSUME NEW p \in Seq(Letters), NEW c \in Range(Word), NEW s \in Nat, NEW f, Threads(f, p, s),
           c = Word[s + 1]
    PROVE  \E g : Threads(g, Append(p, c), s + 1)
<1> DEFINE g == [i \in 1..s + 1 |-> IF i = s + 1 THEN Len(p) + 1 ELSE f[i]]
<1>1. PICK e : e = Append(p, c) OBVIOUS
<1>2. Len(p) \in Nat /\ Len(e) = Len(p) + 1 /\ e[Len(p) + 1] = c /\ \A k \in 1..Len(p) : e[k] = p[k]
  BY <1>1 DEF Letters
<1>3. f \in [1..s -> 1..Len(p)] BY DEF Threads
<1>4. g \in [1..s + 1 -> 1..Len(e)] BY <1>2, <1>3
<1>5. ASSUME NEW i \in 1..s + 1 PROVE e[g[i]] = Word[i] /\ (i > 1 => g[i - 1] < g[i])
  <2>1. CASE i = s + 1
    <3>1. g[i] = Len(p) + 1 BY <2>1
    <3>2. e[g[i]] = Word[i] BY <1>2, <2>1, <3>1
    <3>3. ASSUME i > 1 PROVE g[i - 1] < g[i]
      <4>1. i - 1 \in 1..s /\ i - 1 \in 1..s + 1 /\ i - 1 # s + 1 BY <2>1, <3>3
      <4>2. g[i - 1] = f[i - 1] BY <4>1
      <4>3. f[i - 1] \in 1..Len(p) BY <1>3, <4>1
      <4>4. QED BY <1>2, <3>1, <4>2, <4>3
    <3>4. QED BY <3>2, <3>3
  <2>2. CASE i # s + 1
    <3>1. i \in 1..s BY <2>2
    <3>2. g[i] = f[i] /\ f[i] \in 1..Len(p) BY <1>3, <2>2, <3>1
    <3>3. p[f[i]] = Word[i] /\ (i > 1 => f[i - 1] < f[i]) BY <3>1 DEF Threads
    <3>4. i > 1 => g[i - 1] = f[i - 1] BY <3>1
    <3>5. QED BY <1>2, <3>2, <3>3, <3>4
  <2>3. QED BY <2>1, <2>2
<1>6. ASSUME NEW k \in g[1]..Len(e) PROVE e[k] \in Range(Word)
  <2>1. CASE k = Len(p) + 1 BY <1>2, <2>1
  <2>2. CASE k # Len(p) + 1
    <3>1. g[1] \in 1..Len(e) BY <1>4
    <3>2. k \in 1..Len(p) BY <1>2, <2>2, <3>1
    <3>3. s > 0 /\ g[1] = f[1] BY <1>2, <3>2
    <3>4. k \in f[1]..Len(p) BY <3>2, <3>3
    <3>5. p[k] \in Range(Word) BY <3>3, <3>4 DEF Threads
    <3>6. QED BY <1>2, <3>2, <3>5
  <2>3. QED BY <2>1, <2>2
<1>7. Threads(g, e, s + 1) BY <1>4, <1>5, <1>6 DEF Threads
<1>8. QED BY <1>1, <1>7

LEMMA ThreadKept ==
    ASSUME NEW p \in Seq(Letters), NEW c \in Range(Word), NEW s \in Nat, NEW f, Threads(f, p, s)
    PROVE  Threads(f, Append(p, c), s)
<1>1. PICK e : e = Append(p, c) OBVIOUS
<1>2. Len(p) \in Nat /\ Len(e) = Len(p) + 1 /\ e[Len(p) + 1] = c /\ \A k \in 1..Len(p) : e[k] = p[k]
  BY <1>1 DEF Letters
<1>3. f \in [1..s -> 1..Len(p)] BY DEF Threads
<1>4. f \in [1..s -> 1..Len(e)] BY <1>2, <1>3
<1>5. \A i \in 1..s : e[f[i]] = Word[i] /\ (i > 1 => f[i - 1] < f[i]) BY <1>2, <1>3 DEF Threads
<1>6. ASSUME s > 0, NEW k \in f[1]..Len(e) PROVE e[k] \in Range(Word)
  <2>1. f[1] \in 1..Len(p) BY <1>3, <1>6
  <2>2. CASE k = Len(p) + 1 BY <1>2, <2>2
  <2>3. CASE k # Len(p) + 1
    <3>1. k \in f[1]..Len(p) /\ k \in 1..Len(p) BY <1>2, <2>1, <2>3
    <3>2. QED BY <1>2, <1>6, <3>1 DEF Threads
  <2>4. QED BY <2>2, <2>3
<1>7. QED BY <1>1, <1>4, <1>5, <1>6 DEF Threads

LEMMA PowerStep ==
    ASSUME PortTexts, PowerInv, NEW c \in Range(Word) \union {Other}, Power(c)
    PROVE  PowerInv'
<1> DEFINE n == Len(Word)
           e == Append(power, c)
<1>1. Word \in Seq(Letters) /\ n \in Nat \ {0} /\ c \in Letters /\ \A i \in 1..n : Word[i] \in Range(Word)
  BY TextsAre DEF Letters
<1>2. power' = e /\ e \in Seq(Letters) BY <1>1 DEF Power, PowerInv
<1>3. state' = Advance(state, c) /\ state \in 0..n BY DEF Power, PowerInv
<1>4. PICK f : Threads(f, power, state) BY DEF PowerInv
<1>5. ASSUME NEW j \in 1..n, EndsIn(Word, e, j)
      PROVE  c = Word[j] /\ c \in Range(Word) /\ j - 1 <= state
  <2>1. c = Word[j] /\ EndsIn(Word, power, j - 1) BY <1>1, <1>5, EndsLonger DEF PowerInv
  <2>2. j - 1 # 0 => j - 1 <= state
    <3>1. j - 1 # 0 => j - 1 \in 1..n BY <1>1
    <3>2. QED BY <2>1, <3>1 DEF PowerInv
  <2>3. QED BY <1>1, <1>3, <2>1, <2>2
<1>6. CASE c \notin Range(Word)
  <2>1. state' = 0 BY <1>3, <1>6 DEF Advance
  <2>2. Threads(<<>>, e, 0)
    <3>1. <<>> \in [1..0 -> 1..Len(e)] OBVIOUS
    <3>2. QED BY <3>1 DEF Threads
  <2>3. QED BY <1>1, <1>2, <1>5, <1>6, <2>1, <2>2 DEF PowerInv
<1>7. CASE c \in Range(Word) /\ state < n /\ c = Word[state + 1]
  <2>1. state' = state + 1 BY <1>3, <1>7 DEF Advance
  <2>2. \E g : Threads(g, e, state + 1)
    <3>1. state \in Nat /\ power \in Seq(Letters) BY <1>1, <1>3 DEF PowerInv
    <3>2. QED BY <1>4, <1>7, <3>1, ThreadLonger
  <2>3. \A j \in 1..n : EndsIn(Word, e, j) => j <= state + 1 BY <1>3, <1>5
  <2>4. QED BY <1>1, <1>2, <1>3, <1>7, <2>1, <2>2, <2>3 DEF PowerInv
<1>8. CASE c \in Range(Word) /\ ~(state < n /\ c = Word[state + 1])
  <2>1. state' = state BY <1>3, <1>8 DEF Advance
  <2>2. Threads(f, e, state) BY <1>3, <1>4, <1>8, ThreadKept DEF PowerInv
  <2>3. ASSUME NEW j \in 1..n, EndsIn(Word, e, j) PROVE j <= state
    <3>1. c = Word[j] /\ j - 1 <= state BY <1>5, <2>3
    <3>2. j # state + 1 BY <1>1, <1>3, <1>8, <3>1
    <3>3. QED BY <1>1, <1>3, <3>1, <3>2
  <2>4. QED BY <1>2, <1>3, <2>1, <2>2, <2>3 DEF PowerInv
<1>9. QED BY <1>6, <1>7, <1>8

\* What ends in the word has it for its last letters.
LEMMA Suffix ==
    ASSUME PortTexts, NEW p \in Seq(Letters), IsSuffix(Word, p)
    PROVE  EndsIn(Word, p, Len(Word))
<1> DEFINE n == Len(Word)
<1>1. Word \in Seq(Letters) /\ n \in Nat \ {0} BY TextsAre
<1>2. PICK a : a = Reverse(Word) OBVIOUS
<1>3. PICK b : b = Reverse(p) OBVIOUS
<1>4. a \in Seq(Letters) /\ Len(a) = n /\ \A i \in 1..n : a[i] = Word[(n - i) + 1]
  <2>1. \A i \in 1..n : Word[(n - i) + 1] \in Letters BY <1>1
  <2>2. QED BY <1>1, <1>2, <2>1 DEF Reverse
<1>5. Len(p) \in Nat /\ b \in Seq(Letters) /\ Len(b) = Len(p) /\ \A i \in 1..Len(p) : b[i] = p[(Len(p) - i) + 1]
  <2>1. \A i \in 1..Len(p) : p[(Len(p) - i) + 1] \in Letters OBVIOUS
  <2>2. QED BY <1>3, <2>1 DEF Reverse
<1>6. n <= Len(p) /\ SubSeq(a, 1, n) = SubSeq(b, 1, n)
  BY <1>2, <1>3, <1>4, <1>5 DEF IsSuffix, IsPrefix
<1>7. ASSUME NEW i \in 1..n PROVE a[i] = b[i]
  <2>1. SubSeq(a, 1, n)[i] = a[i] BY <1>1, <1>4
  <2>2. SubSeq(b, 1, n)[i] = b[i] BY <1>1, <1>5, <1>6
  <2>3. QED BY <1>6, <2>1, <2>2
<1>8. ASSUME NEW i \in 1..n PROVE p[(Len(p) - n) + i] = Word[i]
  <2>1. (n - i) + 1 \in 1..n /\ (n - i) + 1 \in 1..Len(p) BY <1>1, <1>5, <1>6
  <2>2. a[(n - i) + 1] = Word[(n - ((n - i) + 1)) + 1] BY <1>4, <2>1
  <2>3. b[(n - i) + 1] = p[(Len(p) - ((n - i) + 1)) + 1] BY <1>5, <2>1
  <2>4. (n - ((n - i) + 1)) + 1 = i /\ (Len(p) - ((n - i) + 1)) + 1 = (Len(p) - n) + i
    BY <1>1, <1>5
  <2>5. QED BY <1>7, <2>1, <2>2, <2>3, <2>4
<1>9. QED BY <1>6, <1>8 DEF EndsIn

-----------------------------------------------------------------------------

BoardInv == DebugInv /\ PowerInv

\* The board has seen the line exactly when it stands in what the guest wrote,
\* and the word at the other port ends the emulation, whatever letters came
\* before it, and nothing else does (pc_io_write).
THEOREM BoardSafe ==
    ASSUME PortTexts
    PROVE  BoardSpec => []BoardSound
<1>1. BoardInit => BoardInv
  <2> SUFFICES ASSUME BoardInit PROVE BoardInv OBVIOUS
  <2>1. /\ Message \in Seq(Letters) /\ Word \in Seq(Letters)
        /\ Len(Message) \in Nat \ {0} /\ Len(Word) \in Nat \ {0}
    BY TextsAre
  <2>2. match = 0 /\ sighted = FALSE /\ state = 0 /\ debug = <<>> /\ power = <<>> BY DEF BoardInit
  <2>3. ~Stands(Message, debug) BY <2>1, <2>2 DEF Stands
  <2>4. \A text, j : j \in 1..Len(text) => ~EndsIn(text, <<>>, j) BY DEF EndsIn
  <2>5. \A j \in 1..Len(Message) : EndsIn(Message, debug, j) <=> j = match BY <2>1, <2>2, <2>4
  <2>6. DebugInv
    <3>1. debug \in Seq(Letters) /\ match \in Nat /\ match < Len(Message) BY <2>1, <2>2
    <3>2. sighted \in BOOLEAN /\ (sighted <=> Stands(Message, debug)) BY <2>2, <2>3
    <3>3. QED BY <2>5, <3>1, <3>2 DEF DebugInv
  <2>7. Threads(<<>>, <<>>, 0)
    <3>1. <<>> \in [1..0 -> 1..Len(<<>>)] OBVIOUS
    <3>2. QED BY <3>1 DEF Threads
  <2>8. PowerInv BY <2>1, <2>2, <2>4, <2>7 DEF PowerInv
  <2>9. QED BY <2>6, <2>8 DEF BoardInv
<1>2. BoardInv /\ [BoardNext]_boardVars => BoardInv'
  <2> SUFFICES ASSUME BoardInv, [BoardNext]_boardVars PROVE BoardInv' OBVIOUS
  <2>1. DebugInv /\ PowerInv BY DEF BoardInv
  <2>2. ASSUME NEW c \in Range(Message) \union {Nul, Other}, Debug(c) PROVE BoardInv'
    <3>1. c \in Letters BY DEF Letters
    <3>2. DebugInv' BY <2>1, <2>2, <3>1, DebugStep
    <3>3. UNCHANGED <<state, power>> BY <2>2 DEF Debug
    <3>4. PowerInv' BY <2>1, <3>3 DEF PowerInv
    <3>5. QED BY <3>2, <3>4 DEF BoardInv
  <2>3. ASSUME NEW c \in Range(Word) \union {Other}, Power(c) PROVE BoardInv'
    <3>1. PowerInv' BY <2>1, <2>3, PowerStep
    <3>2. UNCHANGED <<match, sighted, debug>> BY <2>3 DEF Power
    <3>3. DebugInv' BY <2>1, <3>2 DEF DebugInv
    <3>4. QED BY <3>1, <3>3 DEF BoardInv
  <2>4. ASSUME UNCHANGED <<match, sighted, state, debug, power>> PROVE BoardInv'
    <3>1. DebugInv' BY <2>1, <2>4 DEF DebugInv
    <3>2. PowerInv' BY <2>1, <2>4 DEF PowerInv
    <3>3. QED BY <3>1, <3>2 DEF BoardInv
  <2>5. CASE Leave BY <2>4, <2>5 DEF Leave
  <2>6. CASE UNCHANGED boardVars BY <2>4, <2>6 DEF boardVars
  <2>7. QED BY <2>2, <2>3, <2>5, <2>6 DEF BoardNext
<1>3. BoardInv => BoardSound
  <2> SUFFICES ASSUME BoardInv PROVE BoardSound OBVIOUS
  <2>1. DebugInv /\ PowerInv BY DEF BoardInv
  <2>2. /\ Message \in Seq(Letters) /\ Word \in Seq(Letters)
        /\ Len(Message) \in Nat \ {0} /\ Len(Word) \in Nat \ {0}
    BY TextsAre
  <2>3. LineSeen
    <3>1. debug \in Seq(Letters) /\ (sighted <=> Stands(Message, debug)) BY <2>1 DEF DebugInv
    <3>2. Len(Message) > 0 BY <2>2
    <3>3. Stands(Message, debug) <=>
            \E i \in 0..Len(debug) - Len(Message) : SubSeq(debug, i + 1, i + Len(Message)) = Message
      BY <2>2, <3>1, <3>2, Standing
    <3>4. QED BY <3>1, <3>3 DEF LineSeen
  <2>4. WordEnds
    <3>1. IsSuffix(Word, power) => state = Len(Word)
      <4> SUFFICES ASSUME IsSuffix(Word, power) PROVE state = Len(Word) OBVIOUS
      <4>1. EndsIn(Word, power, Len(Word)) BY <2>1, Suffix DEF PowerInv
      <4>2. Len(Word) \in 1..Len(Word) BY <2>2
      <4>3. QED BY <2>1, <2>2, <4>1, <4>2 DEF PowerInv
    <3>2. ASSUME state = Len(Word)
          PROVE  \E f \in [1..Len(Word) -> 1..Len(power)] :
                    /\ \A i \in 1..Len(Word) : power[f[i]] = Word[i] /\ (i > 1 => f[i - 1] < f[i])
                    /\ \A k \in f[1]..Len(power) : power[k] \in Range(Word)
      <4>1. PICK f : Threads(f, power, Len(Word)) BY <2>1, <3>2 DEF PowerInv
      <4>2. QED BY <2>2, <4>1 DEF Threads
    <3>3. QED BY <3>1, <3>2 DEF WordEnds
  <2>5. QED BY <2>3, <2>4 DEF BoardSound
<1>4. QED BY <1>1, <1>2, <1>3, PTL DEF BoardSpec

-----------------------------------------------------------------------------
(* USB devices. *)

DeviceKind == [proto : {"none", "keyboard", "mouse"}, boot : BOOLEAN]

DeviceTypes ==
    /\ setup \in {"start", "off", "wait", "hid", "run", "deaf", "abort"} /\ host \in BOOLEAN
    /\ device \in [Handle -> {"gone", "idle", "open", "started"}] /\ kind \in [Handle -> DeviceKind]
    /\ queue \in Seq(Handle) /\ pulled \in BOOLEAN
    /\ handling \in [at : Handle \union {NoHandle}, step : {"receive", "open", "start"}, kind : DeviceKind]
    /\ IF handling.step = "receive" THEN handling.at = NoHandle ELSE handling.at \in Handle

\* As long as no device has been pulled, each of the queue is announced once and
\* nobody has touched it, and the one at hand is as usb_event_task left it.
Untouched ==
    /\ \A i \in 1..Len(queue) : device[queue[i]] = "idle" /\ queue[i] # handling.at
    /\ \A i, j \in 1..Len(queue) : i # j => queue[i] # queue[j]
    /\ handling.step = "open" => device[handling.at] = "idle"
    /\ handling.step = "start" => device[handling.at] = "open"

DeviceInv == DeviceTypes /\ Announced /\ SurvivesPlugging /\ (~pulled => Untouched)

MouseInv == mouse.dx \in -80..80 /\ mouse.sent[2] \in 0..255 /\ mouse.dx = Signed(mouse.sent[2])

LEMMA KindsAre == Kinds \subseteq DeviceKind /\ Idle.kind \in DeviceKind
BY DEF Kinds, Kind, DeviceKind, Idle

LEMMA InQueue ==
    ASSUME NEW q \in Seq(Handle), NEW h \in Handle
    PROVE  /\ Range(Append(q, h)) = Range(q) \union {h}
           /\ q # <<>> => Head(q) \in Handle /\ Tail(q) \in Seq(Handle)
                          /\ Range(q) \subseteq Range(Tail(q)) \union {Head(q)}
<1>1. Len(q) \in Nat OBVIOUS
<1>2. PICK e : e = Append(q, h) OBVIOUS
<1>3. Len(e) = Len(q) + 1 /\ e[Len(q) + 1] = h /\ (\A i \in 1..Len(q) : e[i] = q[i]) /\ e \in Seq(Handle)
  BY <1>2
<1>4. Range(e) = Range(q) \union {h}
  <2>1. DOMAIN e = 1..Len(e) /\ DOMAIN q = 1..Len(q) BY <1>3
  <2>2. ASSUME NEW x \in Range(e) PROVE x \in Range(q) \union {h}
    <3>1. PICK i \in 1..Len(e) : x = e[i] BY <2>1 DEF Range
    <3>2. i \in 1..Len(q) \/ i = Len(q) + 1 BY <1>1, <1>3, <3>1
    <3>3. QED BY <1>3, <2>1, <3>1, <3>2 DEF Range
  <2>3. ASSUME NEW x \in Range(q) \union {h} PROVE x \in Range(e)
    <3>1. CASE x = h
      <4>1. Len(q) + 1 \in 1..Len(e) BY <1>1, <1>3
      <4>2. QED BY <1>3, <2>1, <3>1, <4>1 DEF Range
    <3>2. CASE x \in Range(q)
      <4>1. PICK i \in 1..Len(q) : x = q[i] BY <2>1, <3>2 DEF Range
      <4>2. i \in 1..Len(e) BY <1>1, <1>3
      <4>3. QED BY <1>3, <2>1, <4>1, <4>2 DEF Range
    <3>3. QED BY <2>3, <3>1, <3>2
  <2>4. QED BY <2>2, <2>3
<1>5. ASSUME q # <<>>
      PROVE  Head(q) \in Handle /\ Tail(q) \in Seq(Handle) /\ Range(q) \subseteq Range(Tail(q)) \union {Head(q)}
  <2>1. PICK t : t = Tail(q) OBVIOUS
  <2>2. t \in Seq(Handle) /\ Len(t) = Len(q) - 1 /\ \A i \in 1..Len(t) : t[i] = q[i + 1]
    BY <1>5, <2>1, HeadTailProperties
  <2>3. Head(q) = q[1] /\ Head(q) \in Handle BY <1>5
  <2>4. DOMAIN t = 1..Len(t) /\ DOMAIN q = 1..Len(q) BY <2>2
  <2>5. ASSUME NEW x \in Range(q) PROVE x \in Range(t) \union {Head(q)}
    <3>1. PICK i \in 1..Len(q) : x = q[i] BY <2>4 DEF Range
    <3>2. CASE i = 1 BY <2>3, <3>1, <3>2
    <3>3. CASE i # 1
      <4>1. i - 1 \in 1..Len(t) /\ (i - 1) + 1 = i BY <1>1, <2>2, <3>1, <3>3
      <4>2. t[i - 1] = x BY <2>2, <3>1, <4>1
      <4>3. QED BY <2>4, <4>1, <4>2 DEF Range
    <3>4. QED BY <3>2, <3>3
  <2>6. QED BY <2>1, <2>2, <2>3, <2>5
<1>6. QED BY <1>2, <1>4, <1>5

LEMMA PlugStep ==
    ASSUME UsbSizes, DeviceInv, NEW h \in Handle, NEW k \in Kinds, Plug(h, k)
    PROVE  DeviceInv'
<1>1. /\ device[h] = "gone" /\ device' = [device EXCEPT ![h] = "idle"] /\ kind' = [kind EXCEPT ![h] = k]
      /\ UNCHANGED <<setup, host, handling, pulled>>
      /\ \/ queue' = Append(queue, h) /\ dropped' = dropped
         \/ dropped' = dropped \union {h} /\ queue' = queue
  BY DEF Plug, setupVars
<1>2. DeviceTypes /\ Announced /\ SurvivesPlugging /\ (~pulled => Untouched) BY DEF DeviceInv
<1>3. k \in DeviceKind BY KindsAre
<1>4. DeviceTypes' BY <1>1, <1>2, <1>3 DEF DeviceTypes
<1>5. Announced'
  <2> SUFFICES ASSUME NEW g \in Handle, device'[g] = "idle", kind'[g].proto # "none", setup' # "abort"
               PROVE  g \in Range(queue') \/ g = handling'.at \/ g \in dropped'
    BY DEF Announced, Alive
  <2>1. queue \in Seq(Handle) BY <1>2 DEF DeviceTypes
  <2>2. Range(queue) \subseteq Range(queue') /\ (queue' = Append(queue, h) => h \in Range(queue'))
    BY <1>1, <2>1, InQueue
  <2>3. CASE g = h BY <1>1, <2>2, <2>3
  <2>4. CASE g # h
    <3>1. device[g] = "idle" /\ kind[g].proto # "none" /\ setup # "abort" BY <1>1, <1>2, <2>4 DEF DeviceTypes
    <3>2. g \in Range(queue) \/ g = handling.at \/ g \in dropped BY <1>2, <3>1 DEF Announced, Alive
    <3>3. QED BY <1>1, <2>2, <3>2
  <2>5. QED BY <2>3, <2>4
<1>6. SurvivesPlugging' BY <1>1, <1>2 DEF SurvivesPlugging
<1>7. ASSUME ~pulled' PROVE Untouched'
  <2>1. Untouched BY <1>1, <1>2, <1>7
  <2>2. queue \in Seq(Handle) /\ device \in [Handle -> {"gone", "idle", "open", "started"}] BY <1>2 DEF DeviceTypes
  <2>3. \A i \in 1..Len(queue) : queue[i] # h /\ queue[i] \in Handle BY <1>1, <2>1, <2>2 DEF Untouched
  <2>4. handling.at # h
    <3>1. CASE handling.step = "receive" BY <1>2, <3>1 DEF DeviceTypes, UsbSizes
    <3>2. CASE handling.step # "receive"
      <4>1. handling.step \in {"open", "start"} BY <1>2, <3>2 DEF DeviceTypes
      <4>2. device[handling.at] # "gone" BY <2>1, <4>1 DEF Untouched
      <4>3. QED BY <1>1, <4>2
    <3>3. QED BY <3>1, <3>2
  <2>5. \A x \in Handle : x # h => device'[x] = device[x] BY <1>1, <2>2
  <2>6. device'[h] = "idle" BY <1>1, <2>2
  <2>7. handling.step # "receive" => device'[handling.at] = device[handling.at]
    BY <1>2, <2>4, <2>5 DEF DeviceTypes
  <2>8. PICK q : q = queue' OBVIOUS
  <2>9. \A i \in 1..Len(q) : (i \in 1..Len(queue) /\ q[i] = queue[i]) \/ (i = Len(queue) + 1 /\ q[i] = h)
    BY <1>1, <2>2, <2>8
  <2>10. \A i \in 1..Len(q) : device'[q[i]] = "idle" /\ q[i] # handling.at
    BY <2>1, <2>3, <2>4, <2>5, <2>6, <2>9 DEF Untouched
  <2>11. \A i, j \in 1..Len(q) : i # j => q[i] # q[j]
    BY <2>1, <2>3, <2>9 DEF Untouched
  <2>12. /\ handling.step = "open" => device'[handling.at] = "idle"
         /\ handling.step = "start" => device'[handling.at] = "open"
    BY <2>1, <2>7 DEF Untouched
  <2>13. QED BY <1>1, <2>8, <2>10, <2>11, <2>12 DEF Untouched
<1>8. QED BY <1>4, <1>5, <1>6, <1>7 DEF DeviceInv

LEMMA PullStep ==
    ASSUME UsbSizes, DeviceInv, NEW h \in Handle, Pull(h)
    PROVE  DeviceInv'
<1>1. /\ device' = [device EXCEPT ![h] = "gone"] /\ dropped' = dropped \ {h} /\ pulled'
      /\ UNCHANGED <<setup, host, kind, queue, handling>>
  BY DEF Pull, setupVars
<1>2. pulled' = TRUE BY DEF Pull
<1>3. DeviceTypes' BY <1>1, <1>2 DEF DeviceInv, DeviceTypes
<1>4. Announced'
  <2> SUFFICES ASSUME NEW g \in Handle, device'[g] = "idle", kind'[g].proto # "none", setup' # "abort"
               PROVE  g \in Range(queue') \/ g = handling'.at \/ g \in dropped'
    BY DEF Announced, Alive
  <2>1. g # h /\ device[g] = "idle" BY <1>1 DEF DeviceInv, DeviceTypes
  <2>2. g \in Range(queue) \/ g = handling.at \/ g \in dropped
    BY <1>1, <2>1 DEF DeviceInv, Announced, Alive
  <2>3. QED BY <1>1, <2>1, <2>2
<1>5. SurvivesPlugging' BY <1>1 DEF SurvivesPlugging
<1>6. QED BY <1>1, <1>3, <1>4, <1>5 DEF DeviceInv

LEMMA ReceiveStep ==
    ASSUME UsbSizes, DeviceInv, Receive
    PROVE  DeviceInv'
<1> DEFINE h == Head(queue)
<1>1. DeviceTypes /\ Announced /\ SurvivesPlugging /\ (~pulled => Untouched) BY DEF DeviceInv
<1>2. /\ setup = "run" /\ handling = Idle /\ queue # <<>> /\ queue' = Tail(queue)
      /\ UNCHANGED <<setup, host, device, kind, dropped, pulled>>
  BY DEF Receive, setupVars
<1>3. handling' = IF device[h] = "gone" \/ kind[h].proto = "none" THEN Idle
                  ELSE [at |-> h, step |-> "open", kind |-> kind[h]]
  BY DEF Receive
<1>4. queue \in Seq(Handle) /\ kind \in [Handle -> DeviceKind] BY <1>1 DEF DeviceTypes
<1>5. h \in Handle /\ queue' \in Seq(Handle) /\ Range(queue) \subseteq Range(queue') \union {h}
  BY <1>2, <1>4, InQueue
<1>6. /\ Idle.at = NoHandle /\ Idle.step = "receive"
      /\ Idle \in [at : Handle \union {NoHandle}, step : {"receive", "open", "start"}, kind : DeviceKind]
  BY KindsAre DEF Idle
<1>7. DeviceTypes'
  <2>1. handling' \in [at : Handle \union {NoHandle}, step : {"receive", "open", "start"}, kind : DeviceKind]
        /\ IF handling'.step = "receive" THEN handling'.at = NoHandle ELSE handling'.at \in Handle
    <3>1. CASE device[h] = "gone" \/ kind[h].proto = "none" BY <1>3, <1>6, <3>1
    <3>2. CASE ~(device[h] = "gone" \/ kind[h].proto = "none")
      <4>1. handling' = [at |-> h, step |-> "open", kind |-> kind[h]] BY <1>3, <3>2
      <4>2. kind[h] \in DeviceKind BY <1>4, <1>5
      <4>3. QED BY <1>5, <4>1, <4>2
    <3>3. QED BY <3>1, <3>2
  <2>2. QED BY <1>1, <1>2, <1>5, <2>1 DEF DeviceTypes
<1>8. Announced'
  <2> SUFFICES ASSUME NEW g \in Handle, device[g] = "idle", kind[g].proto # "none", setup # "abort"
               PROVE  g \in Range(queue') \/ g = handling'.at \/ g \in dropped
    BY <1>2 DEF Announced, Alive
  <2>1. g \in Range(queue) \/ g \in dropped BY <1>1, <1>2, <1>6 DEF Announced, Alive, UsbSizes
  <2>2. CASE g = h
    <3>1. handling'.at = h BY <1>3, <2>2
    <3>2. QED BY <2>2, <3>1
  <2>3. CASE g # h BY <1>5, <2>1, <2>3
  <2>4. QED BY <2>2, <2>3
<1>9. SurvivesPlugging' BY <1>1, <1>2 DEF SurvivesPlugging
<1>10. ASSUME ~pulled' PROVE Untouched'
  <2>1. Untouched BY <1>1, <1>2, <1>10
  <2>2. PICK q : q = queue' OBVIOUS
  <2>3. Len(queue) \in Nat /\ Len(q) = Len(queue) - 1 /\ h = queue[1] /\ \A i \in 1..Len(q) : q[i] = queue[i + 1]
    BY <1>2, <1>4, <2>2, HeadTailProperties
  <2>4. \A i \in 1..Len(q) : q[i] # h /\ q[i] \in Handle /\ device[q[i]] = "idle"
    <3> SUFFICES ASSUME NEW i \in 1..Len(q) PROVE q[i] # h /\ q[i] \in Handle /\ device[q[i]] = "idle"
      OBVIOUS
    <3>1. i + 1 \in 1..Len(queue) /\ 1 \in 1..Len(queue) /\ i + 1 # 1 BY <2>3
    <3>2. queue[i + 1] # queue[1] /\ device[queue[i + 1]] = "idle" BY <2>1, <3>1 DEF Untouched
    <3>3. queue[i + 1] \in Handle BY <1>4, <3>1
    <3>4. QED BY <2>3, <3>2, <3>3
  <2>5. \A i, j \in 1..Len(q) : i # j => q[i] # q[j]
    <3> SUFFICES ASSUME NEW i \in 1..Len(q), NEW j \in 1..Len(q), i # j PROVE q[i] # q[j]
      OBVIOUS
    <3>1. i + 1 \in 1..Len(queue) /\ j + 1 \in 1..Len(queue) /\ i + 1 # j + 1 BY <2>3
    <3>2. QED BY <2>1, <2>3, <3>1 DEF Untouched
  <2>6. device[h] = "idle"
    <3>1. 1 \in 1..Len(queue) BY <1>2, <1>4
    <3>2. QED BY <2>1, <2>3, <3>1 DEF Untouched
  <2>7. handling'.at \in {NoHandle, h} /\ handling'.step \in {"receive", "open"}
        /\ (handling'.step = "open" => handling'.at = h)
    BY <1>3, <1>6
  <2>8. \A i \in 1..Len(q) : q[i] # handling'.at BY <2>4, <2>7 DEF UsbSizes
  <2>9. QED BY <1>2, <2>2, <2>4, <2>5, <2>6, <2>7, <2>8 DEF Untouched
<1>11. QED BY <1>7, <1>8, <1>9, <1>10 DEF DeviceInv

LEMMA OpenStep ==
    ASSUME UsbSizes, DeviceInv, Open
    PROVE  DeviceInv'
<1> DEFINE h == handling.at
<1>1. DeviceTypes /\ Announced /\ SurvivesPlugging /\ (~pulled => Untouched) BY DEF DeviceInv
<1>2. setup = "run" /\ handling.step = "open" /\ UNCHANGED <<host, kind, queue, pulled>>
  BY DEF Open, Abort, setupVars
<1>3. h \in Handle BY <1>1, <1>2 DEF DeviceTypes
<1>4. CASE device[h] = "idle"
  <2>1. /\ device' = [device EXCEPT ![h] = "open"] /\ handling' = [handling EXCEPT !.step = "start"]
        /\ dropped' = dropped \ {h} /\ setup' = setup
    BY <1>4 DEF Open, setupVars
  <2>2. /\ handling'.at = h /\ handling'.step = "start" /\ device'[h] = "open"
        /\ \A x \in Handle : x # h => device'[x] = device[x]
    BY <1>1, <1>3, <2>1 DEF DeviceTypes
  <2>3. DeviceTypes'
    <3>1. handling' \in [at : Handle \union {NoHandle}, step : {"receive", "open", "start"}, kind : DeviceKind]
      BY <1>1, <2>1 DEF DeviceTypes
    <3>2. QED BY <1>1, <1>2, <1>3, <2>1, <2>2, <3>1 DEF DeviceTypes
  <2>4. Announced'
    <3> SUFFICES ASSUME NEW g \in Handle, device'[g] = "idle", kind'[g].proto # "none", setup' # "abort"
                 PROVE  g \in Range(queue') \/ g = handling'.at \/ g \in dropped'
      BY DEF Announced, Alive
    <3>1. g # h BY <2>2
    <3>2. g \in Range(queue) \/ g \in dropped BY <1>1, <1>2, <2>1, <2>2, <3>1 DEF Announced, Alive
    <3>3. QED BY <1>2, <2>1, <3>1, <3>2
  <2>5. SurvivesPlugging' BY <1>1, <1>2, <2>1 DEF SurvivesPlugging
  <2>6. ASSUME ~pulled' PROVE Untouched'
    <3>1. Untouched BY <1>1, <1>2, <2>6
    <3>2. \A i \in 1..Len(queue) : queue[i] # h /\ queue[i] \in Handle BY <1>1, <3>1 DEF Untouched, DeviceTypes
    <3>3. QED BY <1>2, <2>2, <3>1, <3>2 DEF Untouched
  <2>7. QED BY <2>3, <2>4, <2>5, <2>6 DEF DeviceInv
<1>5. CASE device[h] # "idle"
  <2>1. setup' = "abort" /\ UNCHANGED <<device, handling, dropped>> BY <1>5 DEF Open, Abort
  <2>2. pulled' /\ pulled
    <3>1. ~Untouched BY <1>2, <1>5 DEF Untouched
    <3>2. QED BY <1>1, <1>2, <3>1
  <2>3. DeviceTypes' BY <1>1, <1>2, <2>1 DEF DeviceTypes
  <2>4. Announced' /\ SurvivesPlugging' BY <2>1, <2>2 DEF Announced, SurvivesPlugging, Alive
  <2>5. QED BY <2>2, <2>3, <2>4 DEF DeviceInv
<1>6. QED BY <1>4, <1>5

LEMMA StartStep ==
    ASSUME UsbSizes, DeviceInv, StartReports
    PROVE  DeviceInv'
<1> DEFINE h == handling.at
<1>1. DeviceTypes /\ Announced /\ SurvivesPlugging /\ (~pulled => Untouched) BY DEF DeviceInv
<1>2. setup = "run" /\ handling.step = "start" /\ UNCHANGED <<host, kind, queue, dropped, pulled>>
  BY DEF StartReports, Abort, setupVars
<1>3. h \in Handle BY <1>1, <1>2 DEF DeviceTypes
<1>4. CASE device[h] = "open"
  <2>1. device' = [device EXCEPT ![h] = "started"] /\ handling' = Idle /\ setup' = setup
    BY <1>4 DEF StartReports, setupVars
  <2>2. /\ Idle.at = NoHandle /\ Idle.step = "receive"
        /\ Idle \in [at : Handle \union {NoHandle}, step : {"receive", "open", "start"}, kind : DeviceKind]
    BY KindsAre DEF Idle
  <2>3. device'[h] = "started" /\ \A x \in Handle : x # h => device'[x] = device[x]
    BY <1>1, <1>3, <2>1 DEF DeviceTypes
  <2>4. DeviceTypes' BY <1>1, <1>2, <2>1, <2>2 DEF DeviceTypes
  <2>5. Announced'
    <3> SUFFICES ASSUME NEW g \in Handle, device'[g] = "idle", kind'[g].proto # "none", setup' # "abort"
                 PROVE  g \in Range(queue') \/ g \in dropped'
      BY DEF Announced, Alive
    <3>1. g # h /\ device[g] = "idle" BY <2>3
    <3>2. QED BY <1>1, <1>2, <2>1, <3>1 DEF Announced, Alive
  <2>6. SurvivesPlugging' BY <1>1, <1>2, <2>1 DEF SurvivesPlugging
  <2>7. ASSUME ~pulled' PROVE Untouched'
    <3>1. Untouched BY <1>1, <1>2, <2>7
    <3>2. \A i \in 1..Len(queue) : queue[i] # h /\ queue[i] \in Handle /\ queue[i] # NoHandle
      BY <1>1, <3>1 DEF Untouched, DeviceTypes, UsbSizes
    <3>3. QED BY <1>2, <2>1, <2>2, <2>3, <3>1, <3>2 DEF Untouched
  <2>8. QED BY <2>4, <2>5, <2>6, <2>7 DEF DeviceInv
<1>5. CASE device[h] # "open"
  <2>1. setup' = "abort" /\ UNCHANGED <<device, handling>> BY <1>5 DEF StartReports, Abort
  <2>2. pulled' /\ pulled
    <3>1. ~Untouched BY <1>2, <1>5 DEF Untouched
    <3>2. QED BY <1>1, <1>2, <3>1
  <2>3. DeviceTypes' BY <1>1, <1>2, <2>1 DEF DeviceTypes
  <2>4. Announced' /\ SurvivesPlugging' BY <2>1, <2>2 DEF Announced, SurvivesPlugging, Alive
  <2>5. QED BY <2>2, <2>3, <2>4 DEF DeviceInv
<1>6. QED BY <1>4, <1>5

\* The steps of usb_setup and of the library.
LEMMA SetupStep ==
    ASSUME UsbSizes, DeviceInv, UNCHANGED deviceVars,
           Create \/ InstallHid \/ StartTask \/ InstallHost
    PROVE  DeviceInv'
<1>1. DeviceTypes /\ Announced /\ SurvivesPlugging /\ (~pulled => Untouched) BY DEF DeviceInv
<1>2. UNCHANGED <<device, kind, queue, handling, dropped, pulled>> BY DEF deviceVars
<1>3. /\ setup' \in {"start", "off", "wait", "hid", "run", "deaf", "abort"} /\ host' \in BOOLEAN
      /\ setup' = "abort" => (setup = "abort" \/ ~host) /\ host' = host
      /\ setup = "abort" => setup' = "abort"
  BY <1>1 DEF Create, InstallHid, StartTask, InstallHost, DeviceTypes
<1>4. DeviceTypes' BY <1>1, <1>2, <1>3 DEF DeviceTypes
<1>5. Announced' BY <1>1, <1>2, <1>3 DEF Announced, Alive
<1>6. SurvivesPlugging' BY <1>1, <1>2, <1>3 DEF SurvivesPlugging
<1>7. ~pulled' => Untouched' BY <1>1, <1>2 DEF Untouched
<1>8. QED BY <1>4, <1>5, <1>6, <1>7 DEF DeviceInv

\* A device that is plugged in is opened, or waits, or its event was dropped;
\* plugging devices in never restarts the chip; and the pointer moves as the
\* mouse did (hid_driver_cb, usb_event_task, hid_mouse_report_cb).
THEOREM DevicesSafe ==
    ASSUME UsbSizes
    PROVE  UsbSpec => []DevicesSound
<1>1. UsbInit => DeviceInv /\ MouseInv
  <2> SUFFICES ASSUME UsbInit PROVE DeviceInv /\ MouseInv OBVIOUS
  <2>1. /\ setup = "start" /\ host = FALSE /\ device = [h \in Handle |-> "gone"]
        /\ kind = [h \in Handle |-> Idle.kind] /\ queue = <<>> /\ handling = Idle /\ pulled = FALSE
    BY DEF UsbInit
  <2>2. /\ Idle.at = NoHandle /\ Idle.step = "receive"
        /\ Idle \in [at : Handle \union {NoHandle}, step : {"receive", "open", "start"}, kind : DeviceKind]
    BY KindsAre DEF Idle
  <2>3. DeviceTypes
    <3>1. queue \in Seq(Handle) /\ pulled \in BOOLEAN /\ host \in BOOLEAN
      <4>1. <<>> \in Seq(Handle) OBVIOUS
      <4>2. pulled = FALSE /\ host = FALSE /\ queue = <<>> BY <2>1
      <4>3. FALSE \in BOOLEAN OBVIOUS
      <4>4. queue \in Seq(Handle) BY <4>1, <4>2, Zenon
      <4>5. QED BY <4>2, <4>4
    <3>2. kind \in [Handle -> DeviceKind]
      <4>1. Idle.kind \in DeviceKind BY KindsAre
      <4>2. QED BY <2>1, <4>1
    <3>3. device \in [Handle -> {"gone", "idle", "open", "started"}] BY <2>1
    <3>4. QED BY <2>1, <2>2, <3>1, <3>2, <3>3 DEF DeviceTypes
  <2>4. Announced /\ SurvivesPlugging BY <2>1 DEF Announced, SurvivesPlugging
  <2>5. Untouched BY <2>1, <2>2 DEF Untouched
  <2>6. MouseInv BY DEF UsbInit, MouseInv, Signed
  <2>7. QED BY <2>3, <2>4, <2>5, <2>6 DEF DeviceInv
<1>2. DeviceInv /\ MouseInv /\ [UsbNext]_usbVars => DeviceInv' /\ MouseInv'
  <2> SUFFICES ASSUME DeviceInv, MouseInv, [UsbNext]_usbVars PROVE DeviceInv' /\ MouseInv' OBVIOUS
  <2> DEFINE Quiet == UNCHANGED <<setup, host, device, kind, queue, handling, dropped, pulled>>
  <2>1. ASSUME Quiet PROVE DeviceInv'
    BY <2>1 DEF DeviceInv, DeviceTypes, Announced, Alive, SurvivesPlugging, Untouched
  <2>2. ASSUME UNCHANGED mouse PROVE MouseInv' BY <2>2 DEF MouseInv
  <2>3. CASE Setup \/ Library
    <3>1. UNCHANGED deviceVars /\ UNCHANGED mouse /\ (Create \/ InstallHid \/ StartTask \/ InstallHost)
      BY <2>3 DEF Setup, Library
    <3>2. QED BY <2>2, <3>1, SetupStep
  <2>4. CASE SetKbd BY <2>1, <2>2, <2>4 DEF SetKbd, setupVars, deviceVars
  <2>5. CASE EventTask BY <2>2, <2>5, ReceiveStep, OpenStep, StartStep DEF EventTask
  <2>6. ASSUME NEW h \in Handle, Pull(h) PROVE DeviceInv' /\ MouseInv'
    BY <2>2, <2>6, PullStep DEF Pull
  <2>7. ASSUME NEW h \in Handle, NEW k \in Kinds, Plug(h, k) PROVE DeviceInv' /\ MouseInv'
    BY <2>2, <2>7, PlugStep DEF Plug
  <2>8. ASSUME NEW h, NEW keys, NEW mods, KeyReport(h, keys, mods) PROVE DeviceInv' /\ MouseInv'
    BY <2>1, <2>2, <2>8 DEF KeyReport, setupVars, deviceVars
  <2>9. ASSUME NEW h, NEW buttons \in Bytes, NEW dx \in Bytes, MouseReport(h, buttons, dx)
        PROVE  DeviceInv' /\ MouseInv'
    <3>1. Quiet BY <2>9 DEF MouseReport, setupVars, deviceVars
    <3>2. dx \in 0..255 BY DEF UsbSizes
    <3>3. MouseInv'
      <4>1. CASE kbd /\ MouseMoves(dx)
        <5>1. mouse' = [buttons |-> buttons % 8, dx |-> Signed(dx), sent |-> <<buttons, dx>>]
          BY <2>9, <4>1 DEF MouseReport
        <5>2. mouse'.dx = Signed(dx) /\ mouse'.sent[2] = dx BY <5>1
        <5>3. Signed(dx) \in -80..80 BY <3>2, <4>1 DEF MouseMoves, Signed
        <5>4. QED BY <3>2, <5>2, <5>3 DEF MouseInv
      <4>2. CASE ~(kbd /\ MouseMoves(dx)) BY <2>2, <2>9, <4>2 DEF MouseReport
      <4>3. QED BY <4>1, <4>2
    <3>4. QED BY <2>1, <3>1, <3>3
  <2>10. CASE UNCHANGED usbVars BY <2>1, <2>2, <2>10 DEF usbVars, setupVars, deviceVars
  <2>11. QED BY <2>3, <2>4, <2>5, <2>6, <2>7, <2>8, <2>9, <2>10 DEF UsbNext
<1>3. DeviceInv /\ MouseInv => DevicesSound
  <2> SUFFICES ASSUME DeviceInv, MouseInv PROVE DevicesSound OBVIOUS
  <2>1. PICK b \in 0..255 : b = mouse.sent[2] BY DEF MouseInv
  <2>2. Signed(b) - b \in {0, -256} BY DEF Signed
  <2>3. (Signed(b) - b) % 256 = 0 BY <2>2
  <2>4. MouseExact BY <2>1, <2>3 DEF MouseExact, MouseInv
  <2>5. QED BY <2>4 DEF DevicesSound, DeviceInv
<1>4. QED BY <1>1, <1>2, <1>3, PTL DEF UsbSpec

-----------------------------------------------------------------------------
(* The keys of the USB keyboards. *)

\* Keys and modifiers a keyboard may report.
Reported == Usage \union Range(Modifiers)
Down(keys) == {u \in Usage : key_found(keys, u)}
Codes(S) == {Code[u] : u \in S} \ {0}
\* The guest holds exactly the keys of S, each pressed once.
Holds(S) == [down |-> Codes(S), ok |-> TRUE]

KeyInv ==
    /\ prev_keys \in Reports /\ prev_mod \subseteq Range(Modifiers)
    /\ report = Down(prev_keys) \union prev_mod
    /\ held = Codes(report) /\ tidy = TRUE

\* What is down after n rounds: of the modifiers, those of the new report among
\* the bits compared and those of the old one among the rest; of the keys, those
\* of the new report at the places compared, and those of the old one that are
\* in the new one or at places still to come.
ModsAfter(n, mods) ==
    {u \in Range(Modifiers) : \E b \in 1..Len(Modifiers) :
        Modifiers[b] = u /\ (IF b <= n THEN u \in mods ELSE u \in prev_mod)}
KeysAfter(n, keys) ==
    {u \in Usage : \/ \E j \in 1..KeyMax : j <= n /\ keys[j] = u
                   \/ \E j \in 1..KeyMax : prev_keys[j] = u /\ (j > n \/ key_found(keys, u))}
DownAfter(n, keys, mods) ==
    ModsAfter(n, mods) \union KeysAfter(n - Len(Modifiers), keys)

LEMMA Counted ==
    ASSUME NEW m \in Nat, NEW P, 0 \in P, \A k \in 0 .. m - 1 : k \in P => k + 1 \in P
    PROVE  0 .. m \subseteq P
<1>1. SUFFICES ASSUME NEW x \in 0 .. m, x \notin P PROVE FALSE  OBVIOUS
<1> DEFINE W == {k \in Nat : k <= m /\ k \notin P}
<1>2. W # {} /\ W \subseteq Nat  BY <1>1
<1>3. PICK y \in W : \A z \in W : <<z, y>> \notin OpToRel(<, Nat)
  BY <1>2, NatLessThanWellFounded, WFMin
<1>4. y # 0 /\ y \in Nat /\ y <= m  BY <1>3
<1>5. y - 1 \in 0 .. m - 1 /\ (y - 1) + 1 = y  BY <1>4
<1>6. y - 1 \notin P  BY <1>3, <1>5
<1>7. y - 1 \in W  BY <1>4, <1>5, <1>6
<1>8. <<y - 1, y>> \in OpToRel(<, Nat)  BY <1>4, <1>5 DEF OpToRel
<1>9. QED  BY <1>3, <1>7, <1>8

\* A key event that means one adds its key to those the guest holds, or takes
\* it away (send_key_event).
LEMMA SendEvent ==
    ASSUME UsbSizes, NEW S, S \subseteq Reported, NEW u \in Reported
    PROVE  /\ u \notin S => send_key_event(Holds(S), Event(u, TRUE)) = Holds(S \union {u})
           /\ u \in S => send_key_event(Holds(S), Event(u, FALSE)) = Holds(S \ {u})
<1>1. \A v \in Reported : Code[v] = Code[u] => v = u \/ Code[u] = 0  BY DEF UsbSizes, Reported
<1>2. /\ Event(u, TRUE).usage = u /\ Event(u, TRUE).press = TRUE
      /\ Event(u, FALSE).usage = u /\ Event(u, FALSE).press = FALSE
  BY DEF Event
<1>3. Holds(S).down = Codes(S) /\ Holds(S).ok = TRUE  BY DEF Holds
<1>4. CASE Code[u] = 0
  <2>1. Codes(S \union {u}) = Codes(S) /\ Codes(S \ {u}) = Codes(S)  BY <1>4 DEF Codes
  <2>2. QED  BY <1>2, <1>4, <2>1 DEF send_key_event, Holds
<1>5. CASE Code[u] # 0
  <2>1. ASSUME u \notin S
        PROVE  Code[u] \notin Codes(S) /\ Codes(S \union {u}) = Codes(S) \union {Code[u]}
    BY <1>1, <1>5, <2>1 DEF Codes
  <2>2. ASSUME u \in S
        PROVE  Code[u] \in Codes(S) /\ Codes(S \ {u}) = Codes(S) \ {Code[u]}
    BY <1>1, <1>5, <2>2 DEF Codes
  <2>3. send_key_event(Holds(S), Event(u, TRUE))
          = [down |-> Codes(S) \union {Code[u]}, ok |-> TRUE /\ (TRUE # (Code[u] \in Codes(S)))]
    BY <1>2, <1>3, <1>5 DEF send_key_event
  <2>4. send_key_event(Holds(S), Event(u, FALSE))
          = [down |-> Codes(S) \ {Code[u]}, ok |-> TRUE /\ (FALSE # (Code[u] \in Codes(S)))]
    BY <1>2, <1>3, <1>5 DEF send_key_event
  <2>5. QED  BY <2>1, <2>2, <2>3, <2>4 DEF Holds
<1>6. QED  BY <1>4, <1>5

\* A report has every key in one place.
LEMMA ReportIs ==
    ASSUME UsbSizes, NEW keys \in Reports
    PROVE  /\ DOMAIN keys = 1..KeyMax
           /\ \A i, j \in 1..KeyMax : keys[i] = keys[j] /\ Key(keys[i]) => i = j
BY DEF Reports, UsbSizes, Key

LEMMA BitRound ==
    ASSUME UsbSizes, KeyInv, NEW keys \in Reports, NEW mods \in SUBSET Range(Modifiers),
           NEW n \in 1..Len(Modifiers)
    PROVE  CompareBit(Holds(DownAfter(n - 1, keys, mods)), Modifiers[n], mods)
             = Holds(DownAfter(n, keys, mods))
<1> DEFINE S == DownAfter(n - 1, keys, mods)
<1> DEFINE T == DownAfter(n, keys, mods)
<1> DEFINE u == Modifiers[n]
<1>1. Len(Modifiers) \in Nat /\ DOMAIN Modifiers = 1..Len(Modifiers)
  <2>1. Modifiers \in Seq(Range(Modifiers))  BY DEF UsbSizes
  <2>2. QED  BY <2>1
<1>2. \A b \in 1..Len(Modifiers) : Modifiers[b] = u => b = n  BY <1>1 DEF UsbSizes, IsInjective
<1>3. u \in Range(Modifiers) /\ u \notin Usage  BY <1>1 DEF UsbSizes, Range
<1>4. S \subseteq Reported /\ u \in Reported  BY <1>3 DEF DownAfter, ModsAfter, KeysAfter, Reported
<1>5. KeysAfter(n - 1 - Len(Modifiers), keys) = KeysAfter(n - Len(Modifiers), keys)
  BY <1>1 DEF KeysAfter, UsbSizes
<1>6. ModsAfter(n, mods) \ {u} = ModsAfter(n - 1, mods) \ {u}  BY <1>1, <1>2 DEF ModsAfter
<1>7. (u \in ModsAfter(n - 1, mods) <=> u \in prev_mod) /\ (u \in ModsAfter(n, mods) <=> u \in mods)
  BY <1>1, <1>2, <1>3 DEF ModsAfter
<1>8. u \notin KeysAfter(n - Len(Modifiers), keys)  BY <1>3 DEF KeysAfter
<1>9. (u \in S <=> u \in prev_mod) /\ (u \in T <=> u \in mods) /\ T \ {u} = S \ {u}
  BY <1>5, <1>6, <1>7, <1>8 DEF DownAfter
<1> HIDE DEF S, T, u
<1>10. CASE u \in mods /\ u \notin prev_mod
  <2>1. T = S \union {u}  BY <1>9, <1>10
  <2>2. send_key_event(Holds(S), Event(u, TRUE)) = Holds(T)  BY <1>4, <1>9, <1>10, <2>1, SendEvent
  <2>3. (u \in mods) = TRUE  BY <1>10
  <2>4. CompareBit(Holds(S), u, mods) = send_key_event(Holds(S), Event(u, TRUE))
    BY <1>10, <2>3 DEF CompareBit
  <2>5. QED  BY <2>2, <2>4 DEF S, T, u
<1>11. CASE u \notin mods /\ u \in prev_mod
  <2>1. T = S \ {u}  BY <1>9, <1>11
  <2>2. send_key_event(Holds(S), Event(u, FALSE)) = Holds(T)  BY <1>4, <1>9, <1>11, <2>1, SendEvent
  <2>3. (u \in mods) = FALSE  BY <1>11
  <2>4. CompareBit(Holds(S), u, mods) = send_key_event(Holds(S), Event(u, FALSE))
    BY <1>11, <2>3 DEF CompareBit
  <2>5. QED  BY <2>2, <2>4 DEF S, T, u
<1>12. CASE (u \in mods) <=> (u \in prev_mod)
  <2>1. T = S  BY <1>9, <1>12
  <2>2. CompareBit(Holds(S), u, mods) = Holds(S)  BY <1>12 DEF CompareBit
  <2>3. QED  BY <2>1, <2>2 DEF S, T, u
<1>13. QED  BY <1>10, <1>11, <1>12

LEMMA PlaceRound ==
    ASSUME UsbSizes, KeyInv, NEW keys \in Reports, NEW mods \in SUBSET Range(Modifiers),
           NEW i \in 1..KeyMax
    PROVE  ComparePlace(Holds(DownAfter(Len(Modifiers) + i - 1, keys, mods)), i, keys)
             = Holds(DownAfter(Len(Modifiers) + i, keys, mods))
<1> DEFINE m == Len(Modifiers)
<1> DEFINE M == ModsAfter(m + i, mods)
<1> DEFINE K == KeysAfter(i - 1, keys)
<1> DEFINE L == KeysAfter(i, keys)
<1> DEFINE old == prev_keys[i]
<1> DEFINE new == keys[i]
<1>1. m \in Nat
  <2>1. Modifiers \in Seq(Range(Modifiers))  BY DEF UsbSizes
  <2>2. QED  BY <2>1
<1>2. i \in Nat /\ i >= 1 /\ m + i - m = i /\ m + i - 1 - m = i - 1  BY <1>1
<1>3. ModsAfter(m + i - 1, mods) = M  BY <1>1 DEF ModsAfter
<1>4. DownAfter(m + i - 1, keys, mods) = M \union K /\ DownAfter(m + i, keys, mods) = M \union L
  BY <1>2, <1>3 DEF DownAfter
<1>5. M \subseteq Range(Modifiers) /\ M \cap Usage = {} /\ K \subseteq Usage /\ L \subseteq Usage
  BY DEF ModsAfter, KeysAfter, UsbSizes
<1>6. /\ \A a, b \in 1..KeyMax : keys[a] = keys[b] /\ Key(keys[a]) => a = b
      /\ \A a, b \in 1..KeyMax : prev_keys[a] = prev_keys[b] /\ Key(prev_keys[a]) => a = b
  BY ReportIs DEF KeyInv
<1> DEFINE Up == IF Key(old) /\ ~key_found(keys, old) THEN K \ {old} ELSE K
<1>7. Key(old) => old \in K  BY <1>2 DEF Key, KeysAfter
<1>8. Key(new) /\ ~key_found(prev_keys, new) => new \notin Up
  <2> SUFFICES ASSUME Key(new), ~key_found(prev_keys, new) PROVE new \notin K  OBVIOUS
  <2>1. \A j \in 1..KeyMax : j <= i - 1 => keys[j] # new  BY <1>2, <1>6
  <2>2. \A j \in 1..KeyMax : prev_keys[j] # new  BY DEF key_found
  <2>3. QED  BY <2>1, <2>2 DEF KeysAfter
<1>9. L = IF Key(new) /\ ~key_found(prev_keys, new) THEN Up \union {new} ELSE Up
  <2> DEFINE R == IF Key(new) /\ ~key_found(prev_keys, new) THEN Up \union {new} ELSE Up
  <2>1. ASSUME NEW v \in L PROVE v \in R
    <3>1. v \in Usage  BY <1>5
    <3>2. CASE \E j \in 1..KeyMax : j <= i - 1 /\ keys[j] = v
      <4>1. v \in K /\ key_found(keys, v)  BY <3>1, <3>2 DEF KeysAfter, key_found
      <4>2. QED  BY <4>1
    <3>3. CASE v = new
      <4>1. Key(new) /\ key_found(keys, v)  BY <3>1, <3>3 DEF Key, key_found
      <4>2. CASE key_found(prev_keys, new)
        <5>1. v \in K  BY <3>1, <3>3, <4>1, <4>2 DEF KeysAfter, key_found
        <5>2. QED  BY <4>1, <4>2, <5>1
      <4>3. CASE ~key_found(prev_keys, new)  BY <3>3, <4>1, <4>3
      <4>4. QED  BY <4>2, <4>3
    <3>4. CASE \E j \in 1..KeyMax : prev_keys[j] = v /\ (j > i \/ key_found(keys, v))
      <4>1. PICK j \in 1..KeyMax : prev_keys[j] = v /\ (j > i \/ key_found(keys, v))  BY <3>4
      <4>2. v \in K  BY <1>2, <3>1, <4>1 DEF KeysAfter
      <4>3. v = old => key_found(keys, v)
        <5>1. v = old => j = i  BY <1>6, <3>1, <4>1 DEF Key
        <5>2. QED  BY <1>2, <4>1, <5>1
      <4>4. QED  BY <4>2, <4>3
    <3>5. QED
      <4>1. \A j \in 1..KeyMax : j <= i => j <= i - 1 \/ j = i  BY <1>2
      <4>2. QED  BY <3>2, <3>3, <3>4, <4>1 DEF KeysAfter
  <2>2. ASSUME NEW v \in R PROVE v \in L
    <3>1. v \in Usage  BY <1>5 DEF Key
    <3>2. CASE v = new  BY <1>2, <3>1, <3>2 DEF KeysAfter
    <3>3. CASE v \in Up
      <4>1. v \in K /\ ~(v = old /\ Key(old) /\ ~key_found(keys, old))  BY <3>3
      <4>2. CASE \E j \in 1..KeyMax : j <= i - 1 /\ keys[j] = v  BY <1>2, <3>1, <4>2 DEF KeysAfter
      <4>3. CASE \E j \in 1..KeyMax : prev_keys[j] = v /\ (j > i - 1 \/ key_found(keys, v))
        <5>1. PICK j \in 1..KeyMax : prev_keys[j] = v /\ (j > i - 1 \/ key_found(keys, v))  BY <4>3
        <5>2. CASE j = i
          <6>1. v = old /\ Key(old)  BY <3>1, <5>1, <5>2 DEF Key
          <6>2. key_found(keys, v)  BY <4>1, <6>1
          <6>3. QED  BY <3>1, <5>1, <6>2 DEF KeysAfter
        <5>3. CASE j # i
          <6>1. j > i - 1 => j > i  BY <1>2, <5>3
          <6>2. QED  BY <3>1, <5>1, <6>1 DEF KeysAfter
        <5>4. QED  BY <5>2, <5>3
      <4>4. QED  BY <4>1, <4>2, <4>3 DEF KeysAfter
    <3>4. QED  BY <3>2, <3>3
  <2>3. QED  BY <2>1, <2>2
<1>10. M \union K \subseteq Reported /\ M \union Up \subseteq Reported /\ Usage \subseteq Reported
  BY <1>5 DEF Reported
<1>11. Key(old) => old \in Reported /\ old \notin M  BY <1>5, <1>10 DEF Key
<1>12. Key(new) => new \in Reported /\ new \notin M  BY <1>5, <1>10 DEF Key
<1> DEFINE g == Holds(M \union K)
<1> DEFINE up == IF Key(old) /\ ~key_found(keys, old) THEN send_key_event(g, Event(old, FALSE)) ELSE g
<1>13. up = Holds(M \union Up)
  <2>1. CASE Key(old) /\ ~key_found(keys, old)
    <3> HIDE DEF M, K, old
    <3>1. send_key_event(g, Event(old, FALSE)) = Holds((M \union K) \ {old})
      BY <1>7, <1>10, <1>11, <2>1, SendEvent
    <3>2. (M \union K) \ {old} = M \union (K \ {old})  BY <1>11, <2>1
    <3>3. QED  BY <2>1, <3>1, <3>2
  <2>2. CASE ~(Key(old) /\ ~key_found(keys, old))  BY <2>2
  <2>3. QED  BY <2>1, <2>2
<1>14. ComparePlace(g, i, keys)
         = IF Key(new) /\ ~key_found(prev_keys, new) THEN send_key_event(up, Event(new, TRUE)) ELSE up
  BY DEF ComparePlace
<1>15. ComparePlace(g, i, keys) = Holds(M \union L)
  <2> HIDE DEF M, K, L, old, new, up, Up, g
  <2>1. CASE Key(new) /\ ~key_found(prev_keys, new)
    <3>1. new \notin M \union Up  BY <1>8, <1>12, <2>1
    <3>2. send_key_event(Holds(M \union Up), Event(new, TRUE)) = Holds((M \union Up) \union {new})
      BY <1>10, <1>12, <2>1, <3>1, SendEvent
    <3>3. (M \union Up) \union {new} = M \union L  BY <1>9, <2>1
    <3>4. QED  BY <1>13, <1>14, <2>1, <3>2, <3>3
  <2>2. CASE ~(Key(new) /\ ~key_found(prev_keys, new))  BY <1>9, <1>13, <1>14, <2>2
  <2>3. QED  BY <2>1, <2>2
<1>16. QED  BY <1>4, <1>15

\* Both loops together: the guest holds what the new report says
\* (hid_keyboard_report_cb).
LEMMA ComparedIs ==
    ASSUME UsbSizes, KeyInv, NEW keys \in Reports, NEW mods \in SUBSET Range(Modifiers)
    PROVE  Compared(keys, mods) = Holds(Down(keys) \union mods)
<1> DEFINE m == Len(Modifiers)
<1> DEFINE N == m + KeyMax
<1> DEFINE A(n) == Holds(DownAfter(n, keys, mods))
<1> DEFINE Is(f) == f = [n \in 0..N |->
                           IF n = 0 THEN [down |-> held, ok |-> tidy] ELSE Round(f[n - 1], n, keys, mods)]
<1>1. m \in Nat /\ DOMAIN Modifiers = 1..m /\ KeyMax \in Nat /\ N \in Nat
  <2>1. Modifiers \in Seq(Range(Modifiers)) /\ KeyMax \in Nat  BY DEF UsbSizes
  <2>2. QED  BY <2>1
<1>2. A(0) = [down |-> held, ok |-> tidy]
  <2>1. ModsAfter(0, mods) = prev_mod
    <3>1. \A b \in 1..m : ~(b <= 0)  BY <1>1
    <3>2. \A u \in Range(Modifiers) : \E b \in 1..m : Modifiers[b] = u  BY <1>1 DEF Range
    <3>3. QED  BY <3>1, <3>2 DEF ModsAfter, KeyInv
  <2>2. KeysAfter(0 - m, keys) = Down(prev_keys)
    <3>1. \A j \in 1..KeyMax : ~(j <= 0 - m) /\ j > 0 - m  BY <1>1
    <3>2. QED  BY <3>1 DEF KeysAfter, Down, key_found
  <2>3. DownAfter(0, keys, mods) = report  BY <2>1, <2>2 DEF DownAfter, KeyInv
  <2>4. QED  BY <2>3 DEF Holds, KeyInv
<1>3. ASSUME NEW n \in 1..N PROVE A(n) = Round(A(n - 1), n, keys, mods)
  <2>1. CASE n <= m
    <3>1. n \in 1..m  BY <1>1, <2>1
    <3>2. CompareBit(A(n - 1), Modifiers[n], mods) = A(n)  BY <3>1, BitRound
    <3>3. QED  BY <2>1, <3>2 DEF Round
  <2>2. CASE ~(n <= m)
    <3>1. n - m \in 1..KeyMax /\ m + (n - m) = n /\ m + (n - m) - 1 = n - 1  BY <1>1, <2>2
    <3> DEFINE i == n - m
    <3>2. ComparePlace(A(m + i - 1), i, keys) = A(m + i)
      <4> HIDE DEF i
      <4>1. i \in 1..KeyMax  BY <3>1 DEF i
      <4>2. QED  BY <4>1, PlaceRound
    <3>3. ComparePlace(A(n - 1), n - m, keys) = A(n)  BY <3>1, <3>2
    <3>4. QED  BY <2>2, <3>3 DEF Round
  <2>3. QED  BY <2>1, <2>2
<1>4. DownAfter(N, keys, mods) = Down(keys) \union mods
  <2>1. ModsAfter(N, mods) = mods
    <3>1. \A b \in 1..m : b <= N  BY <1>1
    <3>2. \A u \in Range(Modifiers) : \E b \in 1..m : Modifiers[b] = u  BY <1>1 DEF Range
    <3>3. QED  BY <3>1, <3>2 DEF ModsAfter
  <2>2. KeysAfter(KeyMax, keys) = Down(keys)
    <3>1. \A j \in 1..KeyMax : j <= KeyMax /\ ~(j > KeyMax)  BY <1>1
    <3>2. QED  BY <3>1 DEF KeysAfter, Down, key_found
  <2>3. N - m = KeyMax  BY <1>1
  <2>4. QED  BY <2>1, <2>2, <2>3 DEF DownAfter
<1> HIDE DEF A
<1>5. Is([n \in 0..N |-> A(n)])
  <2> DEFINE f == [n \in 0..N |-> A(n)]
  <2>1. ASSUME NEW n \in 0..N
        PROVE  f[n] = IF n = 0 THEN [down |-> held, ok |-> tidy] ELSE Round(f[n - 1], n, keys, mods)
    <3>1. CASE n = 0  BY <1>2, <3>1
    <3>2. CASE n # 0
      <4>1. n \in 1..N /\ n - 1 \in 0..N  BY <1>1, <3>2
      <4>2. f[n - 1] = A(n - 1) /\ f[n] = A(n)  BY <4>1
      <4>3. QED  BY <1>3, <3>2, <4>1, <4>2
    <3>3. QED  BY <3>1, <3>2
  <2>2. QED  BY <2>1
<1> DEFINE g == CHOOSE f : Is(f)
<1>6. Is(g)  BY <1>5
<1>7. Compared(keys, mods) = g[N]  BY DEF Compared, Rounds
<1>8. g[N] = A(N)
  <2> HIDE DEF g
  <2> DEFINE P == {n \in Nat : n <= N => g[n] = A(n)}
  <2>1. 0 \in P  BY <1>1, <1>2, <1>6
  <2>2. ASSUME NEW n \in 0 .. N - 1, n \in P PROVE n + 1 \in P
    <3>1. n + 1 \in 1..N /\ n + 1 - 1 = n /\ n + 1 \in 0..N /\ n <= N  BY <1>1
    <3>2. g[n] = A(n)  BY <2>2, <3>1
    <3>3. g[n + 1] = Round(g[n + 1 - 1], n + 1, keys, mods)  BY <1>6, <3>1
    <3>4. QED  BY <1>3, <3>1, <3>2, <3>3
  <2> HIDE DEF P
  <2>3. 0..N \subseteq P  BY <1>1, <2>1, <2>2, Counted
  <2>4. N \in 0..N  BY <1>1
  <2>5. QED  BY <2>3, <2>4 DEF P
<1>9. QED  BY <1>4, <1>7, <1>8 DEF A

\* The guest holds exactly the keys of the last report, whichever keyboard sent
\* it, wherever in it they stand and whether or not it says that too many are
\* down; and no key goes down, or up, twice (hid_keyboard_report_cb).
THEOREM KeysSafe ==
    ASSUME UsbSizes
    PROVE  UsbSpec => []KeysExact
<1>1. UsbInit => KeyInv
  <2> SUFFICES ASSUME UsbInit PROVE KeyInv  OBVIOUS
  <2>1. prev_keys = [i \in 1..KeyMax |-> "none"] /\ prev_mod = {} /\ report = {} /\ held = {} /\ tidy = TRUE
    BY DEF UsbInit
  <2>2. prev_keys \in Reports  BY <2>1 DEF Reports
  <2>3. Down(prev_keys) = {}  BY <2>1 DEF Down, key_found, UsbSizes
  <2>4. QED  BY <2>1, <2>2, <2>3 DEF KeyInv, Codes
<1>2. KeyInv /\ [UsbNext]_usbVars => KeyInv'
  <2> SUFFICES ASSUME KeyInv, [UsbNext]_usbVars PROVE KeyInv'  OBVIOUS
  <2>1. ASSUME UNCHANGED keyVars PROVE KeyInv'
    BY <2>1 DEF KeyInv, keyVars, Down, key_found, Codes, Reports
  <2>2. ASSUME NEW h, NEW keys \in Reports, NEW mods \in SUBSET Range(Modifiers), KeyReport(h, keys, mods)
        PROVE  KeyInv'
    <3>1. CASE kbd /\ kind[h] = Kind("keyboard", TRUE)
      <4>1. /\ held' = Compared(keys, mods).down /\ tidy' = Compared(keys, mods).ok
            /\ prev_keys' = keys /\ prev_mod' = mods
            /\ report' = {u \in Usage : key_found(keys, u)} \union mods
        BY <2>2, <3>1 DEF KeyReport
      <4>2. Compared(keys, mods) = Holds(Down(keys) \union mods)  BY ComparedIs
      <4>3. held' = Codes(Down(keys) \union mods) /\ tidy' = TRUE  BY <4>1, <4>2 DEF Holds
      <4>4. report' = Down(keys) \union mods /\ Down(prev_keys)' = Down(keys)  BY <4>1 DEF Down, key_found
      <4>5. prev_keys' \in Reports' /\ prev_mod' \subseteq Range(Modifiers)  BY <4>1 DEF Reports
      <4>6. Codes(report)' = Codes(Down(keys) \union mods)  BY <4>4 DEF Codes
      <4>7. QED  BY <4>1, <4>3, <4>4, <4>5, <4>6 DEF KeyInv
    <3>2. CASE ~(kbd /\ kind[h] = Kind("keyboard", TRUE))  BY <2>1, <2>2, <3>2 DEF KeyReport
    <3>3. QED  BY <3>1, <3>2
  <2>3. CASE Setup \/ Library \/ SetKbd \/ EventTask  BY <2>1, <2>3 DEF Setup, Library, SetKbd, EventTask
  <2>4. ASSUME NEW h \in Handle, NEW k \in Kinds, Pull(h) \/ Plug(h, k) PROVE KeyInv'
    BY <2>1, <2>4 DEF Pull, Plug
  <2>5. ASSUME NEW h \in Handle, Pull(h) PROVE KeyInv'  BY <2>1, <2>5 DEF Pull
  <2>6. ASSUME NEW h, NEW buttons \in Bytes, NEW dx \in Bytes, MouseReport(h, buttons, dx) PROVE KeyInv'
    BY <2>1, <2>6 DEF MouseReport
  <2>7. CASE UNCHANGED usbVars  BY <2>1, <2>7 DEF usbVars, keyVars
  <2>8. QED  BY <2>2, <2>3, <2>4, <2>5, <2>6, <2>7 DEF UsbNext
<1>3. KeyInv => KeysExact  BY DEF KeyInv, KeysExact, Codes
<1>4. QED  BY <1>1, <1>2, <1>3, PTL DEF UsbSpec

-----------------------------------------------------------------------------
(* The start of the tasks, and the copy of the boot sector. *)

\* What the place of i386_task says of the rest.
I386Inv ==
  /\ at["i386"] \in {"none", "logo"} \/ Bit("LOGO_READY")
  /\ at["i386"] \in {"load_bios", "copy_bios", "load_vga_bios", "copy_vga_bios", "ready"} => pc
  /\ at["i386"] \in {"copy_bios", "load_vga_bios"} => maps >= 1
  /\ at["i386"] \in {"copy_vga_bios", "ready"} => maps >= 2
  /\ at["i386"] \in {"loop", "step", "signal", "turn"} => Bit("PC_READY")

\* What the bits say, and which bits the other tasks have waited for.
BitsInv ==
  /\ Bit("PC_READY") => pc /\ maps >= 2 /\ Bit("LOGO_READY")
  /\ Bit("PC_READY") /\ Copying => maps > 2
  /\ Bit("BOOT_SECTOR") => Bit("PC_READY") /\ seen
  /\ at["i2s"] = "mix" => Bit("PC_READY")
  /\ at["vga"] \in {"delay", "step"} => Bit("BOOT_SECTOR")

IInv == TypeOK /\ I386Inv /\ BitsInv

\* Until a reset is asked for, i386_task runs the guest from the moment the bits
\* say that the PC is ready, and never loads a ROM again.
LoadedOnce ==
  /\ ~reset
  /\ at["app"] \in {"start", "config", "create_i386"} => at["i386"] = "none"
  /\ Bit("PC_READY") => at["i386"] \in {"loop", "step", "signal", "turn", "gone"}

-------------------------------------------------------------------------------

\* Task t has gone to a place of its own, and the others are where they were.
Goes(t, to) ==
  /\ at' \in [Tasks -> Places]
  /\ at'[t] = to
  /\ \A u \in Tasks \ {t} : at'[u] = at[u]

\* What a step of one task does to the places of all.
LEMMA MoveAt ==
  ASSUME at \in [Tasks -> Places], NEW t \in Tasks, NEW from, NEW to \in Places,
         Move(t, from, to)
  PROVE  Goes(t, to) /\ at["app"] # "panic" /\ at[t] = from
BY DEF Move, Goes

\* A panic stops every task at once.
LEMMA PanicAt ==
  ASSUME at \in [Tasks -> Places], Panic
  PROVE  Goes("app", "panic") /\ UNCHANGED <<ev, pc, maps, seen, reset>>
BY DEF Panic, Goes, Tasks, Places, AppPlaces

\* The places at boot.
LEMMA AtBootPlaces ==
  /\ AtBoot \in [Tasks -> Places]
  /\ AtBoot["app"] = "start" /\ AtBoot["i386"] = "none"
  /\ AtBoot["i2s"] = "none" /\ AtBoot["vga"] = "none"
BY DEF AtBoot, Tasks, Places, AppPlaces, I386Places, I2sPlaces, VgaPlaces

\* The chip comes out of reset with the invariant.
LEMMA InitInv == Init => IInv
<1> SUFFICES ASSUME Init PROVE IInv
  OBVIOUS
<1>1. at \in [Tasks -> Places] /\ at["app"] \in AppPlaces /\ at["i386"] \in I386Places
      /\ at["i2s"] \in I2sPlaces /\ at["vga"] \in VgaPlaces
  BY AtBootPlaces DEF Init, AppPlaces, I386Places, I2sPlaces, VgaPlaces
<1>2. pc \in BOOLEAN /\ seen \in BOOLEAN /\ reset \in BOOLEAN
  BY DEF Init
<1>3. ev \in SUBSET Events /\ maps \in 0 .. MmuMaps
  BY StartupAssumption DEF Init
<1>4. TypeOK
  BY <1>1, <1>2, <1>3 DEF TypeOK
<1>5. I386Inv /\ BitsInv
  BY AtBootPlaces DEF Init, I386Inv, BitsInv, Bit, Copying
<1> QED BY <1>4, <1>5 DEF IInv

\* A step of any task, and a restart, keep the invariant.
LEMMA NextInv == IInv /\ [Next]_vars => IInv'
<1> SUFFICES ASSUME IInv, [Next]_vars PROVE IInv'
  OBVIOUS
<1> USE DEF IInv
<1>0. ASSUME Goes("app", "panic"), UNCHANGED <<ev, pc, maps, seen, reset>> PROVE IInv'
  BY <1>0 DEF TypeOK, I386Inv, BitsInv, Bit, Copying, Goes, Tasks, AppPlaces
<1>1. CASE App
  <2>1. CASE AppI2s
    <3>1. at' \in [Tasks -> Places] /\ at'["app"] \in AppPlaces /\ at'["i2s"] = "logo"
          /\ \A t \in Tasks \ {"app", "i2s"} : at'[t] = at[t]
      BY <2>1 DEF AppI2s, TypeOK, Tasks, Places, AppPlaces, I2sPlaces
    <3>2. TypeOK'
      BY <2>1, <3>1 DEF AppI2s, TypeOK, Tasks, I2sPlaces
    <3>3. I386Inv' /\ BitsInv'
      BY <2>1, <3>1 DEF AppI2s, TypeOK, I386Inv, BitsInv, Bit, Copying, Tasks
    <3> QED BY <3>2, <3>3
  <2>2. CASE AppI386
    <3>1. at' \in [Tasks -> Places] /\ at'["app"] \in AppPlaces /\ at'["i386"] = "logo"
          /\ \A t \in Tasks \ {"app", "i386"} : at'[t] = at[t]
      BY <2>2 DEF AppI386, TypeOK, Tasks, Places, AppPlaces, I386Places
    <3>2. TypeOK'
      BY <2>2, <3>1 DEF AppI386, TypeOK, Tasks, I386Places
    <3>3. I386Inv' /\ BitsInv'
      BY <2>2, <3>1 DEF AppI386, TypeOK, I386Inv, BitsInv, Bit, Copying, Tasks
    <3> QED BY <3>2, <3>3
  <2>3. CASE AppVga
    <3>1. at' \in [Tasks -> Places] /\ at'["app"] \in AppPlaces /\ at'["vga"] = "logo"
          /\ \A t \in Tasks \ {"app", "vga"} : at'[t] = at[t]
      BY <2>3 DEF AppVga, TypeOK, Tasks, Places, AppPlaces, VgaPlaces
    <3>2. TypeOK'
      BY <2>3, <3>1 DEF AppVga, TypeOK, Tasks, VgaPlaces
    <3>3. I386Inv' /\ BitsInv'
      BY <2>3, <3>1 DEF AppVga, TypeOK, I386Inv, BitsInv, Bit, Copying, Tasks
    <3> QED BY <3>2, <3>3
  <2>4. CASE AppConfig
    <3>1. Goes("app", "create_i386") /\ at["app"] = "config"
      BY <2>4, MoveAt DEF AppConfig, TypeOK, Tasks, Places, AppPlaces
    <3>2. TypeOK'
      BY <2>4, <3>1 DEF AppConfig, TypeOK, Goes, Tasks, AppPlaces
    <3>3. I386Inv' /\ BitsInv'
      BY <2>4, <3>1 DEF AppConfig, TypeOK, I386Inv, BitsInv, Bit, Copying, Goes, Tasks
    <3> QED BY <3>2, <3>3
  <2> QED BY <1>1, <2>1, <2>2, <2>3, <2>4 DEF App
<1>2. CASE I386
  <2>1. CASE I386Start
    <3>1. Goes("i386", "parse") /\ at["i386"] = "logo"
      BY <2>1, MoveAt DEF I386Start, TypeOK, Tasks, Places, I386Places
    <3>2. TypeOK'
      BY <2>1, <3>1 DEF I386Start, TypeOK, Goes, Tasks, I386Places
    <3>3. I386Inv' /\ BitsInv'
      BY <2>1, <3>1 DEF I386Start, TypeOK, I386Inv, BitsInv, Bit, Copying, Goes, Tasks
    <3> QED BY <3>2, <3>3
  <2>2. CASE I386Publish
    <3>1. Goes("i386", "load_bios") /\ at["i386"] = "parse"
      BY <2>2, MoveAt DEF I386Publish, TypeOK, Tasks, Places, I386Places
    <3>2. TypeOK'
      BY <2>2, <3>1 DEF I386Publish, TypeOK, Goes, Tasks, I386Places
    <3>3. I386Inv' /\ BitsInv'
      BY <2>2, <3>1 DEF I386Publish, TypeOK, I386Inv, BitsInv, Bit, Copying, Goes, Tasks
    <3> QED BY <3>2, <3>3
  <2>3. CASE I386MapBios
    <3>1. Goes("i386", "copy_bios") /\ at["i386"] = "load_bios"
      BY <2>3, MoveAt DEF I386MapBios, MapRom, TypeOK, Tasks, Places, I386Places
    <3>2. TypeOK'
      BY <2>3, <3>1, StartupAssumption DEF I386MapBios, MapRom, TypeOK, Goes, Tasks, I386Places
    <3>3. I386Inv' /\ BitsInv'
      BY <2>3, <3>1 DEF I386MapBios, MapRom, TypeOK, I386Inv, BitsInv, Bit, Copying, Goes, Tasks
    <3> QED BY <3>2, <3>3
  <2>4. CASE I386CopyBios
    <3>1. Goes("i386", "load_vga_bios") /\ at["i386"] = "copy_bios"
      BY <2>4, MoveAt DEF I386CopyBios, TypeOK, Tasks, Places, I386Places
    <3>2. TypeOK'
      BY <2>4, <3>1 DEF I386CopyBios, TypeOK, Goes, Tasks, I386Places
    <3>3. I386Inv' /\ BitsInv'
      BY <2>4, <3>1 DEF I386CopyBios, TypeOK, I386Inv, BitsInv, Bit, Copying, Goes, Tasks
    <3> QED BY <3>2, <3>3
  <2>5. CASE I386MapVgaBios
    <3>1. Goes("i386", "copy_vga_bios") /\ at["i386"] = "load_vga_bios"
      BY <2>5, MoveAt DEF I386MapVgaBios, MapRom, TypeOK, Tasks, Places, I386Places
    <3>2. TypeOK'
      BY <2>5, <3>1, StartupAssumption DEF I386MapVgaBios, MapRom, TypeOK, Goes, Tasks, I386Places
    <3>3. I386Inv' /\ BitsInv'
      BY <2>5, <3>1 DEF I386MapVgaBios, MapRom, TypeOK, I386Inv, BitsInv, Bit, Copying, Goes, Tasks
    <3> QED BY <3>2, <3>3
  <2>6. CASE I386Loaded
    <3>1. PICK to \in {"ready", "step"} :
            Goes("i386", to) /\ at["i386"] = "copy_vga_bios" /\ (to = "step" => Bit("PC_READY"))
              /\ (to = "ready" => ~Bit("PC_READY"))
      BY <2>6, MoveAt DEF I386Loaded, TypeOK, Tasks, Places, I386Places
    <3>2. TypeOK'
      BY <2>6, <3>1 DEF I386Loaded, TypeOK, Goes, Tasks, I386Places
    <3>3. I386Inv' /\ BitsInv'
      BY <2>6, <3>1 DEF I386Loaded, TypeOK, I386Inv, BitsInv, Bit, Copying, Goes, Tasks
    <3> QED BY <3>2, <3>3
  <2>7. CASE I386Ready
    <3>1. Goes("i386", "loop") /\ at["i386"] = "ready"
      BY <2>7, MoveAt DEF I386Ready, TypeOK, Tasks, Places, I386Places
    <3>2. TypeOK'
      BY <2>7, <3>1 DEF I386Ready, TypeOK, Goes, Tasks, I386Places, SetBit, Events
    <3>3. I386Inv' /\ BitsInv'
      BY <2>7, <3>1 DEF I386Ready, TypeOK, I386Inv, BitsInv, Bit, Copying, Goes, Tasks, SetBit
    <3> QED BY <3>2, <3>3
  <2>8. CASE I386Reset
    <3>1. Goes("i386", "load_bios") /\ at["i386"] = "loop"
      BY <2>8, MoveAt DEF I386Reset, TypeOK, Tasks, Places, I386Places
    <3>2. TypeOK'
      BY <2>8, <3>1 DEF I386Reset, TypeOK, Goes, Tasks, I386Places
    <3>3. I386Inv' /\ BitsInv'
      BY <2>8, <3>1 DEF I386Reset, TypeOK, I386Inv, BitsInv, Bit, Copying, Goes, Tasks
    <3> QED BY <3>2, <3>3
  <2>9. CASE I386Step
    <3>1. Goes("i386", "step") /\ at["i386"] = "loop"
      BY <2>9, MoveAt DEF I386Step, TypeOK, Tasks, Places, I386Places
    <3>2. TypeOK'
      BY <2>9, <3>1 DEF I386Step, TypeOK, Goes, Tasks, I386Places
    <3>3. I386Inv' /\ BitsInv'
      BY <2>9, <3>1 DEF I386Step, TypeOK, I386Inv, BitsInv, Bit, Copying, Goes, Tasks
    <3> QED BY <3>2, <3>3
  <2>10. CASE I386Guest
    <3>1. Goes("i386", "signal") /\ at["i386"] = "step"
      BY <2>10, MoveAt DEF I386Guest, TypeOK, Tasks, Places, I386Places
    <3>2. TypeOK'
      BY <2>10, <3>1 DEF I386Guest, TypeOK, Goes, Tasks, I386Places
    <3>3. I386Inv' /\ BitsInv'
      BY <2>10, <3>1 DEF I386Guest, TypeOK, I386Inv, BitsInv, Bit, Copying, Goes, Tasks
    <3> QED BY <3>2, <3>3
  <2>11. CASE I386Signal
    <3>1. Goes("i386", "turn") /\ at["i386"] = "signal"
      BY <2>11, MoveAt DEF I386Signal, TypeOK, Tasks, Places, I386Places
    <3>2. TypeOK'
      BY <2>11, <3>1 DEF I386Signal, TypeOK, Goes, Tasks, I386Places, SetBit, Events
    <3>3. I386Inv' /\ BitsInv'
      BY <2>11, <3>1 DEF I386Signal, TypeOK, I386Inv, BitsInv, Bit, Copying, Goes, Tasks, SetBit
    <3> QED BY <3>2, <3>3
  <2>12. CASE I386Turn
    <3>1. PICK to \in {"loop", "gone"} :
            Goes("i386", to) /\ at["i386"] = "turn"
      BY <2>12, MoveAt DEF I386Turn, TypeOK, Tasks, Places, I386Places
    <3>2. TypeOK'
      BY <2>12, <3>1 DEF I386Turn, TypeOK, Goes, Tasks, I386Places
    <3>3. I386Inv' /\ BitsInv'
      BY <2>12, <3>1 DEF I386Turn, TypeOK, I386Inv, BitsInv, Bit, Copying, Goes, Tasks
    <3> QED BY <3>2, <3>3
  <2> QED BY <1>2, <2>1, <2>2, <2>3, <2>4, <2>5, <2>6, <2>7, <2>8, <2>9, <2>10,
            <2>11, <2>12 DEF I386
<1>3. CASE I2s
  <2>1. CASE I2sLogo
    <3>1. Goes("i2s", "music") /\ at["i2s"] = "logo"
      BY <2>1, MoveAt DEF I2sLogo, TypeOK, Tasks, Places, I2sPlaces
    <3>2. TypeOK'
      BY <2>1, <3>1 DEF I2sLogo, TypeOK, Goes, Tasks, I2sPlaces
    <3>3. I386Inv' /\ BitsInv'
      BY <2>1, <3>1 DEF I2sLogo, TypeOK, I386Inv, BitsInv, Bit, Copying, Goes, Tasks
    <3> QED BY <3>2, <3>3
  <2>2. CASE I2sMusic
    <3>1. Goes("i2s", "silence") /\ at["i2s"] = "music"
      BY <2>2, MoveAt DEF I2sMusic, TypeOK, Tasks, Places, I2sPlaces
    <3>2. TypeOK'
      BY <2>2, <3>1 DEF I2sMusic, TypeOK, Goes, Tasks, I2sPlaces, SetBit, Events
    <3>3. I386Inv' /\ BitsInv'
      BY <2>2, <3>1 DEF I2sMusic, TypeOK, I386Inv, BitsInv, Bit, Copying, Goes, Tasks, SetBit
    <3> QED BY <3>2, <3>3
  <2>3. CASE I2sMix
    <3>1. Goes("i2s", "mix") /\ at["i2s"] = "silence"
      BY <2>3, MoveAt DEF I2sMix, TypeOK, Tasks, Places, I2sPlaces
    <3>2. TypeOK'
      BY <2>3, <3>1 DEF I2sMix, TypeOK, Goes, Tasks, I2sPlaces
    <3>3. I386Inv' /\ BitsInv'
      BY <2>3, <3>1 DEF I2sMix, TypeOK, I386Inv, BitsInv, Bit, Copying, Goes, Tasks
    <3> QED BY <3>2, <3>3
  <2>4. CASE I2sSilence \/ I2sMixed
    BY <2>4 DEF I2sSilence, I2sMixed, vars, TypeOK, I386Inv, BitsInv, Bit, Copying
  <2> QED BY <1>3, <2>1, <2>2, <2>3, <2>4 DEF I2s
<1>4. CASE Vga
  <2>1. CASE VgaLogo
    <3>1. Goes("vga", "splash") /\ at["vga"] = "logo"
      BY <2>1, MoveAt DEF VgaLogo, TypeOK, Tasks, Places, VgaPlaces
    <3>2. TypeOK'
      BY <2>1, <3>1 DEF VgaLogo, TypeOK, Goes, Tasks, VgaPlaces, SetBit, Events
    <3>3. I386Inv' /\ BitsInv'
      BY <2>1, <3>1 DEF VgaLogo, TypeOK, I386Inv, BitsInv, Bit, Copying, Goes, Tasks, SetBit
    <3> QED BY <3>2, <3>3
  <2>2. CASE VgaSplash
    <3>1. Goes("vga", "boot") /\ at["vga"] = "splash"
      BY <2>2, MoveAt DEF VgaSplash, TypeOK, Tasks, Places, VgaPlaces
    <3>2. TypeOK'
      BY <2>2, <3>1 DEF VgaSplash, TypeOK, Goes, Tasks, VgaPlaces, SetBit, Events
    <3>3. I386Inv' /\ BitsInv'
      BY <2>2, <3>1 DEF VgaSplash, TypeOK, I386Inv, BitsInv, Bit, Copying, Goes, Tasks, SetBit
    <3> QED BY <3>2, <3>3
  <2>3. CASE VgaBoot
    <3>1. Goes("vga", "delay") /\ at["vga"] = "boot"
      BY <2>3, MoveAt DEF VgaBoot, TypeOK, Tasks, Places, VgaPlaces
    <3>2. TypeOK'
      BY <2>3, <3>1 DEF VgaBoot, TypeOK, Goes, Tasks, VgaPlaces
    <3>3. I386Inv' /\ BitsInv'
      BY <2>3, <3>1 DEF VgaBoot, TypeOK, I386Inv, BitsInv, Bit, Copying, Goes, Tasks
    <3> QED BY <3>2, <3>3
  <2>4. CASE VgaStep
    <3>1. Goes("vga", "step") /\ at["vga"] = "delay"
      BY <2>4, MoveAt DEF VgaStep, TypeOK, Tasks, Places, VgaPlaces
    <3>2. TypeOK'
      BY <2>4, <3>1 DEF VgaStep, TypeOK, Goes, Tasks, VgaPlaces
    <3>3. I386Inv' /\ BitsInv'
      BY <2>4, <3>1 DEF VgaStep, TypeOK, I386Inv, BitsInv, Bit, Copying, Goes, Tasks
    <3> QED BY <3>2, <3>3
  <2>5. CASE VgaStepped
    <3>1. Goes("vga", "delay") /\ at["vga"] = "step"
      BY <2>5, MoveAt DEF VgaStepped, TypeOK, Tasks, Places, VgaPlaces
    <3>2. TypeOK'
      BY <2>5, <3>1 DEF VgaStepped, TypeOK, Goes, Tasks, VgaPlaces
    <3>3. I386Inv' /\ BitsInv'
      BY <2>5, <3>1 DEF VgaStepped, TypeOK, I386Inv, BitsInv, Bit, Copying, Goes, Tasks
    <3> QED BY <3>2, <3>3
  <2> QED BY <1>4, <2>1, <2>2, <2>3, <2>4, <2>5 DEF Vga
<1>5. CASE Fails
  <2>1. CASE I386BadConfig
    <3>1. Goes("i386", "gone") /\ at["i386"] = "parse"
      BY <2>1, MoveAt DEF I386BadConfig, TypeOK, Tasks, Places, I386Places
    <3>2. TypeOK'
      BY <2>1, <3>1 DEF I386BadConfig, TypeOK, Goes, Tasks, I386Places
    <3>3. I386Inv' /\ BitsInv'
      BY <2>1, <3>1 DEF I386BadConfig, TypeOK, I386Inv, BitsInv, Bit, Copying, Goes, Tasks
    <3> QED BY <3>2, <3>3
  <2>2. CASE AppFails \/ I386NoMemory \/ I386MapFails \/ VgaFails
    BY <1>0, <2>2, PanicAt DEF AppFails, I386NoMemory, I386MapFails, VgaFails, TypeOK
  <2> QED BY <1>5, <2>1, <2>2 DEF Fails
<1>6. CASE Reboot
  <2>1. Init'
    BY <1>6 DEF Reboot, Init
  <2> QED BY <2>1, InitInv, PTL
<1>7. CASE UNCHANGED vars
  BY <1>7 DEF vars, TypeOK, I386Inv, BitsInv, Bit, Copying
<1> QED BY <1>1, <1>2, <1>3, <1>4, <1>5, <1>6, <1>7 DEF Next

\* The invariant says what the tasks rely on.
LEMMA InvImplies == IInv => TasksSound
BY DEF IInv, I386Inv, BitsInv, TasksSound, PcPublished, BitsInOrder, Bit

\* The state keeps its types, the tasks of core 0 find a PC with its ROMs loaded,
\* and the event bits come in order, in every run of the firmware.
THEOREM StartupSafe == Spec => []TasksSound
<1>1. Spec => []IInv
  BY InitInv, NextInv, PTL DEF Spec
<1> QED BY <1>1, InvImplies, PTL

-------------------------------------------------------------------------------

\* Without resets the ROMs are loaded before PC_READY and never again.
LEMMA NextLoadedOnce ==
  ASSUME ~CanReset
  PROVE  IInv /\ LoadedOnce /\ [Next]_vars => LoadedOnce'
<1> SUFFICES ASSUME IInv, LoadedOnce, [Next]_vars PROVE LoadedOnce'
  OBVIOUS
<1> USE DEF IInv, LoadedOnce, Bit
<1>0. ASSUME UNCHANGED reset, at'["i386"] = at["i386"],
             at'["app"] \in {at["app"], "done", "panic"},
             Bit("PC_READY")' => Bit("PC_READY")
      PROVE  LoadedOnce'
  BY <1>0
<1>1. CASE App
  <2>1. CASE AppI386
    <3>1. at'["i386"] = "logo" /\ at'["app"] = "create_vga" /\ at["i386"] = "none"
      BY <2>1 DEF AppI386, TypeOK, Tasks
    <3> QED BY <2>1, <3>1 DEF AppI386
  <2>2. CASE AppI2s \/ AppConfig \/ AppVga
    <3>1. at["app"] \in {"start", "config", "create_vga"} /\ at'["i386"] = at["i386"]
          /\ at'["app"] \in {"config", "create_i386", "done"} /\ UNCHANGED <<ev, reset>>
          /\ (at["app"] = "create_vga" => at'["app"] = "done")
      BY <2>2 DEF AppI2s, AppConfig, AppVga, Move, TypeOK, Tasks
    <3> QED BY <3>1
  <2> QED BY <1>1, <2>1, <2>2 DEF App
<1>2. CASE I386
  <2>1. CASE I386Start
    <3>1. Goes("i386", "parse") /\ at["i386"] = "logo"
      BY <2>1, MoveAt DEF I386Start, TypeOK, Tasks, Places, I386Places
    <3> QED BY <2>1, <3>1 DEF I386Start, Goes, Tasks
  <2>2. CASE I386Publish
    <3>1. Goes("i386", "load_bios") /\ at["i386"] = "parse"
      BY <2>2, MoveAt DEF I386Publish, TypeOK, Tasks, Places, I386Places
    <3> QED BY <2>2, <3>1 DEF I386Publish, Goes, Tasks
  <2>3. CASE I386MapBios
    <3>1. Goes("i386", "copy_bios") /\ at["i386"] = "load_bios"
      BY <2>3, MoveAt DEF I386MapBios, MapRom, TypeOK, Tasks, Places, I386Places
    <3> QED BY <2>3, <3>1 DEF I386MapBios, MapRom, Goes, Tasks
  <2>4. CASE I386CopyBios
    <3>1. Goes("i386", "load_vga_bios") /\ at["i386"] = "copy_bios"
      BY <2>4, MoveAt DEF I386CopyBios, TypeOK, Tasks, Places, I386Places
    <3> QED BY <2>4, <3>1 DEF I386CopyBios, Goes, Tasks
  <2>5. CASE I386MapVgaBios
    <3>1. Goes("i386", "copy_vga_bios") /\ at["i386"] = "load_vga_bios"
      BY <2>5, MoveAt DEF I386MapVgaBios, MapRom, TypeOK, Tasks, Places, I386Places
    <3> QED BY <2>5, <3>1 DEF I386MapVgaBios, MapRom, Goes, Tasks
  <2>6. CASE I386Loaded
    <3>1. (Goes("i386", "ready") \/ Goes("i386", "step")) /\ at["i386"] = "copy_vga_bios"
      BY <2>6, MoveAt DEF I386Loaded, TypeOK, Tasks, Places, I386Places
    <3> QED BY <2>6, <3>1 DEF I386Loaded, Goes, Tasks
  <2>7. CASE I386Ready
    <3>1. Goes("i386", "loop") /\ at["i386"] = "ready"
      BY <2>7, MoveAt DEF I386Ready, TypeOK, Tasks, Places, I386Places
    <3> QED BY <2>7, <3>1 DEF I386Ready, Goes, SetBit, Tasks
  <2>8. CASE I386Reset
    BY <2>8 DEF I386Reset
  <2>9. CASE I386Step
    <3>1. Goes("i386", "step") /\ at["i386"] = "loop"
      BY <2>9, MoveAt DEF I386Step, TypeOK, Tasks, Places, I386Places
    <3> QED BY <2>9, <3>1 DEF I386Step, Goes, Tasks
  <2>10. CASE I386Guest
    <3>1. Goes("i386", "signal") /\ at["i386"] = "step"
      BY <2>10, MoveAt DEF I386Guest, TypeOK, Tasks, Places, I386Places
    <3> QED BY <2>10, <3>1 DEF I386Guest, Goes, Tasks
  <2>11. CASE I386Signal
    <3>1. Goes("i386", "turn") /\ at["i386"] = "signal"
      BY <2>11, MoveAt DEF I386Signal, TypeOK, Tasks, Places, I386Places
    <3> QED BY <2>11, <3>1 DEF I386Signal, Goes, SetBit, Tasks
  <2>12. CASE I386Turn
    <3>1. (Goes("i386", "loop") \/ Goes("i386", "gone")) /\ at["i386"] = "turn"
      BY <2>12, MoveAt DEF I386Turn, TypeOK, Tasks, Places, I386Places
    <3> QED BY <2>12, <3>1 DEF I386Turn, Goes, Tasks
  <2> QED BY <1>2, <2>1, <2>2, <2>3, <2>4, <2>5, <2>6, <2>7, <2>8, <2>9, <2>10,
            <2>11, <2>12 DEF I386
<1>3. CASE I2s
  <2>1. at'["i386"] = at["i386"] /\ at'["app"] = at["app"] /\ UNCHANGED reset
    BY <1>3 DEF I2s, I2sLogo, I2sMusic, I2sSilence, I2sMix, I2sMixed, Move, vars, TypeOK, Tasks
  <2>2. Bit("PC_READY")' => Bit("PC_READY")
    BY <1>3 DEF I2s, I2sLogo, I2sMusic, I2sSilence, I2sMix, I2sMixed, SetBit, vars
  <2> QED BY <1>0, <2>1, <2>2
<1>4. CASE Vga
  <2>1. at'["i386"] = at["i386"] /\ at'["app"] = at["app"] /\ UNCHANGED reset
    BY <1>4 DEF Vga, VgaLogo, VgaSplash, VgaBoot, VgaStep, VgaStepped, Move, TypeOK, Tasks
  <2>2. Bit("PC_READY")' => Bit("PC_READY")
    BY <1>4 DEF Vga, VgaLogo, VgaSplash, VgaBoot, VgaStep, VgaStepped, SetBit
  <2> QED BY <1>0, <2>1, <2>2
<1>5. CASE Fails
  <2>1. CASE I386BadConfig
    <3>1. Goes("i386", "gone")
      BY <2>1, MoveAt DEF I386BadConfig, TypeOK, Tasks, Places, I386Places
    <3> QED BY <2>1, <3>1 DEF I386BadConfig, Goes, Tasks, Move
  <2>2. CASE AppFails \/ I386NoMemory \/ I386MapFails \/ VgaFails
    <3>1. at'["i386"] = at["i386"] /\ at'["app"] = "panic" /\ UNCHANGED <<ev, reset>>
      BY <2>2, PanicAt DEF AppFails, I386NoMemory, I386MapFails, VgaFails, TypeOK, Goes, Tasks
    <3> QED BY <1>0, <3>1
  <2> QED BY <1>5, <2>1, <2>2 DEF Fails
<1>6. CASE Reboot
  BY <1>6, AtBootPlaces DEF Reboot
<1>7. CASE UNCHANGED vars
  BY <1>7 DEF vars
<1> QED BY <1>1, <1>2, <1>3, <1>4, <1>5, <1>6, <1>7 DEF Next

\* With a guest that never resets, no ROM is copied while vga_task draws: this is
\* what the comment in pc_main claims.
THEOREM BootCopySafe ==
  ASSUME ~CanReset
  PROVE  Spec => []NoCopyWhileDrawing
<1>1. Init => LoadedOnce
  BY AtBootPlaces DEF Init, LoadedOnce, Bit
<1>2. Spec => [](IInv /\ LoadedOnce)
  BY <1>1, InitInv, NextInv, NextLoadedOnce, PTL DEF Spec
<1>3. IInv /\ LoadedOnce => NoCopyWhileDrawing
  BY DEF IInv, BitsInv, LoadedOnce, NoCopyWhileDrawing, Copying, Drawing, Bit
<1> QED BY <1>2, <1>3, PTL

-----------------------------------------------------------------------------
(* The display: the geometry drawn, and the ports with a hidden position. *)

Depths == {4, 8, 15, 16, 24, 32}

ModesTypeOK ==
    /\ enabled \in BOOLEAN /\ caps \in BOOLEAN /\ meddled \in BOOLEAN /\ linear \in BOOLEAN
    /\ vbe \in [Register -> Nat]
    /\ cr \in [width : Nat, height : Nat, high : Nat \X Nat, protect : BOOLEAN]
    /\ shift \in 0..2

\* Registers after vbe_fixup_regs.
Valid(q) ==
    /\ q \in [Register -> Nat]
    /\ q.bpp \in Depths
    /\ q.xres % 8 = 0 /\ q.xres >= 8
    /\ q.vwidth >= q.xres /\ q.yres >= 1

\* What vbe_update_vgaregs has told the VGA.
PassedOn ==
    /\ cr.width = (vbe.xres \div 8 - 1) % 256
    /\ cr.height = (vbe.yres - 1) % 256
    /\ cr.high = <<((vbe.yres - 1) \div 256) % 2, ((vbe.yres - 1) \div 512) % 2>>
    /\ shift = (IF vbe.bpp = 4 THEN 0 ELSE 2)
    /\ vbe.bpp # 4 => linear

\* While the interface is on its registers are valid and the line length and the
\* start are theirs; while the guest leaves the VGA alone so are the VGA's own.
ModesInv ==
    /\ ModesTypeOK
    /\ enabled => Valid(vbe) /\ line = LineLength(vbe) /\ start = StartAddr(vbe)
    /\ enabled /\ ~meddled => PassedOn

-----------------------------------------------------------------------------

\* Rounding down to a multiple of eight.
LEMMA RoundDown ==
    ASSUME NEW n \in Nat
    PROVE  Down8(n) \in Nat /\ Down8(n) % 8 = 0
BY DEF Down8

\* vbe_fixup_regs makes any registers valid.
LEMMA FixedValid ==
    ASSUME NEW q \in [Register -> Nat]
    PROVE  Valid(Fixed(q))
<1> DEFINE x == IF Down8(q.xres) = 0 THEN 8 ELSE Down8(q.xres)
           v == IF Down8(q.vwidth) < x THEN x ELSE Down8(q.vwidth)
           b == IF q.bpp \in {4, 8, 15, 16, 24, 32} THEN q.bpp ELSE 8
<1>1. q.xres \in Nat /\ q.vwidth \in Nat /\ q.bpp \in Nat /\ q.yres \in Nat
  BY DEF Register, Geometry
<1>2. x \in Nat /\ x % 8 = 0 /\ x >= 8
  <2>1. Down8(q.xres) \in Nat /\ Down8(q.xres) % 8 = 0
    BY <1>1, RoundDown
  <2> QED BY <2>1
<1>3. v \in Nat /\ v >= x
  BY <1>1, <1>2, RoundDown
<1>4. b \in Depths
  BY DEF Depths
<1> HIDE DEF x, v, b
<1>5. Fixed(q) = [q EXCEPT !.bpp = b, !.xres = x, !.vwidth = v, !.yres = IF @ = 0 THEN 1 ELSE @]
  BY DEF Fixed, x, v, b
<1>6. /\ Fixed(q).bpp = b /\ Fixed(q).xres = x /\ Fixed(q).vwidth = v
      /\ Fixed(q).yres = IF q.yres = 0 THEN 1 ELSE q.yres
  BY <1>5 DEF Register, Geometry
<1>7. Fixed(q) \in [Register -> Nat]
  <2> DEFINE y == IF q.yres = 0 THEN 1 ELSE q.yres
  <2>1. b \in Nat /\ y \in Nat
    BY <1>1, <1>4 DEF Depths
  <2> HIDE DEF y
  <2>2. Fixed(q) = [[[[q EXCEPT !.bpp = b] EXCEPT !.xres = x] EXCEPT !.vwidth = v] EXCEPT !.yres = y]
    BY <1>5 DEF y
  <2>3. [q EXCEPT !.bpp = b] \in [Register -> Nat]
    BY <2>1
  <2>4. [[q EXCEPT !.bpp = b] EXCEPT !.xres = x] \in [Register -> Nat]
    BY <1>2, <2>3
  <2>5. [[[q EXCEPT !.bpp = b] EXCEPT !.xres = x] EXCEPT !.vwidth = v] \in [Register -> Nat]
    BY <1>3, <2>4
  <2> QED BY <2>1, <2>2, <2>5
<1> QED BY <1>1, <1>2, <1>3, <1>4, <1>6, <1>7 DEF Valid

\* Registers q applied while the interface is to be on or off, and the guest's
\* own writes forgotten.
LEMMA AppliedInv ==
    ASSUME ModesInv, NEW on \in BOOLEAN, NEW q \in [Register -> Nat],
           Applied(on, q), enabled' = on, caps' \in BOOLEAN, meddled' = FALSE
    PROVE  ModesInv'
<1>1. CASE ~on
  <2>1. vbe' = q /\ UNCHANGED <<line, start, cr, shift, linear>>
    BY <1>1 DEF Applied
  <2> QED BY <1>1, <2>1 DEF ModesInv, ModesTypeOK
<1>2. CASE on
  <2> DEFINE f == Fixed(q)  h == f.yres - 1
  <2>1. Valid(f)
    BY FixedValid
  <2>2. f.xres \in Nat /\ f.yres \in Nat /\ f.bpp \in Nat /\ f.yres >= 1 /\ f.xres >= 8 /\ h \in Nat
    BY <2>1 DEF Valid, Register, Geometry
  <2> HIDE DEF f
  <2>3. /\ vbe' = f
        /\ line' = LineLength(f) /\ start' = StartAddr(f)
        /\ cr' = [cr EXCEPT !.width = (f.xres \div 8 - 1) % 256, !.height = h % 256,
                            !.high = <<(h \div 256) % 2, (h \div 512) % 2>>]
        /\ shift' = (IF f.bpp = 4 THEN 0 ELSE 2)
        /\ linear' = (linear \/ f.bpp # 4)
    BY <1>2 DEF Applied, f
  <2>4. /\ (f.xres \div 8 - 1) % 256 \in Nat /\ h % 256 \in Nat
        /\ (h \div 256) % 2 \in Nat /\ (h \div 512) % 2 \in Nat
    BY <2>2
  <2>5. /\ cr' \in [width : Nat, height : Nat, high : Nat \X Nat, protect : BOOLEAN]
        /\ cr'.width = (f.xres \div 8 - 1) % 256 /\ cr'.height = h % 256
        /\ cr'.high = <<(h \div 256) % 2, (h \div 512) % 2>>
    <3> DEFINE wd == (f.xres \div 8 - 1) % 256
               l == h % 256
               t == <<(h \div 256) % 2, (h \div 512) % 2>>
    <3>1. wd \in Nat /\ l \in Nat /\ t \in Nat \X Nat
      BY <2>4
    <3>2. cr' = [cr EXCEPT !.width = wd, !.height = l, !.high = t]
      BY <2>3
    <3>3. cr \in [width : Nat, height : Nat, high : Nat \X Nat, protect : BOOLEAN]
      BY DEF ModesInv, ModesTypeOK
    <3> HIDE DEF wd, l, t
    <3>4. cr' = [width |-> wd, height |-> l, high |-> t, protect |-> cr.protect]
      BY <3>2, <3>3
    <3>5. cr'.width = wd /\ cr'.height = l /\ cr'.high = t
      BY <3>4
    <3>6. cr' \in [width : Nat, height : Nat, high : Nat \X Nat, protect : BOOLEAN]
      BY <3>1, <3>3, <3>4
    <3> QED BY <3>5, <3>6 DEF wd, l, t
  <2>6. ModesTypeOK'
    <3>1. linear' \in BOOLEAN
      BY <2>3, Zenon DEF ModesInv, ModesTypeOK
    <3>2. shift' \in 0..2
      BY <2>3
    <3> QED BY <1>2, <2>1, <2>3, <2>5, <3>1, <3>2 DEF ModesTypeOK, Valid
  <2>7. PassedOn'
    <3> DEFINE Passed(a, c, s, lin) ==
            /\ c.width = (a.xres \div 8 - 1) % 256
            /\ c.height = (a.yres - 1) % 256
            /\ c.high = <<((a.yres - 1) \div 256) % 2, ((a.yres - 1) \div 512) % 2>>
            /\ s = (IF a.bpp = 4 THEN 0 ELSE 2)
            /\ a.bpp # 4 => lin
    <3>1. Passed(f, cr', shift', linear')
      <4>1. f.bpp # 4 => linear'
        BY <2>3, Zenon
      <4> QED BY <2>3, <2>5, <4>1, Zenon
    <3>2. Passed(vbe', cr', shift', linear')
      BY <2>3, <3>1
    <3> QED BY <3>2 DEF PassedOn
  <2>8. Valid(vbe)' /\ line' = LineLength(vbe)' /\ start' = StartAddr(vbe)'
    BY <2>1, <2>3
  <2> QED BY <2>6, <2>7, <2>8 DEF ModesInv
<1> QED BY <1>1, <1>2

\* The invariant holds when the machine starts.
LEMMA ModesInitInv == ModesInit => ModesInv
<1> SUFFICES ASSUME ModesInit PROVE ModesInv
  OBVIOUS
<1>1. vbe \in [Register -> Nat] /\ shift \in 0..2
  BY DEF ModesInit
<1>2. <<1, 0>> \in Nat \X Nat
  OBVIOUS
<1>3. cr \in [width : Nat, height : Nat, high : Nat \X Nat, protect : BOOLEAN]
  BY <1>2 DEF ModesInit
<1>4. ~enabled /\ enabled \in BOOLEAN /\ caps \in BOOLEAN /\ meddled \in BOOLEAN /\ linear \in BOOLEAN
  BY Zenon DEF ModesInit
<1> QED BY <1>1, <1>3, <1>4 DEF ModesInv, ModesTypeOK

\* Every write of the guest keeps it.
LEMMA ModesNextInv ==
    ASSUME ModesSizes, ModesInv, [ModesNext]_modeVars
    PROVE  ModesInv'
<1>1. ASSUME NEW on \in BOOLEAN, NEW getcaps \in BOOLEAN, NEW noclear \in BOOLEAN,
             WriteEnable(on, getcaps, noclear)
      PROVE  ModesInv'
  <2>1. vbe.xres \in Nat /\ vbe.yres \in Nat
    BY DEF ModesInv, ModesTypeOK, Register, Geometry
  <2>2. [vbe EXCEPT !.vwidth = vbe.xres, !.vheight = vbe.yres, !.xoff = 0, !.yoff = 0] \in [Register -> Nat]
    BY <2>1 DEF ModesInv, ModesTypeOK
  <2>3. PICK q \in [Register -> Nat] : Applied(on, q)
    BY <1>1, <2>2 DEF WriteEnable, ModesInv, ModesTypeOK
  <2>4. enabled' = on /\ caps' \in BOOLEAN /\ meddled' = FALSE
    BY <1>1 DEF WriteEnable
  <2> QED BY <2>3, <2>4, AppliedInv
<1>2. ASSUME NEW i \in Geometry, NEW v \in Choice[i], WriteGeometry(i, v)
      PROVE  ModesInv'
  <2>1. v \in Nat
    BY <1>2 DEF ModesSizes, Register
  <2>2. [vbe EXCEPT ![i] = v] \in [Register -> Nat]
    BY <2>1 DEF ModesInv, ModesTypeOK
  <2>3. enabled' = enabled /\ caps' = caps /\ meddled' = FALSE /\ Applied(enabled, [vbe EXCEPT ![i] = v])
    BY <1>2 DEF WriteGeometry
  <2>4. enabled \in BOOLEAN /\ caps' \in BOOLEAN
    BY <2>3 DEF ModesInv, ModesTypeOK
  <2> QED BY <2>2, <2>3, <2>4, AppliedInv
<1>3. ASSUME NEW v \in Choice["bank"], WriteBank(v)
      PROVE  ModesInv'
  <2>1. v % Banks \in Nat
    BY <1>3 DEF ModesSizes, Register
  <2>2. vbe' = [vbe EXCEPT !.bank = v % Banks]
        /\ UNCHANGED <<enabled, caps, line, start, cr, shift, linear, meddled>>
    BY <1>3 DEF WriteBank
  <2>3. vbe' \in [Register -> Nat] /\ \A i \in Geometry : vbe'[i] = vbe[i]
    BY <2>1, <2>2 DEF ModesInv, ModesTypeOK, Register, Geometry
  <2>4. /\ vbe'.xres = vbe.xres /\ vbe'.yres = vbe.yres /\ vbe'.bpp = vbe.bpp
        /\ vbe'.vwidth = vbe.vwidth /\ vbe'.xoff = vbe.xoff /\ vbe'.yoff = vbe.yoff
    BY <2>3 DEF Geometry
  <2>5. LineLength(vbe)' = LineLength(vbe)
    BY <2>4 DEF LineLength
  <2>6. StartAddr(vbe)' = StartAddr(vbe)
    BY <2>4, <2>5 DEF StartAddr
  <2>7. Valid(vbe) => Valid(vbe)'
    BY <2>3, <2>4 DEF Valid
  <2>8. PassedOn => PassedOn'
    BY <2>2, <2>4 DEF PassedOn
  <2> QED BY <2>2, <2>3, <2>5, <2>6, <2>7, <2>8 DEF ModesInv, ModesTypeOK
<1>4. ASSUME NEW i \in {1, 7, 17, 18}, NEW v \in {1, 143}, WriteCrtc(i, v)
      PROVE  ModesInv'
  <2>1. cr' \in [width : Nat, height : Nat, high : Nat \X Nat, protect : BOOLEAN]
    <3>1. v \in Nat /\ v % 2 \in Nat /\ (v \div 2) % 2 \in Nat
      OBVIOUS
    <3>2. cr \in [width : Nat, height : Nat, high : Nat \X Nat, protect : BOOLEAN]
      BY DEF ModesInv, ModesTypeOK
    <3> DEFINE t == <<v % 2, (v \div 2) % 2>>
               p == v >= 128
    <3>3. t \in Nat \X Nat /\ p \in BOOLEAN
      BY <3>1
    <3>4. \/ cr' = [cr EXCEPT !.width = v]
          \/ cr' = [cr EXCEPT !.high = t]
          \/ cr' = [cr EXCEPT !.protect = p]
          \/ cr' = [cr EXCEPT !.height = v]
          \/ cr' = cr
      BY <1>4 DEF WriteCrtc
    <3> HIDE DEF t, p
    <3> QED BY <3>1, <3>2, <3>3, <3>4
  <2> QED BY <1>4, <2>1 DEF WriteCrtc, ModesInv, ModesTypeOK
<1>5. ASSUME NEW s \in 0..2, WritePlanar(s)
      PROVE  ModesInv'
  BY <1>5 DEF WritePlanar, ModesInv, ModesTypeOK
<1>6. CASE UNCHANGED modeVars
  BY <1>6 DEF modeVars, ModesInv, ModesTypeOK, PassedOn
<1> QED BY <1>1, <1>2, <1>3, <1>4, <1>5, <1>6 DEF ModesNext

-----------------------------------------------------------------------------

\* A width up to 2048 and a height up to 1024 come through the CRTC's bits.
LEMMA CrtcFits ==
    ASSUME NEW wd \in Nat, NEW h \in Nat, wd % 8 = 0, wd >= 8, wd <= 2048, h >= 1, h <= 1024
    PROVE  /\ (((wd \div 8 - 1) % 256) + 1) * 8 = wd
           /\ ((h - 1) % 256) + 256 * (((h - 1) \div 256) % 2) + 512 * (((h - 1) \div 512) % 2) + 1 = h
OBVIOUS

\* A line holds the width, in every depth.
LEMMA LineHolds ==
    ASSUME NEW q, Valid(q)
    PROVE  LineLength(q) * 8 >= q.xres * Pixels(q.bpp)
<1>1. q.vwidth \in Nat /\ q.xres \in Nat /\ q.vwidth >= q.xres /\ q.xres % 8 = 0
  BY DEF Valid, Register, Geometry
<1>2. ASSUME NEW b \in {4, 8, 16, 24, 32}
      PROVE  ((q.vwidth * b) \div 8) * 8 >= q.xres * b
  BY <1>1
<1>3. Pixels(q.bpp) \in {4, 8, 16, 24, 32}
  BY DEF Valid, Depths, Pixels
<1> QED BY <1>2, <1>3 DEF LineLength

\* The invariant implies the property.
LEMMA ModesShown == ModesInv => ModeShown
<1> SUFFICES ASSUME ModesInv, enabled, ~meddled PROVE ModeShown
  BY DEF ModeShown
<1>1. Valid(vbe) /\ PassedOn /\ line = LineLength(vbe) /\ start = StartAddr(vbe)
  BY DEF ModesInv
<1>2. /\ vbe.xres \in Nat /\ vbe.yres \in Nat /\ vbe.xres % 8 = 0 /\ vbe.xres >= 8 /\ vbe.yres >= 1
      /\ vbe.xoff \in Nat /\ vbe.yoff \in Nat /\ vbe.vwidth \in Nat
  BY <1>1 DEF Valid, Register, Geometry
<1>3. line * 8 >= vbe.xres * Pixels(vbe.bpp)
  BY <1>1, LineHolds
<1>4. ASSUME ~caps, vbe.xres <= 2048, vbe.yres <= 1024
      PROVE  Drawn = Asked
  <2>1. \A i : vbe_read(i) = vbe[i]
    BY <1>4 DEF vbe_read
  <2>2. Drawn.w = Asked.w /\ Drawn.h = Asked.h
    <3> DEFINE x == vbe.xres  y == vbe.yres
    <3>1. /\ (((x \div 8 - 1) % 256) + 1) * 8 = x
          /\ ((y - 1) % 256) + 256 * (((y - 1) \div 256) % 2) + 512 * (((y - 1) \div 512) % 2) + 1 = y
      <4>1. /\ x \in Nat /\ y \in Nat /\ x % 8 = 0 /\ x >= 8 /\ x <= 2048
            /\ y >= 1 /\ y <= 1024
        BY <1>2, <1>4
      <4> HIDE DEF x, y
      <4> QED BY <4>1, CrtcFits
    <3>2. Drawn.w = (cr.width + 1) * 8 /\ Drawn.h = cr.height + 256 * cr.high[1] + 512 * cr.high[2] + 1
      BY DEF Drawn
    <3>3. Asked.w = x /\ Asked.h = y
      BY <2>1 DEF Asked
    <3>4. /\ cr.width = (x \div 8 - 1) % 256 /\ cr.height = (y - 1) % 256
          /\ cr.high[1] = ((y - 1) \div 256) % 2 /\ cr.high[2] = ((y - 1) \div 512) % 2
      BY <1>1 DEF PassedOn
    <3> QED BY <3>1, <3>2, <3>3, <3>4
  <2>3. Drawn.line = Asked.line
    BY <1>1, <2>1 DEF LineLength, Drawn, Asked
  <2>4. Drawn.start = Asked.start
    <3> DEFINE bits == Pixels(vbe.bpp)
    <3>1. bits \in Nat
      BY <1>1 DEF Valid, Depths, Pixels
    <3>2. Drawn.start = ((vbe.xoff * bits) \div 8 + vbe.yoff * ((vbe.vwidth * bits) \div 8)) \div 4
      BY <1>1 DEF Drawn, StartAddr, LineLength
    <3>3. Asked.start = (vbe.yoff * ((vbe.vwidth * bits) \div 8) + (vbe.xoff * bits) \div 8) \div 4
      BY <2>1 DEF Asked
    <3> HIDE DEF bits
    <3>4. /\ (vbe.xoff * bits) \div 8 \in Nat
          /\ vbe.yoff * ((vbe.vwidth * bits) \div 8) \in Nat
      BY <1>2, <3>1
    <3>5. \A m, n \in Nat : m + n = n + m
      OBVIOUS
    <3> QED BY <3>2, <3>3, <3>4, <3>5
  <2>5. Drawn.bpp = Asked.bpp
    BY <1>1, <2>1 DEF PassedOn, Drawn, Asked
  <2> QED BY <2>2, <2>3, <2>4, <2>5 DEF Drawn, Asked
<1> QED BY <1>1, <1>3, <1>4 DEF ModeShown, PassedOn

\* With the display interface on and the VGA's own registers left alone, the
\* screen drawn is the one the guest reads back, a line holds the width, and
\* modes of a byte or more per pixel are linear: for all register values.
THEOREM ScreenAsked ==
    ASSUME ModesSizes
    PROVE  ModesSpec => []ModeShown
BY ModesInitInv, ModesNextInv, ModesShown, PTL DEF ModesSpec

-----------------------------------------------------------------------------
(* The DAC. *)

Entries == 0 .. Colours - 1
Palettes == [Entries -> [0..2 -> Nat]]

DacTypes ==
    /\ palette \in Palettes /\ cache \in [0..2 -> Nat] /\ sub \in 0..2
    /\ rindex \in Entries /\ windex \in Entries /\ ports \in Nat
    /\ feed \in [dir : {"read", "write", "mixed"}, first : Entries, bytes : Seq(Nat), old : Palettes]

\* After q whole colours component c of entry i is that of the last of them that
\* went there, or what it was.
Painted(q, i, c) ==
    \/ /\ \A k \in 0 .. q - 1 : Entry(k) # i
       /\ palette[i][c] = feed.old[i][c]
    \/ \E k \in 0 .. q - 1 :
         /\ Entry(k) = i /\ palette[i][c] = Byte3(k, c)
         /\ \A j \in 0 .. q - 1 : Entry(j) = i => j <= k

\* The guest has written q colours and sub components of the next.
Writing(q) ==
    /\ windex = Entry(q)
    /\ \A c \in 0..2 : c < sub => cache[c] = Byte3(q, c)
    /\ \A i \in Entries, c \in 0..2 : Painted(q, i, c)

\* It has read as many, and each was the palette's.
Reading(q) ==
    /\ rindex = Entry(q)
    /\ \A k \in Nat, c \in 0..2 : 3 * k + c < Len(feed.bytes) => Byte3(k, c) = palette[Entry(k)][c]

DacInv ==
    /\ DacTypes
    /\ feed.dir # "mixed" =>
         \E q \in Nat : /\ Len(feed.bytes) = 3 * q + sub
                        /\ feed.dir = "write" => Writing(q)
                        /\ feed.dir = "read" => Reading(q)

\* One step around the palette.
LEMMA NextEntry ==
    ASSUME NEW m \in Nat \ {0}, NEW x \in Nat
    PROVE  ((x % m) + 1) % m = (x + 1) % m /\ (x % m) \in 0 .. m - 1
<1> DEFINE p == x \div m
           a == x % m
           q == (x + 1) \div m
           b == (x + 1) % m
           d == (a + 1) \div m
           e == (a + 1) % m
<1>1. p \in Int /\ a \in 0 .. m - 1 /\ x = m * p + a OBVIOUS
<1>2. q \in Int /\ b \in 0 .. m - 1 /\ x + 1 = m * q + b OBVIOUS
<1>3. d \in Int /\ e \in 0 .. m - 1 /\ a + 1 = m * d + e BY <1>1
<1>4. e = b
  <2> HIDE DEF p, a, q, b, d, e
  <2>1. e - b = m * (q - p - d)
    <3>1. m * p + m * d + e = m * q + b BY <1>1, <1>2, <1>3
    <3>2. m * (q - p - d) = m * q - m * p - m * d BY <1>1, <1>2, <1>3
    <3>3. m * p \in Int /\ m * d \in Int /\ m * q \in Int BY <1>1, <1>2, <1>3
    <3>4. QED BY <1>2, <1>3, <3>1, <3>2, <3>3
  <2>2. PICK f \in Int : f = q - p - d BY <1>1, <1>2, <1>3
  <2>3. e - b = m * f BY <2>1, <2>2
  <2>4. f >= 1 => m * f >= m OBVIOUS
  <2>5. f <= -1 => m * f <= -m OBVIOUS
  <2>6. f = 0 BY <1>2, <1>3, <2>3, <2>4, <2>5
  <2>7. QED BY <1>2, <1>3, <2>3, <2>6
<1>5. QED BY <1>1, <1>4

\* A byte more at the end leaves the others.
LEMMA OneMore ==
    ASSUME NEW s \in Seq(Nat), NEW b \in Nat
    PROVE  /\ Append(s, b) \in Seq(Nat) /\ Len(s) \in Nat /\ Len(Append(s, b)) = Len(s) + 1
           /\ Append(s, b)[Len(s) + 1] = b
           /\ \A i \in Nat : i < Len(s) => Append(s, b)[i + 1] = s[i + 1]
OBVIOUS

LEMMA WriteStep ==
    ASSUME PortsSizes, DacInv, NEW b \in Nat, WriteDac(b)
    PROVE  DacInv'
<1> DEFINE c == [cache EXCEPT ![sub] = b]
<1>1. DacTypes BY DEF DacInv
<1>2. /\ cache' = c /\ sub' = (sub + 1) % 3 /\ rindex' = rindex /\ ports' \in Nat
      /\ feed' = Moved("write", b)
      /\ IF sub = 2 THEN palette' = [palette EXCEPT ![windex] = c] /\ windex' = (windex + 1) % Colours
         ELSE palette' = palette /\ windex' = windex
  BY <1>1 DEF WriteDac, Access, DacTypes
<1>3. Colours \in Nat \ {0} BY DEF PortsSizes
<1>4. c \in [0..2 -> Nat] /\ sub' = (IF sub = 2 THEN 0 ELSE sub + 1) BY <1>1, <1>2 DEF DacTypes
<1>5. windex' \in Entries /\ palette' \in Palettes
  <2>1. windex \in Nat /\ windex + 1 \in Nat BY <1>1, <1>3 DEF DacTypes, Entries
  <2>2. (windex + 1) % Colours \in Entries BY <1>3, <2>1 DEF Entries
  <2>3. QED BY <1>1, <1>2, <1>4, <2>2 DEF DacTypes, Palettes
<1>6. CASE feed.dir # "write"
  <2>1. feed' = [dir |-> "mixed", first |-> 0, bytes |-> <<>>, old |-> palette]
    BY <1>2, <1>6 DEF Moved, Feed
  <2>2. DacTypes'
    <3>1. 0 \in Entries /\ <<>> \in Seq(Nat) BY <1>3 DEF Entries
    <3>2. feed' \in [dir : {"read", "write", "mixed"}, first : Entries, bytes : Seq(Nat), old : Palettes]
      BY <1>1, <2>1, <3>1 DEF DacTypes
    <3>3. QED BY <1>1, <1>2, <1>4, <1>5, <3>2 DEF DacTypes
  <2>3. QED BY <2>1, <2>2 DEF DacInv
<1>7. CASE feed.dir = "write"
  <2>1. PICK q \in Nat : Len(feed.bytes) = 3 * q + sub /\ Writing(q) BY <1>7 DEF DacInv
  <2>2. PICK s : s = feed.bytes OBVIOUS
  <2>3. s \in Seq(Nat) BY <1>1, <2>2 DEF DacTypes
  <2>4. feed' = [feed EXCEPT !.bytes = Append(s, b)] BY <1>2, <1>7, <2>2 DEF Moved
  <2>5. feed'.dir = "write" /\ feed'.first = feed.first /\ feed'.bytes = Append(s, b) /\ feed'.old = feed.old
        /\ feed' \in [dir : {"read", "write", "mixed"}, first : Entries, bytes : Seq(Nat), old : Palettes]
    BY <1>1, <1>7, <2>3, <2>4, OneMore DEF DacTypes
  <2>6. DacTypes' BY <1>1, <1>2, <1>4, <1>5, <2>5 DEF DacTypes
  <2>7. /\ Len(s) = 3 * q + sub /\ Len(feed'.bytes) = 3 * q + sub + 1
        /\ feed'.bytes[3 * q + sub + 1] = b
        /\ \A i \in Nat : i < 3 * q + sub => feed'.bytes[i + 1] = feed.bytes[i + 1]
    BY <2>1, <2>2, <2>3, <2>5, OneMore
  <2>8. \A k : Entry(k)' = Entry(k) BY <2>5 DEF Entry
  <2>9. \A k \in Nat, x \in 0..2 : 3 * k + x < 3 * q + sub => Byte3(k, x)' = Byte3(k, x)
    <3> SUFFICES ASSUME NEW k \in Nat, NEW x \in 0..2, 3 * k + x < 3 * q + sub
                 PROVE  Byte3(k, x)' = Byte3(k, x)
      OBVIOUS
    <3>1. PICK i \in Nat : i = 3 * k + x OBVIOUS
    <3>2. feed'.bytes[i + 1] = feed.bytes[i + 1] BY <2>7, <3>1
    <3>3. QED BY <3>1, <3>2 DEF Byte3
  <2>10. \A x \in 0..2 : Byte3(q, x)' = feed'.bytes[3 * q + x + 1] BY DEF Byte3
  <2>11. \A x \in 0..2 : x <= sub => c[x] = Byte3(q, x)'
    <3> SUFFICES ASSUME NEW x \in 0..2, x <= sub PROVE c[x] = Byte3(q, x)' OBVIOUS
    <3>1. CASE x = sub
      <4>1. c[x] = b BY <1>1, <3>1 DEF DacTypes
      <4>2. feed'.bytes[3 * q + x + 1] = b BY <2>7, <3>1
      <4>3. QED BY <2>10, <4>1, <4>2
    <3>2. CASE x # sub
      <4>1. x < sub /\ 3 * q + x < 3 * q + sub BY <1>1, <3>2 DEF DacTypes
      <4>2. c[x] = cache[x] BY <1>1, <3>2 DEF DacTypes
      <4>3. QED BY <2>1, <2>9, <4>1, <4>2 DEF Writing
    <3>3. QED BY <3>1, <3>2
  <2>12. CASE sub # 2
    <3>1. Len(feed'.bytes) = 3 * q + sub' BY <1>1, <1>4, <2>7, <2>12 DEF DacTypes
    <3>2. windex' = Entry(q)' BY <1>2, <2>1, <2>8, <2>12 DEF Writing
    <3>3. \A x \in 0..2 : x < sub' => cache'[x] = Byte3(q, x)' BY <1>1, <1>2, <1>4, <2>11, <2>12 DEF DacTypes
    <3>4. ASSUME NEW i \in Entries, NEW x \in 0..2 PROVE Painted(q, i, x)'
      <4>1. \A k \in 0 .. q - 1 : k \in Nat /\ 3 * k + x < 3 * q + sub BY <1>1 DEF DacTypes
      <4>2. \A k \in 0 .. q - 1 : Byte3(k, x)' = Byte3(k, x) BY <2>9, <4>1
      <4>3. Painted(q, i, x) BY <2>1 DEF Writing
      <4>4. palette' = palette BY <1>2, <2>12
      <4>5. QED BY <2>5, <2>8, <4>2, <4>3, <4>4 DEF Painted
    <3>5. Writing(q)' BY <3>2, <3>3, <3>4 DEF Writing
    <3>6. QED BY <2>5, <2>6, <3>1, <3>5 DEF DacInv
  <2>13. CASE sub = 2
    <3>1. Len(feed'.bytes) = 3 * (q + 1) + sub' BY <1>4, <2>7, <2>13
    <3>2. windex' = Entry(q + 1)'
      <4>1. feed.first \in Nat /\ feed.first + q \in Nat BY <1>1, <1>3 DEF DacTypes, Entries
      <4>2. windex = (feed.first + q) % Colours BY <2>1 DEF Writing, Entry
      <4>3. (((feed.first + q) % Colours) + 1) % Colours = ((feed.first + q) + 1) % Colours
        BY <1>3, <4>1, NextEntry
      <4>4. (feed.first + q) + 1 = feed.first + (q + 1) BY <4>1
      <4>5. QED BY <1>2, <2>8, <2>13, <4>2, <4>3, <4>4 DEF Entry
    <3>3. ASSUME NEW i \in Entries, NEW x \in 0..2 PROVE Painted(q + 1, i, x)'
      <4>1. \A k \in 0 .. q - 1 : k \in Nat /\ 3 * k + x < 3 * q + sub BY <2>13
      <4>2. \A k \in 0 .. q - 1 : Byte3(k, x)' = Byte3(k, x) BY <2>9, <4>1
      <4>3. Painted(q, i, x) BY <2>1 DEF Writing
      <4>4. palette' = [palette EXCEPT ![windex] = c] /\ windex = Entry(q) BY <1>2, <2>1, <2>13 DEF Writing
      <4>5. \A k \in 0 .. (q + 1) - 1 : k \in 0 .. q - 1 \/ k = q OBVIOUS
      <4>6. \A k \in 0 .. q - 1 : k \in 0 .. (q + 1) - 1 /\ k <= q OBVIOUS
      <4>7. CASE i = Entry(q)
        <5>1. palette'[i] = c BY <1>1, <4>4, <4>7 DEF DacTypes, Palettes
        <5>2. palette'[i][x] = Byte3(q, x)' BY <2>11, <2>13, <5>1
        <5>3. q \in 0 .. (q + 1) - 1 /\ \A j \in 0 .. (q + 1) - 1 : j <= q OBVIOUS
        <5>4. QED BY <2>8, <4>7, <5>2, <5>3 DEF Painted
      <4>8. CASE i # Entry(q)
        <5>1. palette'[i] = palette[i] BY <1>1, <4>4, <4>8 DEF DacTypes, Palettes
        <5>2. CASE (\A k \in 0 .. q - 1 : Entry(k) # i) /\ palette[i][x] = feed.old[i][x]
          BY <2>5, <2>8, <4>5, <4>8, <5>1, <5>2 DEF Painted
        <5>3. CASE \E k \in 0 .. q - 1 :
                     /\ Entry(k) = i /\ palette[i][x] = Byte3(k, x)
                     /\ \A j \in 0 .. q - 1 : Entry(j) = i => j <= k
          <6>1. PICK k \in 0 .. q - 1 : /\ Entry(k) = i /\ palette[i][x] = Byte3(k, x)
                                        /\ \A j \in 0 .. q - 1 : Entry(j) = i => j <= k
            BY <5>3
          <6>2. \A j \in 0 .. (q + 1) - 1 : Entry(j)' = i => j <= k BY <2>8, <4>5, <4>8, <6>1
          <6>3. palette'[i][x] = Byte3(k, x)' BY <4>2, <5>1, <6>1
          <6>4. k \in 0 .. (q + 1) - 1 /\ Entry(k)' = i BY <2>8, <4>6, <6>1
          <6>5. QED BY <6>2, <6>3, <6>4 DEF Painted
        <5>4. QED BY <4>3, <5>2, <5>3 DEF Painted
      <4>9. QED BY <4>7, <4>8
    <3>4. \A x \in 0..2 : ~(x < sub') BY <1>4, <2>13
    <3>5. Writing(q + 1)' BY <3>2, <3>3, <3>4 DEF Writing
    <3>6. q + 1 \in Nat OBVIOUS
    <3>7. QED BY <2>5, <2>6, <3>1, <3>5, <3>6 DEF DacInv
  <2>14. QED BY <2>12, <2>13
<1>8. QED BY <1>6, <1>7

LEMMA ReadStep ==
    ASSUME PortsSizes, DacInv, ReadDac
    PROVE  DacInv'
<1> DEFINE b == palette[rindex][sub]
<1>1. DacTypes BY DEF DacInv
<1>2. /\ sub' = (sub + 1) % 3 /\ rindex' = (IF sub = 2 THEN (rindex + 1) % Colours ELSE rindex)
      /\ ports' \in Nat /\ feed' = Moved("read", b) /\ UNCHANGED <<palette, cache, windex>>
  BY <1>1 DEF ReadDac, Access, DacTypes
<1>3. Colours \in Nat \ {0} BY DEF PortsSizes
<1>4. b \in Nat /\ sub' = (IF sub = 2 THEN 0 ELSE sub + 1) /\ sub' \in 0..2
  <2>1. palette \in Palettes /\ rindex \in Entries /\ sub \in 0..2 BY <1>1 DEF DacTypes
  <2>2. palette[rindex] \in [0..2 -> Nat] BY <2>1 DEF Palettes
  <2>3. palette[rindex][sub] \in Nat BY <2>1, <2>2
  <2>4. QED BY <1>2, <2>1, <2>3
<1>5. rindex' \in Entries
  <2>1. rindex \in Nat /\ rindex + 1 \in Nat BY <1>1, <1>3 DEF DacTypes, Entries
  <2>2. (rindex + 1) % Colours \in Entries BY <1>3, <2>1 DEF Entries
  <2>3. QED BY <1>1, <1>2, <2>2 DEF DacTypes
<1>6. CASE feed.dir # "read"
  <2>1. feed' = [dir |-> "mixed", first |-> 0, bytes |-> <<>>, old |-> palette]
    BY <1>2, <1>6 DEF Moved, Feed
  <2>2. DacTypes'
    <3>1. 0 \in Entries /\ <<>> \in Seq(Nat) BY <1>3 DEF Entries
    <3>2. feed' \in [dir : {"read", "write", "mixed"}, first : Entries, bytes : Seq(Nat), old : Palettes]
      BY <1>1, <2>1, <3>1 DEF DacTypes
    <3>3. QED BY <1>1, <1>2, <1>4, <1>5, <3>2 DEF DacTypes
  <2>3. QED BY <2>1, <2>2 DEF DacInv
<1>7. CASE feed.dir = "read"
  <2>1. PICK q \in Nat : Len(feed.bytes) = 3 * q + sub /\ Reading(q) BY <1>7 DEF DacInv
  <2>2. PICK s : s = feed.bytes OBVIOUS
  <2>3. s \in Seq(Nat) BY <1>1, <2>2 DEF DacTypes
  <2>4. feed' = [feed EXCEPT !.bytes = Append(s, b)] BY <1>2, <1>7, <2>2 DEF Moved
  <2>5. feed'.dir = "read" /\ feed'.first = feed.first /\ feed'.bytes = Append(s, b)
        /\ feed' \in [dir : {"read", "write", "mixed"}, first : Entries, bytes : Seq(Nat), old : Palettes]
    BY <1>1, <1>4, <1>7, <2>3, <2>4, OneMore DEF DacTypes
  <2>6. DacTypes' BY <1>1, <1>2, <1>4, <1>5, <2>5 DEF DacTypes
  <2>7. /\ Len(s) = 3 * q + sub /\ Len(feed'.bytes) = 3 * q + sub + 1
        /\ feed'.bytes[3 * q + sub + 1] = b
        /\ \A i \in Nat : i < 3 * q + sub => feed'.bytes[i + 1] = feed.bytes[i + 1]
    BY <1>4, <2>1, <2>2, <2>3, <2>5, OneMore
  <2>8. \A k : Entry(k)' = Entry(k) BY <2>5 DEF Entry
  <2>9. ASSUME NEW k \in Nat, NEW x \in 0..2, 3 * k + x < Len(feed'.bytes)
        PROVE  Byte3(k, x)' = palette'[Entry(k)'][x]
    <3>1. CASE 3 * k + x < 3 * q + sub
      <4>1. PICK i \in Nat : i = 3 * k + x OBVIOUS
      <4>2. feed'.bytes[i + 1] = feed.bytes[i + 1] BY <2>7, <3>1, <4>1
      <4>3. Byte3(k, x)' = Byte3(k, x) BY <4>1, <4>2 DEF Byte3
      <4>4. QED BY <1>2, <2>1, <2>8, <3>1, <4>3 DEF Reading
    <3>2. CASE ~(3 * k + x < 3 * q + sub)
      <4>1. k = q /\ x = sub
        <5>1. sub \in 0..2 BY <1>1 DEF DacTypes
        <5>2. 3 * k + x = 3 * q + sub BY <2>7, <2>9, <3>2, <5>1
        <5>3. QED BY <5>1, <5>2
      <4>2. feed'.bytes[3 * k + x + 1] = b BY <2>7, <4>1
      <4>4. Byte3(k, x)' = b BY <4>2 DEF Byte3
      <4>5. QED BY <1>2, <2>1, <2>8, <4>1, <4>4 DEF Reading
    <3>3. QED BY <3>1, <3>2
  <2>10. CASE sub # 2
    <3>1. Len(feed'.bytes) = 3 * q + sub' BY <1>1, <1>4, <2>7, <2>10 DEF DacTypes
    <3>2. rindex' = Entry(q)' BY <1>2, <2>1, <2>8, <2>10 DEF Reading
    <3>3. Reading(q)' BY <2>9, <3>2 DEF Reading
    <3>4. QED BY <2>5, <2>6, <3>1, <3>3 DEF DacInv
  <2>11. CASE sub = 2
    <3>1. Len(feed'.bytes) = 3 * (q + 1) + sub' BY <1>4, <2>7, <2>11
    <3>2. rindex' = Entry(q + 1)'
      <4>1. feed.first \in Nat /\ feed.first + q \in Nat BY <1>1, <1>3 DEF DacTypes, Entries
      <4>2. rindex = (feed.first + q) % Colours BY <2>1 DEF Reading, Entry
      <4>3. (((feed.first + q) % Colours) + 1) % Colours = ((feed.first + q) + 1) % Colours
        BY <1>3, <4>1, NextEntry
      <4>4. (feed.first + q) + 1 = feed.first + (q + 1) BY <4>1
      <4>5. QED BY <1>2, <2>8, <2>11, <4>2, <4>3, <4>4 DEF Entry
    <3>3. Reading(q + 1)' BY <2>9, <3>2 DEF Reading
    <3>4. q + 1 \in Nat OBVIOUS
    <3>5. QED BY <2>5, <2>6, <3>1, <3>3, <3>4 DEF DacInv
  <2>12. QED BY <2>10, <2>11
<1>8. QED BY <1>6, <1>7

LEMMA IndexStep ==
    ASSUME PortsSizes, DacInv, NEW dir \in {"read", "write"}, NEW i \in First, WriteIndex(dir, i)
    PROVE  DacInv'
<1>1. DacTypes BY DEF DacInv
<1>2. /\ sub' = 0 /\ ports' \in Nat /\ UNCHANGED <<palette, cache>>
      /\ feed' = [dir |-> dir, first |-> i, bytes |-> <<>>, old |-> palette]
      /\ IF dir = "read" THEN rindex' = i /\ windex' = windex ELSE windex' = i /\ rindex' = rindex
  BY <1>1 DEF WriteIndex, Access, DacTypes, Feed
<1>3. i \in Entries /\ Colours \in Nat \ {0} BY DEF PortsSizes, Entries
<1>4. feed' \in [dir : {"read", "write", "mixed"}, first : Entries, bytes : Seq(Nat), old : Palettes]
  <2>1. <<>> \in Seq(Nat) OBVIOUS
  <2>2. QED BY <1>1, <1>2, <1>3, <2>1 DEF DacTypes
<1>5. DacTypes' BY <1>1, <1>2, <1>3, <1>4 DEF DacTypes
<1>6. Len(feed'.bytes) = 3 * 0 + sub' /\ feed'.dir = dir BY <1>2
<1>7. Entry(0)' = i
  <2>1. feed'.first = i /\ i \in Nat /\ i < Colours BY <1>2, <1>3 DEF Entries
  <2>2. (i + 0) % Colours = i BY <1>3, <2>1
  <2>3. QED BY <2>1, <2>2 DEF Entry
<1>8. dir = "write" => Writing(0)'
  <2> SUFFICES ASSUME dir = "write" PROVE Writing(0)' OBVIOUS
  <2>1. windex' = Entry(0)' BY <1>2, <1>7
  <2>2. \A c \in 0..2 : ~(c < sub') BY <1>2
  <2>3. \A j \in Entries, c \in 0..2 : Painted(0, j, c)' BY <1>2 DEF Painted
  <2>4. QED BY <2>1, <2>2, <2>3 DEF Writing
<1>9. dir = "read" => Reading(0)'
  <2> SUFFICES ASSUME dir = "read" PROVE Reading(0)' OBVIOUS
  <2>1. rindex' = Entry(0)' BY <1>2, <1>7
  <2>2. \A k \in Nat, c \in 0..2 : ~(3 * k + c < Len(feed'.bytes)) BY <1>2
  <2>3. QED BY <2>1, <2>2 DEF Reading
<1>10. QED BY <1>5, <1>6, <1>8, <1>9 DEF DacInv

LEMMA PaletteShown ==
    ASSUME PortsSizes, DacInv
    PROVE  PaletteExact
<1> DEFINE n == Len(feed.bytes)
<1>1. DacTypes BY DEF DacInv
<1>2. ASSUME feed.dir = "write", NEW i \in DOMAIN palette, NEW c \in 0..2,
             NEW mine, mine = {k \in 0 .. n \div 3 - 1 : Entry(k) = i}
      PROVE  palette[i][c] = IF mine = {} THEN feed.old[i][c]
                             ELSE Byte3(CHOOSE k \in mine : \A j \in mine : j <= k, c)
  <2>1. PICK q \in Nat : n = 3 * q + sub /\ Writing(q) BY <1>2 DEF DacInv
  <2>2. n \div 3 = q BY <1>1, <2>1 DEF DacTypes
  <2>3. i \in Entries BY <1>1, <1>2 DEF DacTypes, Palettes
  <2>4. Painted(q, i, c) BY <2>1, <2>3 DEF Writing
  <2>5. mine = {k \in 0 .. q - 1 : Entry(k) = i} BY <1>2, <2>2
  <2>6. CASE (\A k \in 0 .. q - 1 : Entry(k) # i) /\ palette[i][c] = feed.old[i][c] BY <2>5, <2>6
  <2>7. CASE \E k \in 0 .. q - 1 : /\ Entry(k) = i /\ palette[i][c] = Byte3(k, c)
                                   /\ \A j \in 0 .. q - 1 : Entry(j) = i => j <= k
    <3>1. PICK k \in 0 .. q - 1 : /\ Entry(k) = i /\ palette[i][c] = Byte3(k, c)
                                  /\ \A j \in 0 .. q - 1 : Entry(j) = i => j <= k
      BY <2>7
    <3>2. k \in mine /\ (\A j \in mine : j <= k) /\ \A j \in mine : j \in Int BY <2>5, <3>1
    <3>3. PICK m : m = CHOOSE x \in mine : \A j \in mine : j <= x OBVIOUS
    <3>4. m \in mine /\ \A j \in mine : j <= m BY <3>2, <3>3
    <3>5. m = k BY <3>2, <3>4
    <3>6. QED BY <3>1, <3>2, <3>3, <3>5
  <2>8. QED BY <2>4, <2>6, <2>7 DEF Painted
<1>3. ASSUME feed.dir = "read", NEW m \in 1..n
      PROVE  feed.bytes[m] = palette[Entry((m - 1) \div 3)][(m - 1) % 3]
  <2>1. PICK q \in Nat : Reading(q) BY <1>3 DEF DacInv
  <2>2. n \in Nat BY <1>1 DEF DacTypes
  <2>3. PICK k : k = (m - 1) \div 3 OBVIOUS
  <2>4. PICK c : c = (m - 1) % 3 OBVIOUS
  <2>5. k \in Nat /\ c \in 0..2 /\ m = 3 * k + c + 1 BY <2>2, <2>3, <2>4
  <2>6. Byte3(k, c) = palette[Entry(k)][c] BY <2>1, <2>2, <2>5 DEF Reading
  <2>7. QED BY <2>3, <2>4, <2>5, <2>6 DEF Byte3
<1>4. QED BY <1>2, <1>3 DEF PaletteExact

-----------------------------------------------------------------------------
(* The attribute controller. *)

AttrInv ==
    /\ flip \in {0, 1} /\ arIndex \in 0..63 /\ DOMAIN ar = 0..20 /\ ar = [i \in 0..20 |-> ar[i]]
    /\ pair.at = "index" => flip = 1 /\ pair.i \in 0..255 /\ arIndex = pair.i % 64
    /\ pair.at = "sync" => flip = 0
    /\ pair.at = "sync" /\ pair.v # 0 =>
         /\ pair.i \in 0..255 /\ arIndex = pair.i % 64
         /\ arIndex % 32 \in 0..20 => ar[arIndex % 32] = Kept(arIndex % 32, pair.v)

LEMMA AttrStep ==
    ASSUME PortsSizes, AttrInv, NEW v \in Attrs \cup Data, WriteAttr(v)
    PROVE  AttrInv'
<1>1. v \in 0..255 BY DEF PortsSizes
<1>2. flip' = 1 - flip /\ flip' \in {0, 1} BY DEF WriteAttr, AttrInv
<1>3. CASE flip = 0
  <2>1. arIndex' = v % 64 /\ ar' = ar /\ flip' = 1 BY <1>2, <1>3 DEF WriteAttr
  <2>2. v % 64 \in 0..63 BY <1>1
  <2>3. pair.at # "index" BY <1>3 DEF AttrInv
  <2>4. CASE pair.at = "sync"
    <3>1. pair' = [at |-> "index", i |-> v, v |-> v] BY <2>4 DEF WriteAttr
    <3>2. QED BY <1>1, <2>1, <2>2, <3>1 DEF AttrInv
  <2>5. CASE pair.at # "sync"
    <3>1. pair' = pair BY <2>3, <2>5 DEF WriteAttr
    <3>2. QED BY <2>1, <2>2, <2>3, <2>5, <3>1 DEF AttrInv
  <2>6. QED BY <2>4, <2>5
<1>4. CASE flip # 0
  <2> DEFINE i == arIndex % 32
  <2>1. flip = 1 /\ flip' = 0 /\ arIndex' = arIndex BY <1>2, <1>4 DEF AttrInv, WriteAttr
  <2>2. ar' = IF i \in DOMAIN ar THEN [ar EXCEPT ![i] = Kept(i, v)] ELSE ar BY <1>4 DEF WriteAttr
  <2>3. DOMAIN ar = 0..20 /\ ar = [j \in 0..20 |-> ar[j]] BY DEF AttrInv
  <2>4. DOMAIN ar' = 0..20 /\ ar' = [j \in 0..20 |-> ar'[j]] /\ (i \in 0..20 => ar'[i] = Kept(i, v))
    BY <2>2, <2>3
  <2>5. pair.at # "sync" BY <2>1 DEF AttrInv
  <2>6. CASE pair.at = "index"
    <3>1. pair' = [at |-> "sync", i |-> pair.i, v |-> v] BY <2>6 DEF WriteAttr
    <3>2. pair'.i \in 0..255 /\ arIndex = pair'.i % 64 /\ pair'.at = "sync" /\ pair'.v = v
      BY <2>6, <3>1 DEF AttrInv
    <3>3. arIndex' \in 0..63 BY <2>1 DEF AttrInv
    <3>4. QED BY <2>1, <2>4, <3>2, <3>3 DEF AttrInv
  <2>7. CASE pair.at # "index"
    <3>1. pair' = pair BY <2>5, <2>7 DEF WriteAttr
    <3>2. arIndex' \in 0..63 BY <2>1 DEF AttrInv
    <3>3. QED BY <2>1, <2>4, <2>5, <2>7, <3>1, <3>2 DEF AttrInv
  <2>8. QED BY <2>6, <2>7
<1>5. QED BY <1>3, <1>4

LEMMA PairShown == AttrInv => PairExact
<1> SUFFICES ASSUME AttrInv PROVE PairExact OBVIOUS
<1>1. ASSUME pair.at = "sync", pair.i % 32 \in DOMAIN ar, pair.v # 0
      PROVE  vga_ioport_read.data = Kept(pair.i % 32, pair.v)
  <2>1. pair.i \in 0..255 /\ arIndex = pair.i % 64 /\ DOMAIN ar = 0..20 BY <1>1 DEF AttrInv
  <2>2. arIndex % 32 = pair.i % 32 BY <2>1
  <2>3. ar[arIndex % 32] = Kept(arIndex % 32, pair.v) BY <1>1, <2>1, <2>2 DEF AttrInv
  <2>4. vga_ioport_read.data = ar[arIndex % 32] BY <1>1, <2>2 DEF vga_ioport_read
  <2>5. QED BY <2>2, <2>3, <2>4
<1>2. QED BY <1>1 DEF PairExact, AttrInv

-----------------------------------------------------------------------------

\* A guest that keeps to the protocol of a port with a hidden position fills and
\* reads the palette, and sets the attributes, it meant to, for every palette and
\* however much it moves, when 0x3da in colour emulation brought it in step; the
\* board has no 0x3ba (vga_ioport_read, vga_ioport_write, pc_io_read).
THEOREM PortsSafe ==
    ASSUME PortsSizes
    PROVE  PortsSpec => []PortsExact
<1>1. PortsInit => DacInv /\ AttrInv
  <2> SUFFICES ASSUME PortsInit PROVE DacInv /\ AttrInv OBVIOUS
  <2>1. Colours \in Nat \ {0} /\ 0 \in Entries /\ <<>> \in Seq(Nat) BY DEF PortsSizes, Entries
  <2>2. palette \in Palettes
    <3>1. palette = [i \in Entries |-> [c \in 0..2 |-> 100 + 3 * i + c]] BY DEF PortsInit, Entries
    <3>2. \A i \in Entries : [c \in 0..2 |-> 100 + 3 * i + c] \in [0..2 -> Nat] BY DEF Entries
    <3>3. QED BY <3>1, <3>2 DEF Palettes
  <2>3. feed = [dir |-> "mixed", first |-> 0, bytes |-> <<>>, old |-> palette] BY DEF PortsInit
  <2>4. feed \in [dir : {"read", "write", "mixed"}, first : Entries, bytes : Seq(Nat), old : Palettes]
    BY <2>1, <2>2, <2>3
  <2>5. cache \in [0..2 -> Nat] BY DEF PortsInit
  <2>6. DacTypes BY <2>1, <2>2, <2>4, <2>5 DEF DacTypes, PortsInit
  <2>7. DacInv BY <2>3, <2>6 DEF DacInv
  <2>8. AttrInv BY DEF PortsInit, AttrInv
  <2>9. QED BY <2>7, <2>8
<1>2. PortsSizes /\ DacInv /\ AttrInv /\ [PortsNext]_portVars => DacInv' /\ AttrInv'
  <2> SUFFICES ASSUME PortsSizes, DacInv, AttrInv, [PortsNext]_portVars PROVE DacInv' /\ AttrInv' OBVIOUS
  <2>1. ASSUME UNCHANGED dacVars, ports' \in Nat PROVE DacInv'
    <3>1. UNCHANGED <<palette, cache, sub, rindex, windex, feed>> BY <2>1 DEF dacVars
    <3>2. DacTypes' BY <2>1, <3>1 DEF DacInv, DacTypes
    <3>3. \A q : (Writing(q) => Writing(q)') /\ (Reading(q) => Reading(q)')
      BY <3>1 DEF Writing, Reading, Painted, Entry, Byte3
    <3>4. QED BY <3>1, <3>2, <3>3 DEF DacInv
  <2>2. ASSUME UNCHANGED attrVars PROVE AttrInv' BY <2>2 DEF attrVars, AttrInv
  <2>3. ports \in Nat BY DEF DacInv, DacTypes
  <2>4. ASSUME NEW dir \in {"read", "write"}, NEW i \in First, WriteIndex(dir, i) PROVE DacInv' /\ AttrInv'
    BY <2>2, <2>4, IndexStep DEF WriteIndex
  <2>5. CASE WriteDac(ports) BY <2>2, <2>3, <2>5, WriteStep DEF WriteDac
  <2>6. CASE ReadDac BY <2>2, <2>6, ReadStep DEF ReadDac
  <2>7. ASSUME NEW v \in Attrs \cup Data, WriteAttr(v) PROVE DacInv' /\ AttrInv'
    <3>1. UNCHANGED dacVars /\ ports' \in Nat BY <2>3, <2>7 DEF WriteAttr, Access
    <3>2. QED BY <2>1, <2>7, <3>1, AttrStep
  <2>8. ASSUME NEW colour, ReadStatus(colour) PROVE DacInv' /\ AttrInv'
    <3>1. UNCHANGED dacVars /\ ports' \in Nat BY <2>3, <2>8 DEF ReadStatus, Access
    <3>2. UNCHANGED <<ar, arIndex>> BY <2>8 DEF ReadStatus
    <3>3. CASE Heard(colour)
      <4>1. flip' = 0 /\ pair' = [at |-> "sync", i |-> 0, v |-> 0] BY <2>8, <3>3 DEF ReadStatus
      <4>2. AttrInv' BY <3>2, <4>1 DEF AttrInv
      <4>3. QED BY <2>1, <3>1, <4>2
    <3>4. CASE ~Heard(colour)
      <4>1. flip' = flip /\ pair' = pair BY <2>8, <3>4 DEF ReadStatus
      <4>2. AttrInv' BY <3>2, <4>1 DEF AttrInv
      <4>3. QED BY <2>1, <3>1, <4>2
    <3>5. QED BY <3>3, <3>4
  <2>9. ASSUME NEW colour, WriteMsr(colour) PROVE DacInv' /\ AttrInv'
    <3>1. UNCHANGED dacVars /\ ports' \in Nat BY <2>3, <2>9 DEF WriteMsr, Access
    <3>2. AttrInv' BY <2>9 DEF WriteMsr, AttrInv
    <3>3. QED BY <2>1, <3>1, <3>2
  <2>10. CASE UNCHANGED portVars BY <2>1, <2>2, <2>3, <2>10 DEF portVars
  <2>11. QED BY <2>4, <2>5, <2>6, <2>7, <2>8, <2>9, <2>10 DEF PortsNext, DacNext, AttrNext
<1>3. PortsSizes /\ DacInv /\ AttrInv => PortsExact BY PaletteShown, PairShown DEF PortsExact
<1>4. QED BY <1>1, <1>2, <1>3, PTL DEF PortsSpec


-----------------------------------------------------------------------------
(* Video memory.                                                           *)

Registers == sr \in Sequencer /\ gr \in Controller /\ bank \in Nat
VideoInv == ram \in [Cell -> Byte] /\ latch \in [Planes -> Byte] /\ Registers

LEMMA QuotientIs ==
    ASSUME NEW k \in Int, NEW p \in Planes
    PROVE  (4 * k + p) \div 4 = k /\ (4 * k + p) % 4 = p
BY DEF Planes

LEMMA PlaneOf ==
    ASSUME NEW c \in Int
    PROVE  c % 4 \in Planes /\ c \div 4 \in Int /\ c = 4 * (c \div 4) + (c % 4)
BY DEF Planes

\* The planes of a byte in video memory are all there.
LEMMA CellsOf ==
    ASSUME VideoSizes, NEW k \in Nat, 4 * k < RamSize, NEW p \in Planes
    PROVE  4 * k + p \in Cell
<1>1. PICK s \in Int : Span = 8 * s  BY DEF VideoSizes
<1>2. Span \div 2 = 4 * s /\ s > 0  BY <1>1 DEF VideoSizes
<1>3. PICK q \in Int : RamSize = (4 * s) * q
  <2> DEFINE h == 4 * s
  <2>1. h \in Int /\ h > 0 /\ RamSize % h = 0 /\ RamSize \in Int  BY <1>2 DEF VideoSizes
  <2> HIDE DEF h
  <2>2. RamSize = h * (RamSize \div h) + (RamSize % h) /\ RamSize \div h \in Int  BY <2>1
  <2>3. RamSize = h * (RamSize \div h)  BY <2>1, <2>2
  <2>4. QED  BY <2>2, <2>3 DEF h
<1>4. PICK t \in Int : t = s * q  OBVIOUS
<1>5. RamSize = 4 * t  BY <1>3, <1>4
<1>6. QED  BY <1>5 DEF Cell, Planes, VideoSizes

\* A window address stands for one offset at most.
LEMMA OneOffset ==
    ASSUME VideoSizes, Registers, NEW a \in Nat
    PROVE  /\ Offset(a) \subseteq Nat
           /\ \A o \in Offset(a) : Offset(a) = {o} /\ (CHOOSE x \in Offset(a) : TRUE) = o
<1>1. gr.map \in 0..3 /\ bank \in Nat /\ Span \in Nat  BY DEF Registers, Controller, VideoSizes
<1>2. \E o \in Int : Offset(a) \subseteq {o}  
  <2>1. CASE gr.map = 0  BY <2>1 DEF Offset
  <2>2. CASE gr.map = 1  BY <1>1, <2>2 DEF Offset
  <2>3. CASE gr.map = 2  BY <1>1, <2>3 DEF Offset
  <2>4. CASE gr.map = 3  BY <1>1, <2>4 DEF Offset
  <2>5. QED  BY <1>1, <2>1, <2>2, <2>3, <2>4
<1>3. Offset(a) \subseteq Nat
  <2>1. CASE gr.map = 0  BY <2>1 DEF Offset
  <2>2. CASE gr.map = 1  BY <1>1, <2>2 DEF Offset
  <2>3. CASE gr.map = 2  BY <1>1, <2>3 DEF Offset
  <2>4. CASE gr.map = 3  BY <1>1, <2>4 DEF Offset
  <2>5. QED  BY <1>1, <2>1, <2>2, <2>3, <2>4
<1>4. QED  BY <1>2, <1>3

\* Inside the map, the next address stands for the next offset.
LEMMA NextOffset ==
    ASSUME VideoSizes, Registers, NEW a \in Nat, NEW o \in Offset(a), Offset(a + 1) # {}
    PROVE  Offset(a + 1) = {o + 1}
<1>1. gr.map \in 0..3 /\ bank \in Nat /\ Span \in Nat  BY DEF Registers, Controller, VideoSizes
<1>2. CASE gr.map = 0  BY <1>2 DEF Offset
<1>3. CASE gr.map = 1  BY <1>1, <1>3 DEF Offset
<1>4. CASE gr.map = 2  BY <1>1, <1>4 DEF Offset
<1>5. CASE gr.map = 3  BY <1>1, <1>5 DEF Offset
<1>6. QED  BY <1>1, <1>2, <1>3, <1>4, <1>5

-----------------------------------------------------------------------------

\* What a byte written through the window leaves: three ways to address memory.
LEMMA NowhereIs ==
    ASSUME NEW a, NEW was, NEW v, Offset(a) = {}
    PROVE  vga_mem_write(was, a, v) = was
BY DEF vga_mem_write

LEMMA Chain4Is ==
    ASSUME VideoSizes, Registers, NEW a \in Nat, NEW o \in Offset(a), NEW was, NEW v, sr.chain4
    PROVE  vga_mem_write(was, a, v) = IF o % 4 \in sr.mask THEN [was EXCEPT ![o] = v] ELSE was
<1>1. Offset(a) # {} /\ (CHOOSE x \in Offset(a) : TRUE) = o  BY OneOffset
<1>2. QED  BY <1>1 DEF vga_mem_write

LEMMA OddEvenIs ==
    ASSUME VideoSizes, Registers, NEW a \in Nat, NEW o \in Offset(a), NEW was, NEW v, ~sr.chain4, gr.oddeven
    PROVE  vga_mem_write(was, a, v)
             = IF OddEven(o) % 4 \in sr.mask /\ OddEven(o) \in Cell THEN [was EXCEPT ![OddEven(o)] = v] ELSE was
<1>1. Offset(a) # {} /\ (CHOOSE x \in Offset(a) : TRUE) = o  BY OneOffset
<1>2. QED  BY <1>1 DEF vga_mem_write

LEMMA PlanarIs ==
    ASSUME VideoSizes, Registers, NEW a \in Nat, NEW o \in Offset(a), NEW was, NEW v, Planar
    PROVE  vga_mem_write(was, a, v)
             = [c \in Cell |-> IF c \div 4 = o /\ c % 4 \in sr.mask THEN Latched(v)[c % 4] ELSE was[c]]
<1>1. Offset(a) # {} /\ (CHOOSE x \in Offset(a) : TRUE) = o  BY OneOffset
<1>2. ~sr.chain4 /\ ~gr.oddeven  BY DEF Planar
<1>3. QED  BY <1>1, <1>2 DEF vga_mem_write

LEMMA LatchedType ==
    ASSUME Registers, latch \in [Planes -> Byte], NEW v \in Byte
    PROVE  Latched(v) \in [Planes -> Byte]
<1> DEFINE set == [p \in Planes |-> IF p \in gr.enable THEN Spread(gr.sr)[p] ELSE Rotated(v)]
           val == CASE gr.mode = 0 -> set
                    [] gr.mode = 2 -> Spread(v \cap Planes)
                    [] OTHER -> Spread(gr.sr)
           mask == IF gr.mode = 3 THEN gr.mask \cap Rotated(v) ELSE gr.mask
<1>1. gr.mask \subseteq Pixel  BY DEF Registers, Controller, Byte
<1>2. mask \subseteq Pixel  BY <1>1
<1>3. Latched(v) = IF gr.mode = 1 THEN latch
        ELSE [p \in Planes |-> (Combine(gr.func, val[p], latch[p]) \cap mask) \cup (latch[p] \ mask)]
  BY DEF Latched
<1> HIDE DEF val, mask, set
<1>4. QED  BY <1>2, <1>3 DEF Byte

LEMMA WriteType ==
    ASSUME VideoSizes, VideoInv, NEW a \in Nat, NEW was \in [Cell -> Byte], NEW v \in Byte
    PROVE  vga_mem_write(was, a, v) \in [Cell -> Byte]
<1>1. CASE Offset(a) = {}  BY <1>1, NowhereIs
<1>2. ASSUME NEW o \in Offset(a) PROVE vga_mem_write(was, a, v) \in [Cell -> Byte]
  <2>1. CASE sr.chain4  BY <2>1, Chain4Is DEF VideoInv
  <2>2. CASE ~sr.chain4 /\ gr.oddeven  BY <2>2, OddEvenIs DEF VideoInv
  <2>3. CASE Planar
    <3>1. \A c \in Cell : c % 4 \in Planes  BY PlaneOf DEF Cell
    <3>2. Latched(v) \in [Planes -> Byte] /\ Registers  BY LatchedType DEF VideoInv
    <3>3. vga_mem_write(was, a, v)
            = [c \in Cell |-> IF c \div 4 = o /\ c % 4 \in sr.mask THEN Latched(v)[c % 4] ELSE was[c]]
      BY <2>3, <3>2, PlanarIs
    <3>4. QED  BY <3>1, <3>2, <3>3
  <2>4. QED  BY <2>1, <2>2, <2>3 DEF Planar
<1>3. QED  BY <1>1, <1>2

\* Two bytes, one after the other.
LEMMA TwoBytes ==
    ASSUME NEW a \in Nat, NEW was, NEW v, NEW u
    PROVE  Bytewise(was, a, <<v, u>>) = vga_mem_write(vga_mem_write(was, a, v), a + 1, u)
<1> DEFINE vs == <<v, u>>
           one == vga_mem_write(was, a, v)
           two == vga_mem_write(one, a + 1, u)
           F(g) == [i \in 0 .. Len(vs) |-> IF i = 0 THEN was ELSE vga_mem_write(g[i - 1], a + i - 1, vs[i])]
           f == CHOOSE g : g = F(g)
           h == [i \in 0 .. Len(vs) |-> IF i = 0 THEN was ELSE IF i = 1 THEN one ELSE two]
<1>1. Len(vs) = 2 /\ vs[1] = v /\ vs[2] = u  OBVIOUS
<1>2. h[0] = was /\ h[1] = one /\ h[2] = two  BY <1>1
<1>3. h = F(h)
  <2>1. \A i \in 0 .. Len(vs) :
          h[i] = IF i = 0 THEN was ELSE vga_mem_write(h[i - 1], a + i - 1, vs[i])
    <3>1. TAKE i \in 0 .. Len(vs)
    <3>2. i = 0 \/ i = 1 \/ i = 2  BY <1>1
    <3>3. a + 1 - 1 = a /\ a + 2 - 1 = a + 1 /\ 1 - 1 = 0 /\ 2 - 1 = 1  OBVIOUS
    <3> HIDE DEF vs, h
    <3>4. CASE i = 0  BY <3>4, <1>2
    <3>5. CASE i = 1  BY <3>5, <1>1, <1>2, <3>3
    <3>6. CASE i = 2  BY <3>6, <1>1, <1>2, <3>3
    <3>7. QED  BY <3>2, <3>4, <3>5, <3>6
  <2> HIDE DEF vs
  <2>2. h = [i \in 0 .. Len(vs) |-> h[i]]  OBVIOUS
  <2> HIDE DEF h
  <2>3. QED  BY <2>1, <2>2
<1>4. f = F(f)
  <2> HIDE DEF F, h
  <2>1. QED  BY <1>3
<1>5. Bytewise(was, a, vs) = f[Len(vs)]  BY DEF Bytewise
<1> HIDE DEF f
<1>6. f[0] = was  BY <1>1, <1>4
<1>7. f[1] = one
  <2>1. f[1] = vga_mem_write(f[1 - 1], a + 1 - 1, vs[1])  BY <1>1, <1>4
  <2>2. a + 1 - 1 = a /\ 1 - 1 = 0  OBVIOUS
  <2> HIDE DEF vs
  <2>3. QED  BY <1>1, <1>6, <2>1, <2>2
<1>8. f[2] = two
  <2>1. f[2] = vga_mem_write(f[2 - 1], a + 2 - 1, vs[2])  BY <1>1, <1>4
  <2>2. a + 2 - 1 = a + 1 /\ 2 - 1 = 1  OBVIOUS
  <2> HIDE DEF vs
  <2>3. QED  BY <1>1, <1>7, <2>1, <2>2
<1>9. QED  BY <1>1, <1>5, <1>8

LEMMA PutType ==
    ASSUME NEW was \in [Cell -> Byte], NEW o \in Int, NEW v \in Byte, NEW u \in Byte
    PROVE  /\ Put(was, o, <<v>>) \in [Cell -> Byte]
           /\ Put(was, o, <<v, u>>) \in [Cell -> Byte]
<1>1. \A c \in Cell : c \in o .. o + 1 - 1 => c - o + 1 = 1  BY DEF Cell
<1>2. \A c \in Cell : c \in o .. o + 2 - 1 => c - o + 1 = 1 \/ c - o + 1 = 2  BY DEF Cell
<1>3. Put(was, o, <<v>>) \in [Cell -> Byte]  BY <1>1 DEF Put
<1>4. Put(was, o, <<v, u>>) \in [Cell -> Byte]  BY <1>2 DEF Put
<1>5. QED  BY <1>3, <1>4

\* Two bytes put at once are two bytes put one by one.
LEMMA PutIs ==
    ASSUME NEW was \in [Cell -> Byte], NEW o \in Int, NEW v, NEW u, NEW one, one = [was EXCEPT ![o] = v]
    PROVE  Put(was, o, <<v, u>>) = [one EXCEPT ![o + 1] = u]
<1> DEFINE vs == <<v, u>>
           two == [one EXCEPT ![o + 1] = u]
<1>1. Len(vs) = 2 /\ vs[1] = v /\ vs[2] = u  OBVIOUS
<1>2. two = [c \in Cell |-> two[c]]  OBVIOUS
<1>3. \A c \in Cell : two[c] = IF c = o + 1 THEN u ELSE IF c = o THEN v ELSE was[c]  BY DEF Cell
<1> HIDE DEF two, vs
<1>4. ASSUME NEW c \in Cell
      PROVE  (IF c \in o .. o + Len(vs) - 1 THEN vs[c - o + 1] ELSE was[c]) = two[c]
  <2>1. c \in Int  BY DEF Cell
  <2>2. c \in o .. o + Len(vs) - 1 <=> c = o \/ c = o + 1  BY <1>1, <2>1
  <2>3. c = o => c - o + 1 = 1  BY <2>1
  <2>4. c = o + 1 => c - o + 1 = 2 /\ c # o  BY <2>1
  <2>5. QED  BY <1>1, <1>3, <2>2, <2>3, <2>4
<1>5. Put(was, o, vs) = [c \in Cell |-> two[c]]  BY <1>4 DEF Put
<1>6. QED  BY <1>2, <1>5 DEF two, vs

-----------------------------------------------------------------------------

LEMMA StepTypes ==
    ASSUME VideoSizes, VideoInv, NEW a \in Addrs, NEW v \in Values, NEW u \in Values
    PROVE  /\ a \in Nat /\ v \in Byte /\ u \in Byte
           /\ Put(ram, a, <<v>>) \in [Cell -> Byte] /\ Put(ram, a, <<v, u>>) \in [Cell -> Byte]
           /\ Bytewise(ram, a, <<v, u>>) \in [Cell -> Byte]
           /\ Chained(ram, a, <<v, u>>) \in [Cell -> Byte]
           /\ vga_mem_write(ram, a, v) \in [Cell -> Byte]
<1>1. a \in Nat /\ v \in Byte /\ u \in Byte /\ ram \in [Cell -> Byte]  BY DEF VideoSizes, VideoInv
<1>2. Put(ram, a, <<v>>) \in [Cell -> Byte] /\ Put(ram, a, <<v, u>>) \in [Cell -> Byte]  BY <1>1, PutType
<1>3. vga_mem_write(ram, a, v) \in [Cell -> Byte]  BY <1>1, WriteType
<1>4. vga_mem_write(vga_mem_write(ram, a, v), a + 1, u) \in [Cell -> Byte]
  <2>1. a + 1 \in Nat  BY <1>1
  <2>2. QED  BY <1>1, <1>3, <2>1, WriteType
<1>5. Bytewise(ram, a, <<v, u>>) \in [Cell -> Byte]  BY <1>1, <1>4, TwoBytes
<1>6. Chained(ram, a, <<v, u>>) \in [Cell -> Byte]
  <2>1. CASE Offset(a) = {}  BY <1>1, <2>1 DEF Chained
  <2>2. ASSUME NEW o \in Offset(a) PROVE Chained(ram, a, <<v, u>>) \in [Cell -> Byte]
    <3>1. (CHOOSE x \in Offset(a) : TRUE) = o /\ o \in Int /\ Offset(a) # {}  BY <1>1, OneOffset DEF VideoInv
    <3>2. Put(ram, o, <<v, u>>) \in [Cell -> Byte]  BY <1>1, <3>1, PutType
    <3>3. Chained(ram, a, <<v, u>>) = IF o % 4 \in sr.mask THEN Put(ram, o, <<v, u>>) ELSE ram
      BY <3>1 DEF Chained
    <3>4. QED  BY <1>1, <3>2, <3>3
  <2>3. QED  BY <2>1, <2>2
<1>7. QED  BY <1>1, <1>2, <1>3, <1>5, <1>6

\* What a write leaves in memory.
LEMMA ByteRam ==
    ASSUME VideoSizes, VideoInv, NEW lfb \in BOOLEAN, NEW a \in Addrs, NEW v \in Values,
           Write("byte", lfb, a, <<v>>)
    PROVE  ram' \in [Cell -> Byte] /\ (~lfb => ram' = vga_mem_write(ram, a, v))
<1>1. CASE lfb
  <2>1. ram' = Put(ram, a, <<v>>)  BY <1>1 DEF Write
  <2>2. QED  BY <1>1, <2>1, StepTypes
<1>2. CASE ~lfb
  <2>1. ram' = vga_mem_write(ram, a, <<v>>[1])  BY <1>2 DEF Write
  <2>2. <<v>>[1] = v  OBVIOUS
  <2>3. QED  BY <2>1, <2>2, StepTypes
<1>3. QED  BY <1>1, <1>2

LEMMA WideRam ==
    ASSUME VideoSizes, VideoInv, NEW op \in {"wide", "string"}, NEW lfb \in BOOLEAN, NEW a \in Addrs,
           NEW v \in Values, NEW u \in Values, Write(op, lfb, a, <<v, u>>)
    PROVE  /\ ram' \in [Cell -> Byte]
           /\ ~lfb => \/ ram' = Bytewise(ram, a, <<v, u>>)
                      \/ sr.chain4 /\ ram' = Chained(ram, a, <<v, u>>)
<1>1. ram \in [Cell -> Byte] /\ sr.chain4 \in BOOLEAN  BY DEF VideoInv, Registers, Sequencer
<1>2. StringTaken(a) \in BOOLEAN /\ (StringTaken(a) => sr.chain4)  BY <1>1 DEF StringTaken
<1>3. op = "wide" \/ op = "string"  OBVIOUS
<1> DEFINE vs == <<v, u>>
<1> HIDE DEF vs
<1>4. Write(op, lfb, a, vs)  BY DEF vs
<1>5. CASE lfb
  <2>1. ram' = IF op = "wide" /\ a + Len(vs) - 1 \notin Cell THEN ram ELSE Put(ram, a, vs)
    BY <1>4, <1>5 DEF Write
  <2>2. Put(ram, a, vs) \in [Cell -> Byte]  BY StepTypes DEF vs
  <2>3. QED  BY <1>1, <1>5, <2>1, <2>2
<1>6. CASE ~lfb /\ op = "wide"
  <2>1. ram' = vga_mem_write_wide(ram, a, vs)  BY <1>4, <1>6 DEF Write
  <2>2. ram' = IF sr.chain4 THEN Chained(ram, a, vs) ELSE Bytewise(ram, a, vs)
    BY <2>1 DEF vga_mem_write_wide
  <2>3. QED  BY <1>1, <1>6, <2>2, StepTypes DEF vs
<1>7. CASE ~lfb /\ op = "string" /\ ~StringTaken(a)
  <2>1. ram' = Bytewise(ram, a, vs)  BY <1>4, <1>7 DEF Write
  <2>2. QED  BY <2>1, StepTypes DEF vs
<1>8. CASE ~lfb /\ op = "string" /\ StringTaken(a)
  <2>1. ram' = Chained(ram, a, vs)  BY <1>4, <1>8 DEF Write
  <2>2. QED  BY <1>2, <1>8, <2>1, StepTypes DEF vs
<1>9. QED  BY <1>2, <1>3, <1>5, <1>6, <1>7, <1>8

\* In chain-4 mode, two bytes under one mask of planes are two bytes one by one.
LEMMA ChainedIs ==
    ASSUME VideoSizes, VideoInv, NEW a \in Addrs, NEW v \in Values, NEW u \in Values,
           sr.chain4, sr.mask = Planes \/ sr.mask = {}, Offset(a) # {}, Offset(a + 1) # {}
    PROVE  Chained(ram, a, <<v, u>>) = Bytewise(ram, a, <<v, u>>)
<1>1. a \in Nat /\ a + 1 \in Nat /\ v \in Byte /\ u \in Byte /\ ram \in [Cell -> Byte] /\ Registers
  BY DEF VideoSizes, VideoInv
<1>2. PICK o \in Offset(a) : TRUE  OBVIOUS
<1>3. o \in Nat /\ (CHOOSE x \in Offset(a) : TRUE) = o  BY <1>1, OneOffset
<1>4. o + 1 \in Offset(a + 1)  BY <1>1, NextOffset
<1>5. o % 4 \in Planes /\ (o + 1) % 4 \in Planes  BY <1>3, PlaneOf
<1>6. Chained(ram, a, <<v, u>>) = IF o % 4 \in sr.mask THEN Put(ram, o, <<v, u>>) ELSE ram  BY <1>3 DEF Chained
<1> DEFINE one == vga_mem_write(ram, a, v)
<1>7. one = IF o % 4 \in sr.mask THEN [ram EXCEPT ![o] = v] ELSE ram  BY <1>1, Chain4Is
<1> HIDE DEF one
<1>8. vga_mem_write(one, a + 1, u) = IF (o + 1) % 4 \in sr.mask THEN [one EXCEPT ![o + 1] = u] ELSE one
  BY <1>1, <1>4, Chain4Is
<1>9. Bytewise(ram, a, <<v, u>>) = vga_mem_write(one, a + 1, u)  BY <1>1, TwoBytes DEF one
<1>10. CASE sr.mask = Planes
  <2>1. one = [ram EXCEPT ![o] = v]  BY <1>5, <1>7, <1>10
  <2>2. Put(ram, o, <<v, u>>) = [one EXCEPT ![o + 1] = u]
    <3>1. o \in Int /\ ram \in [Cell -> Byte]  BY <1>1, <1>3
    <3> HIDE DEF one
    <3>2. \A x \in [Cell -> Byte], oo \in Int : \A v0, w0, e :
            e = [x EXCEPT ![oo] = v0] => Put(x, oo, <<v0, w0>>) = [e EXCEPT ![oo + 1] = w0]
      BY PutIs
    <3>3. \A v0, w0, e :
            e = [ram EXCEPT ![o] = v0] => Put(ram, o, <<v0, w0>>) = [e EXCEPT ![o + 1] = w0]
      BY <3>1, <3>2
    <3>4. QED  BY <2>1, <3>3
  <2>3. QED  BY <1>5, <1>6, <1>8, <1>9, <1>10, <2>2
<1>11. CASE sr.mask = {}
  <2>1. Chained(ram, a, <<v, u>>) = ram  BY <1>6, <1>11
  <2>2. one = ram  BY <1>7, <1>11
  <2>3. QED  BY <1>8, <1>9, <1>11, <2>1, <2>2
<1>12. QED  BY <1>10, <1>11

-----------------------------------------------------------------------------
(* A byte through the window, pixel by pixel.                              *)

\* A write touches the enabled planes only.
LEMMA PlanesKept ==
    ASSUME VideoSizes, VideoInv, NEW a \in Nat, NEW v \in Byte
    PROVE  \A c \in Cell : vga_mem_write(ram, a, v)[c] # ram[c] => c % 4 \in sr.mask
<1>1. CASE Offset(a) = {}  BY <1>1, NowhereIs
<1>2. ASSUME NEW o \in Offset(a), NEW c \in Cell, vga_mem_write(ram, a, v)[c] # ram[c]
      PROVE  c % 4 \in sr.mask
  <2>1. ram \in [Cell -> Byte]  BY DEF VideoInv
  <2>2. CASE sr.chain4
    <3>1. vga_mem_write(ram, a, v) = IF o % 4 \in sr.mask THEN [ram EXCEPT ![o] = v] ELSE ram
      BY <2>2, Chain4Is DEF VideoInv
    <3>2. QED  BY <1>2, <2>1, <3>1
  <2>3. CASE ~sr.chain4 /\ gr.oddeven
    <3>1. vga_mem_write(ram, a, v)
            = IF OddEven(o) % 4 \in sr.mask /\ OddEven(o) \in Cell THEN [ram EXCEPT ![OddEven(o)] = v] ELSE ram
      BY <2>3, OddEvenIs DEF VideoInv
    <3>2. QED  BY <1>2, <2>1, <3>1
  <2>4. CASE Planar
    <3>1. vga_mem_write(ram, a, v)
            = [x \in Cell |-> IF x \div 4 = o /\ x % 4 \in sr.mask THEN Latched(v)[x % 4] ELSE ram[x]]
      BY <2>4, PlanarIs DEF VideoInv
    <3>2. QED  BY <1>2, <2>1, <3>1
  <2>5. QED  BY <2>2, <2>3, <2>4 DEF Planar
<1>3. QED  BY <1>1, <1>2

\* The colour a planar write leaves in the planes it may write.
LEMMA NewColour ==
    ASSUME VideoSizes, VideoInv, NEW a \in Nat, NEW v \in Byte, Planar,
           NEW k \in Offset(a), 4 * k < RamSize, NEW i
    PROVE  Colour(vga_mem_write(ram, a, v), k, i) \cap sr.mask = {p \in sr.mask : i \in Latched(v)[p]}
<1>1. k \in Nat /\ sr.mask \subseteq Planes /\ ram \in [Cell -> Byte]
  BY OneOffset DEF VideoInv, Registers, Sequencer
<1>2. ASSUME NEW p \in sr.mask PROVE vga_mem_write(ram, a, v)[4 * k + p] = Latched(v)[p]
  <2>1. p \in Planes /\ 4 * k + p \in Cell  BY <1>1, CellsOf
  <2>2. (4 * k + p) \div 4 = k /\ (4 * k + p) % 4 = p  BY <1>1, <2>1, QuotientIs
  <2>3. vga_mem_write(ram, a, v)
          = [c \in Cell |-> IF c \div 4 = k /\ c % 4 \in sr.mask THEN Latched(v)[c % 4] ELSE ram[c]]
    BY <1>1, PlanarIs DEF VideoInv
  <2>4. QED  BY <2>1, <2>2, <2>3
<1>3. QED  BY <1>1, <1>2 DEF Colour

\* One bit of the word offered to the planes.
LEMMA LatchedBit ==
    ASSUME VideoInv, NEW v \in Byte, NEW i \in Pixel, NEW p \in Planes
    PROVE  /\ gr.mode = 1 => Latched(v) = latch
           /\ gr.mode # 1 =>
                \E K : /\ i \in K <=> p \in Ink(v, i)
                       /\ i \in Latched(v)[p]
                            <=> IF i \in gr.mask /\ (gr.mode = 3 => (i + gr.rotate) % Bits \in v)
                                THEN i \in Combine(gr.func, K, latch[p]) ELSE i \in latch[p]
<1> DEFINE set == [q \in Planes |-> IF q \in gr.enable THEN Spread(gr.sr)[q] ELSE Rotated(v)]
           val == CASE gr.mode = 0 -> set
                    [] gr.mode = 2 -> Spread(v \cap Planes)
                    [] OTHER -> Spread(gr.sr)
           mask == IF gr.mode = 3 THEN gr.mask \cap Rotated(v) ELSE gr.mask
<1>1. Latched(v) = IF gr.mode = 1 THEN latch
        ELSE [q \in Planes |-> (Combine(gr.func, val[q], latch[q]) \cap mask) \cup (latch[q] \ mask)]
  BY DEF Latched
<1>2. i \in Rotated(v) <=> (i + gr.rotate) % Bits \in v  BY DEF Rotated
<1>3. i \in mask <=> i \in gr.mask /\ (gr.mode = 3 => (i + gr.rotate) % Bits \in v)  BY <1>2
<1>4. \A P \in SUBSET Planes : i \in Spread(P)[p] <=> p \in P  BY DEF Spread, All
<1>5. gr \in Controller  BY DEF VideoInv, Registers
<1>6. gr.sr \in SUBSET Planes /\ gr.enable \in SUBSET Planes /\ v \cap Planes \in SUBSET Planes
  BY <1>5 DEF Controller
<1>7. i \in val[p] <=> p \in Ink(v, i)
  <2>1. CASE gr.mode = 0
    <3>1. val[p] = IF p \in gr.enable THEN Spread(gr.sr)[p] ELSE Rotated(v)  BY <2>1
    <3>2. Ink(v, i) = (gr.sr \cap gr.enable)
                        \cup (IF (i + gr.rotate) % Bits \in v THEN Planes \ gr.enable ELSE {})
      BY <2>1 DEF Ink
    <3> HIDE DEF val
    <3>3. QED  BY <1>2, <1>4, <1>6, <3>1, <3>2
  <2>2. CASE gr.mode = 2
    <3>1. val = Spread(v \cap Planes)  BY <2>2
    <3>2. Ink(v, i) = v \cap Planes  BY <2>2 DEF Ink
    <3> HIDE DEF val
    <3>3. QED  BY <1>4, <1>6, <3>1, <3>2
  <2>3. CASE gr.mode # 0 /\ gr.mode # 2
    <3>1. val = Spread(gr.sr)  BY <2>3
    <3>2. Ink(v, i) = gr.sr  BY <2>3 DEF Ink
    <3> HIDE DEF val
    <3>3. QED  BY <1>4, <1>6, <3>1, <3>2
  <2>4. QED  BY <2>1, <2>2, <2>3
<1> HIDE DEF set, val, mask
<1>8. ASSUME gr.mode # 1
      PROVE  i \in Latched(v)[p] <=> IF i \in mask THEN i \in Combine(gr.func, val[p], latch[p]) ELSE i \in latch[p]
  BY <1>1, <1>8
<1>9. QED  BY <1>1, <1>3, <1>7, <1>8

\* The same logic, pixel by pixel of a plane or plane by plane of a pixel.
LEMMA CombineBit ==
    ASSUME NEW f, NEW i, NEW p, NEW X, NEW Y, NEW K, NEW L, i \in K <=> p \in X, i \in L <=> p \in Y
    PROVE  p \in Combine(f, X, Y) <=> i \in Combine(f, K, L)
BY DEF Combine

LEMMA ByteDraws ==
    ASSUME VideoSizes, VideoInv, NEW a \in Nat, NEW v \in Byte, Planar,
           NEW k \in Offset(a), 4 * k < RamSize, NEW i \in Pixel
    PROVE  LET new == Colour(vga_mem_write(ram, a, v), k, i) \cap sr.mask
               own == Colour(ram, k, i)
               hit == i \in gr.mask /\ (gr.mode = 3 => (i + gr.rotate) % Bits \in v)
           IN  /\ gr.mode = 1 => new = {p \in sr.mask : i \in latch[p]}
               /\ gr.mode # 1 /\ latch = PlanesAt(ram, k) =>
                    new = (IF hit THEN Combine(gr.func, Ink(v, i), own) ELSE own) \cap sr.mask
<1> DEFINE new == Colour(vga_mem_write(ram, a, v), k, i) \cap sr.mask
           own == Colour(ram, k, i)
           hit == i \in gr.mask /\ (gr.mode = 3 => (i + gr.rotate) % Bits \in v)
           drawn == IF hit THEN Combine(gr.func, Ink(v, i), own) ELSE own
<1>1. new = {p \in sr.mask : i \in Latched(v)[p]}  BY NewColour
<1>2. sr.mask \subseteq Planes  BY DEF VideoInv, Registers, Sequencer
<1>3. \E p : p \in Planes  BY DEF Planes
<1>4. ASSUME gr.mode = 1 PROVE new = {p \in sr.mask : i \in latch[p]}
  <2>1. Latched(v) = latch  BY <1>3, <1>4, LatchedBit
  <2> HIDE DEF new
  <2>2. QED  BY <1>1, <2>1
<1>5. ASSUME gr.mode # 1, latch = PlanesAt(ram, k) PROVE new = drawn \cap sr.mask
  <2>1. ASSUME NEW p \in sr.mask PROVE i \in Latched(v)[p] <=> p \in drawn
    <3>1. p \in Planes  BY <1>2
    <3>2. p \in own <=> i \in latch[p]  BY <1>5, <3>1 DEF Colour, PlanesAt
    <3>3. PICK K : /\ i \in K <=> p \in Ink(v, i)
                   /\ i \in Latched(v)[p]
                        <=> IF hit THEN i \in Combine(gr.func, K, latch[p]) ELSE i \in latch[p]
      BY <1>5, <3>1, LatchedBit
    <3> HIDE DEF own, hit
    <3>4. p \in Combine(gr.func, Ink(v, i), own) <=> i \in Combine(gr.func, K, latch[p])
      BY <3>2, <3>3, CombineBit
    <3>5. CASE hit  BY <3>3, <3>4, <3>5
    <3>6. CASE ~hit  BY <3>2, <3>3, <3>6
    <3>7. QED  BY <3>5, <3>6
  <2> HIDE DEF new, drawn
  <2>2. QED  BY <1>1, <2>1
<1>6. QED  BY <1>4, <1>5

\* A colour compare finds the pixels of the colour.
LEMMA CompareFinds ==
    ASSUME VideoSizes, VideoInv, NEW a \in Nat, Planar, gr.read1, NEW k \in Offset(a), 4 * k < RamSize
    PROVE  vga_mem_read(a).v = {i \in Pixel : Colour(ram, k, i) \cap gr.care = gr.compare \cap gr.care}
<1>1. k \in Nat /\ Offset(a) # {} /\ (CHOOSE x \in Offset(a) : TRUE) = k  BY OneOffset DEF VideoInv
<1>2. gr.care \subseteq Planes  BY DEF VideoInv, Registers, Controller
<1>3. ~sr.chain4 /\ ~gr.oddeven /\ ~(4 * k >= RamSize)  BY <1>1 DEF Planar, VideoSizes
<1> DEFINE u == PlanesAt(ram, k)
<1>4. vga_mem_read(a).v = {i \in Pixel : \A p \in gr.care : (i \in u[p]) = (p \in gr.compare)}
  BY <1>1, <1>3 DEF vga_mem_read
<1>5. ASSUME NEW i \in Pixel
      PROVE  (\A p \in gr.care : (i \in u[p]) = (p \in gr.compare))
             <=> Colour(ram, k, i) \cap gr.care = gr.compare \cap gr.care
  <2>1. \A p \in gr.care : p \in Colour(ram, k, i) <=> i \in u[p]  BY <1>2 DEF Colour, PlanesAt
  <2> HIDE DEF u
  <2>2. QED  BY <2>1
<1>6. QED  BY <1>4, <1>5

-----------------------------------------------------------------------------

LEMMA VideoStarts == VideoSizes /\ VgaInit => VideoInv
<1>1. SUFFICES ASSUME VideoSizes, VgaInit PROVE VideoInv  OBVIOUS
<1>2. ram \in [Cell -> Byte]  BY <1>1 DEF VgaInit, VideoSizes
<1>3. latch \in [Planes -> Byte]  BY <1>1 DEF VgaInit, Byte
<1>4. PICK s \in Settings : sr = s.sr /\ gr = s.gr /\ bank = s.bank  BY <1>1 DEF VgaInit
<1>5. s \in [sr : Sequencer, gr : Controller, bank : Nat]  BY <1>1 DEF VideoSizes
<1>6. QED  BY <1>2, <1>3, <1>4, <1>5 DEF VideoInv, Registers

\* A read keeps the types, and compares colours in planar mode.
LEMMA ReadSteps ==
    ASSUME VideoSizes, VideoInv, NEW lfb \in BOOLEAN, NEW a \in Addrs, Read8(lfb, a)
    PROVE  VideoInv' /\ PixelStep /\ WideStep
<1>1. a \in Nat  BY DEF VideoSizes
<1>2. /\ last' = [op |-> "read", lfb |-> lfb, a |-> a, vs |-> <<>>]
      /\ UNCHANGED <<sr, gr, bank, ram>>
  BY DEF Read8, Accessed
<1>3. last'.op = "read" /\ last'.lfb = lfb /\ last'.a = a  BY <1>2
<1>4. latch' \in [Planes -> Byte]
  <2>1. CASE lfb  BY <2>1 DEF Read8, VideoInv
  <2>2. CASE ~lfb
    <3>1. latch' = vga_mem_read(a).latch  BY <2>2 DEF Read8
    <3>2. CASE Offset(a) = {}  BY <3>1, <3>2 DEF vga_mem_read, VideoInv
    <3>3. ASSUME NEW o \in Offset(a) PROVE latch' \in [Planes -> Byte]
      <4>1. o \in Nat /\ Offset(a) # {} /\ (CHOOSE x \in Offset(a) : TRUE) = o  BY <1>1, OneOffset DEF VideoInv
      <4>2. sr.chain4 \in BOOLEAN /\ gr.oddeven \in BOOLEAN  BY DEF VideoInv, Registers, Sequencer, Controller
      <4>3. CASE sr.chain4  BY <3>1, <4>1, <4>3 DEF vga_mem_read, VideoInv
      <4>4. CASE ~sr.chain4 /\ gr.oddeven  BY <3>1, <4>1, <4>4 DEF vga_mem_read, VideoInv
      <4>5. CASE Planar /\ 4 * o >= RamSize
        <5>1. ~sr.chain4 /\ ~gr.oddeven /\ ~(4 * o < RamSize)  BY <4>1, <4>5 DEF Planar, VideoSizes
        <5>2. QED  BY <3>1, <4>1, <4>5, <5>1 DEF vga_mem_read, VideoInv
      <4>6. CASE Planar /\ 4 * o < RamSize
        <5>1. ~sr.chain4 /\ ~gr.oddeven /\ ~(4 * o >= RamSize)  BY <4>1, <4>6 DEF Planar, VideoSizes
        <5>2. latch' = PlanesAt(ram, o)  BY <3>1, <4>1, <4>6, <5>1 DEF vga_mem_read
        <5>3. \A p \in Planes : 4 * o + p \in Cell  BY <4>1, <4>6, CellsOf
        <5>4. \A p \in Planes : ram[4 * o + p] \in Byte  BY <5>3 DEF VideoInv
        <5>5. QED  BY <5>2, <5>4 DEF PlanesAt
      <4>7. 4 * o < RamSize \/ 4 * o >= RamSize  BY <4>1 DEF VideoSizes
      <4>8. sr.chain4 \/ (~sr.chain4 /\ gr.oddeven) \/ Planar  BY DEF Planar
      <4>9. QED  BY <4>3, <4>4, <4>5, <4>6, <4>7, <4>8
    <3>4. QED  BY <3>2, <3>3
  <2>3. QED  BY <2>1, <2>2
<1>5. VideoInv'  BY <1>2, <1>4 DEF VideoInv, Registers
<1>6. PixelStep
  <2>1. SUFFICES ASSUME ~lfb, Planar, gr.read1, NEW k \in Offset(a), 4 * k < RamSize
                 PROVE  got' = {i \in Pixel : Colour(ram, k, i) \cap gr.care = gr.compare \cap gr.care}
    BY <1>3 DEF PixelStep
  <2>2. got' = vga_mem_read(a).v  BY <2>1 DEF Read8
  <2>3. QED  BY <1>1, <2>1, <2>2, CompareFinds
<1>7. WideStep  BY <1>3 DEF WideStep
<1>8. QED  BY <1>5, <1>6, <1>7

LEMMA ByteSteps ==
    ASSUME VideoSizes, VideoInv, NEW lfb \in BOOLEAN, NEW a \in Addrs, NEW v \in Values, Write("byte", lfb, a, <<v>>)
    PROVE  VideoInv' /\ PixelStep /\ WideStep
<1>1. /\ last' = [op |-> "byte", lfb |-> lfb, a |-> a, vs |-> <<v>>]
      /\ UNCHANGED <<sr, gr, bank, latch>>
  BY DEF Write, Accessed
<1>2. last'.op = "byte" /\ last'.lfb = lfb /\ last'.a = a /\ last'.vs = <<v>> /\ <<v>>[1] = v  BY <1>1
<1>3. ram' \in [Cell -> Byte] /\ (~lfb => ram' = vga_mem_write(ram, a, v))  BY ByteRam
<1>4. VideoInv'  BY <1>1, <1>3 DEF VideoInv, Registers
<1>5. a \in Nat /\ v \in Byte  BY DEF VideoSizes
<1>6. ASSUME ~lfb PROVE \A c \in Cell : ram'[c] # ram[c] => c % 4 \in sr.mask
  BY <1>3, <1>5, <1>6, PlanesKept
<1>7. ASSUME ~lfb, Planar, NEW k \in Offset(a), 4 * k < RamSize, NEW i \in Pixel
      PROVE  LET new == Colour(ram', k, i) \cap sr.mask
                 own == Colour(ram, k, i)
                 hit == i \in gr.mask /\ (gr.mode = 3 => (i + gr.rotate) % Bits \in v)
             IN  /\ gr.mode = 1 => new = {p \in sr.mask : i \in latch[p]}
                 /\ gr.mode # 1 /\ latch = PlanesAt(ram, k) =>
                      new = (IF hit THEN Combine(gr.func, Ink(v, i), own) ELSE own) \cap sr.mask
  <2>1. ram' = vga_mem_write(ram, a, v)  BY <1>3, <1>7
  <2>2. QED  BY <1>5, <1>7, <2>1, ByteDraws
<1>8. PixelStep  BY <1>2, <1>6, <1>7 DEF PixelStep
<1>9. WideStep  BY <1>2 DEF WideStep
<1>10. QED  BY <1>4, <1>8, <1>9

LEMMA WideSteps ==
    ASSUME VideoSizes, VideoInv, NEW op \in {"wide", "string"}, NEW lfb \in BOOLEAN, NEW a \in Addrs,
           NEW v \in Values, NEW u \in Values, Write(op, lfb, a, <<v, u>>)
    PROVE  VideoInv' /\ PixelStep /\ WideStep
<1>1. /\ last' = [op |-> op, lfb |-> lfb, a |-> a, vs |-> <<v, u>>]
      /\ UNCHANGED <<sr, gr, bank, latch>>
  BY DEF Write, Accessed
<1>2. last'.op = op /\ last'.lfb = lfb /\ last'.a = a /\ last'.vs = <<v, u>> /\ op # "byte" /\ op # "read"  BY <1>1
<1>3. /\ ram' \in [Cell -> Byte]
      /\ ~lfb => \/ ram' = Bytewise(ram, a, <<v, u>>)
                 \/ sr.chain4 /\ ram' = Chained(ram, a, <<v, u>>)
  BY WideRam
<1>4. VideoInv'  BY <1>1, <1>3 DEF VideoInv, Registers
<1>5. PixelStep  BY <1>2 DEF PixelStep
<1>6. WideStep
  <2>1. SUFFICES ASSUME ~lfb, sr.chain4 => sr.mask = Planes \/ sr.mask = {}, Offset(a) # {}, Offset(a + 2 - 1) # {}
                 PROVE  ram' = Bytewise(ram, a, <<v, u>>)
    <3>1. Len(<<v, u>>) = 2  OBVIOUS
    <3>2. QED  BY <1>2, <3>1 DEF WideStep
  <2>2. a + 2 - 1 = a + 1  BY DEF VideoSizes
  <2>3. CASE sr.chain4 /\ ram' = Chained(ram, a, <<v, u>>)  BY <2>1, <2>2, <2>3, ChainedIs
  <2>4. QED  BY <1>3, <2>1, <2>3
<1>7. QED  BY <1>4, <1>5, <1>6

LEMMA VideoSteps == VideoSizes /\ VideoInv /\ [VgaNext]_vgaVars => VideoInv' /\ [PixelStep /\ WideStep]_vgaVars
<1>1. SUFFICES ASSUME VideoSizes, VideoInv, [VgaNext]_vgaVars PROVE VideoInv' /\ [PixelStep /\ WideStep]_vgaVars
  OBVIOUS
<1>2. CASE UNCHANGED vgaVars  BY <1>1, <1>2 DEF vgaVars, VideoInv, Registers
<1>3. ASSUME NEW lfb \in BOOLEAN, NEW a \in Addrs, Read8(lfb, a) PROVE VideoInv' /\ PixelStep /\ WideStep
  BY <1>1, <1>3, ReadSteps
<1>4. ASSUME NEW lfb \in BOOLEAN, NEW a \in Addrs, NEW v \in Values, Write("byte", lfb, a, <<v>>)
      PROVE  VideoInv' /\ PixelStep /\ WideStep
  BY <1>1, <1>4, ByteSteps
<1>5. ASSUME NEW op \in {"wide", "string"}, NEW lfb \in BOOLEAN, NEW a \in Addrs, NEW v \in Values, NEW u \in Values,
             Write(op, lfb, a, <<v, u>>)
      PROVE  VideoInv' /\ PixelStep /\ WideStep
  BY <1>1, <1>5, WideSteps
<1>6. ASSUME NEW c4 \in BOOLEAN, NEW oe \in BOOLEAN, NEW map \in {0, 1}, Switch(c4, oe, map)
      PROVE  VideoInv' /\ PixelStep /\ WideStep
  <2>1. sr' = [sr EXCEPT !.chain4 = c4] /\ gr' = [gr EXCEPT !.oddeven = oe, !.map = map] /\ UNCHANGED <<ram, latch, bank>>
    BY <1>6 DEF Switch
  <2>2. sr' \in Sequencer  BY <1>1, <2>1 DEF VideoInv, Registers, Sequencer
  <2>3. gr' \in Controller
    <3>1. gr \in Controller /\ map \in 0..3  BY <1>1 DEF VideoInv, Registers
    <3>2. [gr EXCEPT !.oddeven = oe] \in Controller  BY <3>1 DEF Controller
    <3>3. [[gr EXCEPT !.oddeven = oe] EXCEPT !.map = map] \in Controller  BY <3>1, <3>2 DEF Controller
    <3>4. QED  BY <2>1, <3>3
  <2>4. VideoInv'  BY <1>1, <2>1, <2>2, <2>3 DEF VideoInv, Registers
  <2>5. last'.op = "switch"  BY <1>6 DEF Switch
  <2>6. QED  BY <2>4, <2>5 DEF PixelStep, WideStep
<1>7. CASE VgaNext  BY <1>3, <1>4, <1>5, <1>6, <1>7 DEF VgaNext
<1>8. QED  BY <1>1, <1>2, <1>7

\* Whatever the guest writes and reads, through the window or the linear frame
\* buffer and in whatever mode, a byte changes the planes that are enabled and
\* draws the pixels it is to draw, a colour compare finds the pixels of the
\* colour, and a wide access is its bytes one by one (vga_mem_write,
\* vga_mem_read, vga_mem_write16, vga_mem_write32, vga_mem_write_string).
THEOREM VideoSafe == ASSUME VideoSizes PROVE VgaSpec => VideoExact
<1>1. VgaInit => VideoInv  BY VideoStarts
<1>2. VideoInv /\ [VgaNext]_vgaVars => VideoInv' /\ [PixelStep /\ WideStep]_vgaVars  BY VideoSteps
<1>3. QED  BY <1>1, <1>2, PTL DEF VgaSpec, VideoExact
==============================================================================
