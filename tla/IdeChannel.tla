------------------------------ MODULE IdeChannel ------------------------------
(***************************************************************************)
(* One IDE channel with its hard disks (tiny386/ide.c): the task file, the *)
(* PIO data port and the sector-by-sector state machine behind it, driven  *)
(* by a guest that may do anything at any time.                            *)
(*                                                                         *)
(* Sector addresses are LBA numbers.  ide_get_sector and ide_set_sector    *)
(* are then inverse up to the 28 bits of the registers, and the four       *)
(* address registers are the single number lba.  The block devices are     *)
(* synchronous, as every backend of ide.c is: read_async and write_async   *)
(* return 0 or a negative error.                                           *)
(***************************************************************************)
EXTENDS Integers

CONSTANTS
  Drive,        \* which of the drives 0 and 1 are attached
  NoDrive,      \* cur_drive when the selected drive is absent
  NMod,         \* values of the sector count register; 0 stands for NMod
  LbaMod,       \* values of the address registers
  Sectors,      \* sectors of a medium
  SectorBytes,  \* bytes of a sector
  MaxMult,      \* MAX_MULT_SECTORS
  Cell,         \* values of a byte of a sector or of io_buffer
  IdCell,       \* what a byte of the IDENTIFY block holds
  ZeroCell,     \* what io_buffer holds after memset
  Image         \* the media at power on

BufBytes == MaxMult * SectorBytes + 4      \* sizeof(io_buffer)
Lba == 0 .. LbaMod - 1
Offset == 0 .. SectorBytes - 1
Medium == [0 .. Sectors - 1 -> [Offset -> Cell]]

ASSUME SizesAssumption ==
  /\ Drive \subseteq {0, 1} /\ NoDrive \notin {0, 1}
  /\ NMod \in Nat \ {0} /\ LbaMod \in Nat \ {0} /\ Sectors \in Nat
  /\ SectorBytes \in Nat \ {0} /\ MaxMult \in 1 .. NMod

ASSUME DataAssumption ==
  /\ IdCell \in Cell /\ ZeroCell \in Cell
  /\ Image \in [Drive -> Medium]

VARIABLES
  drives,   \* IDEState of each attached drive
  cur,      \* IDEIFState.cur_drive
  control,  \* IDEIFState.cmd: the bits SRST and nIEN
  irq,      \* level of the interrupt line
  disk      \* contents of the media

vars == <<drives, cur, control, irq, disk>>

StatusBits == {"ERR", "DRQ", "SEEK", "READY", "BUSY"}
Commands == {"IDENTIFY", "RECAL", "SETMULT", "READ", "WRITE", "MULTREAD",
             "MULTWRITE", "NATIVEMAX", "OTHER"}

\* end_transfer_func: ide_transfer_stop, ide_identify_cb, ide_sector_read,
\* ide_sector_read_cb_end, ide_sector_write_cb1.
Funcs == {"stop", "identify", "read", "readEnd", "write"}

MinOf(a, b) == IF a < b THEN a ELSE b

-------------------------------------------------------------------------------
(* Building blocks.  s is an IDEState, m the contents of its medium. *)

\* Mutant: an error that leaves the other status bits alone.
AbortKeepsStatus(s) ==
  [s EXCEPT !.status = (s.status \ {"BUSY"}) \cup {"READY", "ERR"}, !.error = "ABRT"]

\* ide_abort_command
Abort(s) == [s EXCEPT !.status = {"READY", "ERR"}, !.error = "ABRT"]

\* ide_transfer_start and ide_transfer_stop
TransferStart(s, size, func) ==
  [s EXCEPT !.func = func, !.index = 0, !.end = size]
TransferStop(s) == TransferStart(s, 0, "stop")

\* Mutant: the default of the count register is not cut down to the block.
BlockSizeUncut(s) == IF s.nsector = 0 THEN NMod ELSE MinOf(s.nsector, s.req)

\* Sectors of the next data block.
BlockSize(s) == MinOf(IF s.nsector = 0 THEN NMod ELSE s.nsector, s.req)

\* Mutants: the count register is not masked to a byte; the address moves by one
\* sector whatever the block.
AdvanceUnmasked(s) ==
  [s EXCEPT !.lba = (s.lba + s.io) % LbaMod, !.nsector = s.nsector - s.io]
AdvanceOne(s) ==
  [s EXCEPT !.lba = (s.lba + 1) % LbaMod, !.nsector = (s.nsector - s.io) % NMod]

\* The registers move past the block that was read or written.
Advance(s) ==
  [s EXCEPT !.lba = (s.lba + s.io) % LbaMod, !.nsector = (s.nsector - s.io) % NMod]

\* The outcome of a handler: the new IDEState and medium, and whether
\* ide_set_irq was called.
Outcome(s, m, raised) == [s |-> s, m |-> m, raised |-> raised]

\* read_async of s.io sectors at s.lba; bytes past the medium stay as they were.
Filled(s, m) ==
  [i \in DOMAIN s.buf |->
     IF i < s.io * SectorBytes /\ s.lba + (i \div SectorBytes) < Sectors
       THEN m[s.lba + (i \div SectorBytes)][i % SectorBytes]
       ELSE s.buf[i]]

\* ide_sector_read_cb: the block is armed, and the registers already point past it.
SectorReadCb(s) ==
  LET t == Advance(s)
  IN  [TransferStart(t, SectorBytes * s.io, IF t.nsector = 0 THEN "readEnd" ELSE "read")
         EXCEPT !.status = {"READY", "SEEK", "DRQ"}, !.error = "none"]

\* ide_sector_read: the backend fails or fills io_buffer.
SectorRead(s, m) ==
  LET t == [s EXCEPT !.io = BlockSize(s)]
  IN  {Outcome(Abort(t), m, TRUE),
       Outcome(SectorReadCb([t EXCEPT !.buf = Filled(t, m)]), m, TRUE)}

\* ide_sector_read_cb_end
SectorReadCbEnd(s) ==
  TransferStop([s EXCEPT !.status = {"READY", "SEEK"}, !.error = "none"])

\* ide_sector_write, and the start of the next block in ide_sector_write_cb2.
SectorWrite(s) ==
  LET n == BlockSize(s)
  IN  [TransferStart([s EXCEPT !.io = n], SectorBytes * n, "write")
         EXCEPT !.status = {"READY", "SEEK", "DRQ"}]

\* write_async of s.io sectors of io_buffer at s.lba.
Written(s, m) ==
  [l \in DOMAIN m |->
     IF l \in s.lba .. s.lba + s.io - 1
       THEN [o \in Offset |-> s.buf[(l - s.lba) * SectorBytes + o]] ELSE m[l]]

\* Mutant: a count of 0 asks for a block even when it was counted down to.
SectorWriteCb2Endless(s) == SectorWrite(Advance(s))

\* ide_sector_write_cb2
SectorWriteCb2(s) ==
  LET t == Advance(s)
  IN  IF t.nsector = 0 THEN [t EXCEPT !.status = {"READY", "SEEK"}] ELSE SectorWrite(t)

\* Mutants: the block is stored where the registers point afterwards; a stored
\* block raises no interrupt.
SectorWriteCb1Late(s, m) ==
  LET t == TransferStop(s)
  IN  {Outcome(Abort(t), m, TRUE),
       Outcome(SectorWriteCb2(t), Written(Advance(t), m), TRUE)}
SectorWriteCb1Silent(s, m) ==
  LET t == TransferStop(s)
  IN  {Outcome(Abort(t), m, TRUE), Outcome(SectorWriteCb2(t), Written(t, m), FALSE)}

\* ide_sector_write_cb1: the backend fails or stores the block.
SectorWriteCb1(s, m) ==
  LET t == TransferStop(s)
  IN  {Outcome(Abort(t), m, TRUE), Outcome(SectorWriteCb2(t), Written(t, m), TRUE)}

\* Mutant: DRQ stays up behind the IDENTIFY block.
IdentifyCbDrq(s) == TransferStop(s)

\* ide_identify_cb
IdentifyCb(s) == [TransferStop(s) EXCEPT !.status = {"READY"}]

\* Mutant: the last block of a read raises an interrupt of its own.
EndTransferRaises(s, m) ==
  CASE s.func = "stop"     -> {Outcome(TransferStop(s), m, FALSE)}
    [] s.func = "identify" -> {Outcome(IdentifyCb(s), m, FALSE)}
    [] s.func = "read"     -> SectorRead(s, m)
    [] s.func = "readEnd"  -> {Outcome(SectorReadCbEnd(s), m, TRUE)}
    [] s.func = "write"    -> SectorWriteCb1(s, m)

\* s->end_transfer_func(s)
EndTransfer(s, m) ==
  CASE s.func = "stop"     -> {Outcome(TransferStop(s), m, FALSE)}
    [] s.func = "identify" -> {Outcome(IdentifyCb(s), m, FALSE)}
    [] s.func = "read"     -> SectorRead(s, m)
    [] s.func = "readEnd"  -> {Outcome(SectorReadCbEnd(s), m, FALSE)}
    [] s.func = "write"    -> SectorWriteCb1(s, m)

\* The IDENTIFY block: its contents are one value.
Identify(s) ==
  [TransferStart(s, SectorBytes, "identify") EXCEPT
     !.buf = [i \in DOMAIN s.buf |-> IF i < SectorBytes THEN IdCell ELSE s.buf[i]],
     !.status = {"READY", "SEEK", "DRQ"}]

\* WIN_SETMULT takes a power of two up to MAX_MULT_SECTORS, or 0.
PowerOfTwo == {1, 2, 4, 8, 16, 32, 64, 128}
SetMult(s) ==
  IF s.nsector = 0 \/ s.nsector \in {n \in PowerOfTwo : n <= MaxMult}
    THEN [s EXCEPT !.mult = s.nsector, !.status = {"READY"}] ELSE Abort(s)

\* ide_exec_cmd
ExecCmd(s, m, c) ==
  CASE c = "IDENTIFY" -> {Outcome(Identify(s), m, TRUE)}
    [] c = "RECAL" ->
         {Outcome([s EXCEPT !.error = "none", !.status = {"READY", "SEEK"}], m, TRUE)}
    [] c = "SETMULT" -> {Outcome(SetMult(s), m, TRUE)}
    [] c = "READ" -> SectorRead([s EXCEPT !.req = 1], m)
    [] c = "WRITE" -> {Outcome(SectorWrite([s EXCEPT !.req = 1]), m, FALSE)}
    [] c = "MULTREAD" ->
         IF s.mult = 0 THEN {Outcome(Abort(s), m, TRUE)}
         ELSE SectorRead([s EXCEPT !.req = s.mult], m)
    [] c = "MULTWRITE" ->
         IF s.mult = 0 THEN {Outcome(Abort(s), m, TRUE)}
         ELSE {Outcome(SectorWrite([s EXCEPT !.req = s.mult]), m, FALSE)}
    [] c = "NATIVEMAX" ->
         {Outcome([s EXCEPT !.lba = (Sectors - 1) % LbaMod, !.status = {"READY"}], m, TRUE)}
    [] c = "OTHER" -> {Outcome(Abort(s), m, TRUE)}

\* ide_set_signature with the LBA bit of the select register set.
SetSignature(s) == [s EXCEPT !.nsector = 1 % NMod, !.lba = 1 % LbaMod]

-------------------------------------------------------------------------------
(* Guest accesses to the ports of the channel *)

\* A handler of the selected drive comes to one of its outcomes.
Apply(outcomes) ==
  \E o \in outcomes :
    /\ drives' = [drives EXCEPT ![cur] = o.s]
    /\ disk' = [disk EXCEPT ![cur] = o.m]
    /\ irq' = (irq \/ (o.raised /\ ~control.nien))
    /\ UNCHANGED <<cur, control>>

\* ide_ioport_write, registers 2, 3 to 5, 6 and 7.
WriteCount(n) ==
  /\ cur # NoDrive
  /\ Apply({Outcome([drives[cur] EXCEPT !.nsector = n], disk[cur], FALSE)})

\* Any of the address registers changes the sector number.
WriteAddress(l) ==
  /\ cur # NoDrive
  /\ Apply({Outcome([drives[cur] EXCEPT !.lba = l], disk[cur], FALSE)})

\* The select register also holds the top address bits of the drive selected.
SelectDrive(d, l) ==
  /\ IF d \in Drive
       THEN cur' = d /\ drives' = [drives EXCEPT ![d].lba = l]
       ELSE cur' = NoDrive /\ UNCHANGED drives
  /\ UNCHANGED <<control, irq, disk>>

WriteCommand(c) ==
  /\ cur # NoDrive
  /\ Apply(ExecCmd(drives[cur], disk[cur], c))

\* ide_ioport_read of register 7; the other reads change nothing.
ReadStatus ==
  /\ cur # NoDrive
  /\ irq' = FALSE
  /\ UNCHANGED <<drives, cur, control, disk>>

\* Mutant: the end of a reset reaches the selected drive only.
DeviceControlSelected(srst, nien) ==
  /\ drives' = [d \in Drive |->
       IF ~control.srst /\ srst
         THEN [drives[d] EXCEPT !.status = {"BUSY", "SEEK"}, !.error = "diag"]
       ELSE IF control.srst /\ ~srst /\ d = cur
         THEN SetSignature([drives[d] EXCEPT !.status = {"READY", "SEEK"}])
       ELSE drives[d]]
  /\ control' = [srst |-> srst, nien |-> nien]
  /\ UNCHANGED <<cur, irq, disk>>

\* ide_cmd_write: the two edges of SRST act on both drives.
DeviceControl(srst, nien) ==
  /\ drives' =
       IF ~control.srst /\ srst
         THEN [d \in Drive |-> [drives[d] EXCEPT !.status = {"BUSY", "SEEK"}, !.error = "diag"]]
       ELSE IF control.srst /\ ~srst
         THEN [d \in Drive |-> SetSignature([drives[d] EXCEPT !.status = {"READY", "SEEK"}])]
       ELSE drives
  /\ control' = [srst |-> srst, nien |-> nien]
  /\ UNCHANGED <<cur, irq, disk>>

\* n bytes have gone through the data port; at data_end the block is over.
Moved(s, m, n) ==
  LET t == [s EXCEPT !.index = s.index + n]
  IN  IF t.index >= t.end THEN EndTransfer(t, m) ELSE {Outcome(t, m, FALSE)}

\* Bytes put into io_buffer at data_index.
Put(s, w, n) ==
  [s EXCEPT !.buf = [i \in DOMAIN s.buf |->
     IF i \in s.index .. s.index + n - 1 THEN w[i - s.index] ELSE s.buf[i]]]

\* ide_data_readw and ide_data_readl (k = 2, 4): refused short of k bytes.
DataRead(k) ==
  /\ cur # NoDrive
  /\ drives[cur].index + k <= drives[cur].end
  /\ Apply(Moved(drives[cur], disk[cur], k))

DataWrite(k, w) ==
  /\ cur # NoDrive
  /\ drives[cur].index + k <= drives[cur].end
  /\ Apply(Moved(Put(drives[cur], w, k), disk[cur], k))

\* What a string access of count items of k bytes moves.
StringBytes(s, k, count) ==
  LET n == MinOf(k * count, s.end - s.index) IN n - (n % k)

\* ide_data_read_string and ide_data_write_string, the fast path of REP INS and
\* REP OUTS: the block also ends when there was nothing left to move.
StringRead(k, count) ==
  /\ cur # NoDrive
  /\ Apply(Moved(drives[cur], disk[cur], StringBytes(drives[cur], k, count)))

StringWrite(k, count, w) ==
  /\ cur # NoDrive
  /\ LET n == StringBytes(drives[cur], k, count)
     IN  Apply(Moved(Put(drives[cur], w, n), disk[cur], n))

-------------------------------------------------------------------------------
\* ide_hddrive_init: register 6 has not selected a drive yet.
InitDrive ==
  [nsector |-> 0, lba |-> 0, status |-> {"READY", "SEEK"}, error |-> "none",
   mult |-> MaxMult, req |-> 0, io |-> 0, func |-> "stop", index |-> 0, end |-> 0,
   buf |-> [i \in 0 .. BufBytes - 1 |-> ZeroCell]]

Init ==
  /\ drives = [d \in Drive |-> InitDrive]
  /\ cur = NoDrive
  /\ control = [srst |-> FALSE, nien |-> FALSE]
  /\ irq = FALSE
  /\ disk = Image

Next ==
  \/ \E n \in 0 .. NMod - 1 : WriteCount(n)
  \/ \E l \in Lba : WriteAddress(l)
  \/ \E d \in {0, 1}, l \in Lba : SelectDrive(d, l)
  \/ \E c \in Commands : WriteCommand(c)
  \/ ReadStatus
  \/ \E srst, nien \in BOOLEAN : DeviceControl(srst, nien)
  \/ \E k \in {2, 4} : DataRead(k) \/ \E w \in [0 .. k - 1 -> Cell] : DataWrite(k, w)
  \/ \E k \in {1, 2, 4}, count \in 1 .. BufBytes :
       \/ StringRead(k, count)
       \/ \E w \in [0 .. k * count - 1 -> Cell] : StringWrite(k, count, w)

Spec == Init /\ [][Next]_vars

-------------------------------------------------------------------------------
(* Properties *)

DriveType ==
  [nsector : 0 .. NMod - 1, lba : Lba, status : SUBSET StatusBits,
   error : {"none", "diag", "ABRT"}, mult : 0 .. MaxMult, req : 0 .. MaxMult,
   io : 0 .. MaxMult, func : Funcs, index : Nat, end : Nat,
   buf : [0 .. BufBytes - 1 -> Cell]]

\* Type invariant of IDEState and IDEIFState.
TypeOK ==
  /\ drives \in [Drive -> DriveType]
  /\ cur \in Drive \cup {NoDrive}
  /\ control \in [srst : BOOLEAN, nien : BOOLEAN]
  /\ irq \in BOOLEAN
  /\ disk \in [Drive -> Medium]

\* Whatever sequence of commands, data accesses and resets the guest makes, the
\* data port stays inside io_buffer and data_index never passes data_end.
WithinBuffer ==
  \A d \in Drive :
    /\ drives[d].index <= drives[d].end
    /\ drives[d].end <= MaxMult * SectorBytes

\* DRQ is never offered without data behind it: a guest that polls DRQ and then
\* moves data makes progress.
DrqServed ==
  \A d \in Drive : "DRQ" \in drives[d].status =>
    drives[d].index < drives[d].end /\ drives[d].func # "stop"

\* A drive is busy only while the guest holds the channel in reset: no command
\* and no data access leaves it waiting for anything else.
BusyOnlyInReset ==
  \A d \in Drive : "BUSY" \in drives[d].status => control.srst

\* An armed write block has the size of the transfer it will make, unless an
\* error was reported after it was armed or a reset took its DRQ away.
WriteSized ==
  \A d \in Drive : drives[d].func = "write" /\ "DRQ" \in drives[d].status =>
    drives[d].end = SectorBytes * drives[d].io

\* The registers and the data phase agree after every access of every guest:
\* types, the bounds of io_buffer, DRQ with data behind it, a write block of the
\* size of its transfer, and BUSY that ends with the reset.
ChannelSound == TypeOK /\ WithinBuffer /\ DrqServed /\ WriteSized /\ BusyOnlyInReset

===============================================================================
