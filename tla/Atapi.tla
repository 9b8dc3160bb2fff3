-------------------------------- MODULE Atapi --------------------------------
(***************************************************************************)
(* The ATAPI CD-ROM of tiny386/ide.c: packet commands, replies and sector  *)
(* reads cut into bursts by the guest's byte count limit, the change of    *)
(* the medium and the unit attention that reports it.  The guest may use   *)
(* any port at any time.                                                   *)
(*                                                                         *)
(* A packet is the record of its fields; a byte of io_buffer is known by   *)
(* where it comes from: sector and offset of a disc, or offset of a reply. *)
(* A sector number is the int the code keeps it in, so the upper half of   *)
(* what a packet can ask for is negative, and 0xffffffff is -1, which the  *)
(* transfer takes for `no sector'.  What lies behind io_buffer is left out. *)
(* The interrupt line and nIEN, the other drive and the registers a CD-ROM *)
(* does not use are as in IdeChannel and left out.                         *)
(***************************************************************************)
EXTENDS Integers, Sequences

CONSTANTS
    CdBytes,      \* bytes of a CD sector
    BufBytes,     \* bytes of io_buffer
    CdSectors,    \* sectors of every disc
    PacketBytes,  \* ATAPI_PACKET_SIZE
    IdBytes,      \* size of the IDENTIFY PACKET DEVICE block
    Packets,      \* the packets the guest sends
    Limits,       \* the byte count limits it writes
    Strings,      \* unit and count of its string accesses
    MaxCmds,      \* bound: commands of a behaviour
    MaxDiscs      \* bound: changes of the disc

\* The commands ide_atapi_cmd tells apart; "raw" is READ CD for whole frames.
Ops == {"tur", "sense", "ok", "opcode", "field", "mode", "inquiry", "config", "seek", "toc", "capacity", "read", "raw"}

\* A sector, a packet and every reply fit io_buffer.  The sectors of a READ times
\* their size fit an int.
ASSUME AtapiSizes ==
    /\ CdBytes \in Nat \ {0} /\ BufBytes \in Nat /\ CdBytes <= BufBytes /\ CdSectors \in Nat
    /\ PacketBytes \in 1..BufBytes /\ IdBytes \in 0..BufBytes
    /\ Limits \subseteq Nat /\ Strings \subseteq (Nat \ {0}) \X Nat
    /\ \A p \in Packets : p.op \in Ops /\ p.lba \in Int /\ p.n \in Nat /\ p.size \in 0..BufBytes /\ p.max \in Nat

VARIABLES
    cd,       \* IDEState of the drive
    buf,      \* io_buffer
    backend,  \* block device: "file" (bf_*) or "ciso"
    disc,     \* the image attached; 0 when none could be opened
    want,     \* history: bytes the command in progress asked for
    got,      \* history: bytes read since it was accepted
    due,      \* history: bytes announced by the last interrupt and not yet moved
    polite,   \* history: since PACKET, data moved only under DRQ and in its direction
    notice,   \* history: a change of disc no command has reported yet
    cmds      \* commands so far

avars == <<cd, buf, backend, disc, want, got, due, polite, notice, cmds>>


NoLba == -1
MinimumOf(a, b) == IF a < b THEN a ELSE b
DRQ(s) == "DRQ" \in s.status

-----------------------------------------------------------------------------
(* Building blocks.  An outcome is an IDEState, an io_buffer, whether      *)
(* ide_set_irq was called and whether an error was reported.               *)

Out(s, b, raised, error) == [s |-> s, b |-> b, raised |-> raised, error |-> error]

ide_set_signature(s) == [s EXCEPT !.reason = "cd", !.limit = 2 * BufBytes]

ide_transfer_start2(s, off, size, func) ==
    [s EXCEPT !.func = func, !.index = off, !.end = off + size,
              !.status = IF "ERR" \in @ THEN @ ELSE @ \cup {"DRQ"}]

\* Mutant: DRQ stays up behind the data.
ide_transfer_stop2_DrqKept(s) == [s EXCEPT !.func = "stop", !.index = 0, !.end = 0]

ide_transfer_stop2(s) == [s EXCEPT !.func = "stop", !.index = 0, !.end = 0, !.status = @ \ {"DRQ"}]

ide_atapi_cmd_ok(s) == [s EXCEPT !.status = {"READY", "SEEK"}, !.reason = "cdio"]

ide_atapi_cmd_error(s, sense) ==
    [s EXCEPT !.status = {"READY", "ERR"}, !.reason = "cdio", !.sense = sense]

ide_atapi_cmd_check_status(s) ==
    [s EXCEPT !.status = {"ERR"}, !.reason = "none"]

Capacity == IF disc = 0 THEN 0 ELSE CdSectors

OnDisc(lba) == lba \in 0..Capacity - 1

\* cd_read_sector: the CISO backend refuses a sector the disc does not have.  The
\* file backend reports no error, and gives what the buffer held or what lies at
\* another place of the file.
ReadFails(s) == s.css # CdBytes \/ (backend = "ciso" /\ ~OnDisc(s.lba))
SectorRead(s, b) ==
    [i \in DOMAIN b |-> IF i >= CdBytes THEN b[i]
                        ELSE IF OnDisc(s.lba) THEN <<"cd", s.lba, i, disc>> ELSE <<"any", 0, 0, 0>>]

\* Mutant: a burst may run past the sector in the buffer.
Chunk_Unclipped(s, size) == size

\* A sector read is moved one sector at a time; a reply is not cut.
Chunk(s, size) == IF s.lba = NoLba THEN size ELSE MinimumOf(size, s.css - s.io)

\* The byte count of a new burst, in the limit registers for the guest to read.
Burst(s) ==
    LET top == MinimumOf(s.limit, 65534)
    IN  IF s.pts > top THEN top - (top % 2) ELSE s.pts

Account(s, size) == [s EXCEPT !.pts = @ - size, !.ets = @ - size, !.io = @ + size]

\* Mutant: the byte count registers keep the limit.
NewBurst_LimitKept(s, b) ==
    LET size == Chunk(s, Burst(s))
        t == [s EXCEPT !.reason = "io", !.ets = Burst(s)]
    IN  Out(Account(ide_transfer_start2(t, s.io, size, "reply"), size), b, TRUE, FALSE)

\* Mutant: the interrupt reason is left to the packet phase.
NewBurst_ReasonKept(s, b) ==
    LET size == Chunk(s, Burst(s))
        t == [s EXCEPT !.limit = Burst(s), !.ets = Burst(s)]
    IN  Out(Account(ide_transfer_start2(t, s.io, size, "reply"), size), b, TRUE, FALSE)

NewBurst(s, b) ==
    LET size == Chunk(s, Burst(s))
        t == [s EXCEPT !.reason = "io", !.limit = Burst(s), !.ets = Burst(s)]
    IN  Out(Account(ide_transfer_start2(t, s.io, size, "reply"), size), b, TRUE, FALSE)

\* The rest of a burst, from the next sector.
GoOn(s, b) ==
    LET size == MinimumOf(s.css - s.io, s.ets)
    IN  Out(Account(ide_transfer_start2(s, s.io, size, "reply"), size), b, FALSE, FALSE)

\* Mutant: the next sector is read when the burst ends, not when the sector does.
ide_atapi_cmd_reply_end_EarlyRead(s, b) ==
    IF s.pts <= 0
    THEN Out([ide_transfer_stop2(s) EXCEPT !.status = {"READY", "SEEK"}, !.reason = "cdio"], b, TRUE, FALSE)
    ELSE LET next == s.lba # NoLba /\ (s.io >= s.css \/ s.ets = 0)
             t == IF next THEN [s EXCEPT !.lba = @ + 1, !.io = 0] ELSE s
             c == IF next THEN SectorRead(s, b) ELSE b
         IN  IF next /\ ReadFails(s) THEN Out(ide_atapi_cmd_error(ide_transfer_stop2(s), "illegal"), b, TRUE, TRUE)
             ELSE IF t.ets > 0 THEN GoOn(t, c) ELSE NewBurst(t, c)

\* The sector in the buffer is used up, and the next one read.
SectorUsed(s) == s.lba # NoLba /\ s.io >= s.css
NextSector(s) == IF SectorUsed(s) THEN [s EXCEPT !.lba = @ + 1, !.io = 0] ELSE s
Refilled(s, b) == IF SectorUsed(s) THEN SectorRead(s, b) ELSE b

\* The whole transfer logic: the end, the next sector, the rest of a burst or a
\* new one.
ide_atapi_cmd_reply_end(s, b) ==
    IF s.pts <= 0
    THEN Out([ide_transfer_stop2(s) EXCEPT !.status = {"READY", "SEEK"}, !.reason = "cdio"], b, TRUE, FALSE)
    ELSE IF SectorUsed(s) /\ ReadFails(s)
    THEN Out(ide_atapi_cmd_error(ide_transfer_stop2(s), "illegal"), Refilled(s, b), TRUE, TRUE)
    ELSE IF NextSector(s).ets > 0 THEN GoOn(NextSector(s), Refilled(s, b))
                                  ELSE NewBurst(NextSector(s), Refilled(s, b))

\* A reply of size bytes, cut to what the packet allows.
ide_atapi_cmd_reply(s, size, max) ==
    ide_atapi_cmd_reply_end(
        [s EXCEPT !.lba = NoLba, !.pts = MinimumOf(size, max), !.ets = 0, !.io = 0, !.status = {"READY", "SEEK"}],
        [i \in DOMAIN buf |-> IF i < size THEN <<"reply", 0, i, 0>> ELSE buf[i]])

ide_atapi_cmd_read(s, lba, n, size) ==
    ide_atapi_cmd_reply_end(
        [s EXCEPT !.lba = lba, !.pts = n * size, !.ets = 0, !.io = size, !.css = size, !.status = {"READY", "SEEK"}], buf)

Failed(s, sense) == Out(ide_atapi_cmd_error(s, sense), buf, TRUE, TRUE)
Done(s) == Out(ide_atapi_cmd_ok(s), buf, TRUE, FALSE)

\* Mutant: an attention stops reads only.
Attention_ReadsOnly(s, p) == s.sense = "attention" /\ p.op = "read"

\* A pending unit attention lets REQUEST SENSE and INQUIRY pass only.
Attention(s, p) == s.sense = "attention" /\ p.op \notin {"sense", "inquiry"}

\* TEST UNIT READY reports a change of the disc once.
TestUnitReady(s) ==
    IF s.changed THEN Failed([s EXCEPT !.changed = FALSE], "notready") ELSE Done(s)

\* REQUEST SENSE takes the attention with it.
RequestSense(s, p) ==
    ide_atapi_cmd_reply([s EXCEPT !.sense = IF @ = "attention" THEN "none" ELSE @], p.size, p.max)

Seek(s, p) ==
    IF Capacity = 0 THEN Failed(s, "notready")
    ELSE IF ~OnDisc(p.lba) THEN Failed(s, "illegal") ELSE Done(s)

\* INQUIRY, GET CONFIGURATION, MECHANISM STATUS: the medium is not looked at.
Describe(s, p) == ide_atapi_cmd_reply(s, p.size, p.max)

\* MODE SENSE knows two pages of current values.
ModeSense(s, p) == IF p.op = "field" THEN Failed(s, "illegal") ELSE ide_atapi_cmd_reply(s, p.size, p.max)

\* READ TOC, READ CAPACITY.
AskMedium(s, p) ==
    IF Capacity = 0 THEN Failed(s, "notready") ELSE ide_atapi_cmd_reply(s, p.size, p.max)

\* READ (10), READ (12), READ CD: data blocks, or "raw" frames of 2352 bytes.
Reads(p) == p.op \in {"read", "raw"}
Frame(p) == IF p.op = "raw" THEN CdBytes + 1 ELSE CdBytes
ReadCommand(s, p) == IF p.n = 0 THEN Done(s) ELSE ide_atapi_cmd_read(s, p.lba, p.n, Frame(p))

\* ide_atapi_cmd.  "ok": PREVENT ALLOW, START STOP, SET SPEED; "opcode": what
\* the drive does not know.
ide_atapi_cmd(s, p) ==
    IF Attention(s, p) THEN Out(ide_atapi_cmd_check_status(s), buf, TRUE, TRUE)
    ELSE CASE p.op = "tur" -> TestUnitReady(s)
           [] p.op = "sense" -> RequestSense(s, p)
           [] p.op = "ok" -> Done(s)
           [] p.op = "opcode" -> Failed(s, "illegal")
           [] p.op \in {"field", "mode"} -> ModeSense(s, p)
           [] p.op \in {"inquiry", "config"} -> Describe(s, p)
           [] p.op = "seek" -> Seek(s, p)
           [] p.op \in {"toc", "capacity"} -> AskMedium(s, p)
           [] Reads(p) -> ReadCommand(s, p)

\* What the guest asked for with p; NoLba is a sector no disc has.
Asked(p) ==
    CASE Reads(p) ->
            [i \in 1..(p.n * Frame(p)) |->
                <<"cd", IF p.lba < 0 THEN NoLba ELSE p.lba + (i - 1) \div Frame(p), (i - 1) % Frame(p)>>]
      [] p.op \in {"sense", "inquiry", "config", "mode", "toc", "capacity"} ->
            [i \in 1..MinimumOf(p.size, p.max) |-> <<"reply", 0, i - 1>>]
      [] OTHER -> <<>>

-----------------------------------------------------------------------------
(* Guest accesses.                                                         *)

Apply(o) ==
    /\ cd' = o.s /\ buf' = o.b
    /\ notice' = (notice /\ ~o.error)

\* The data port has moved n bytes; at data_end the handler of the phase runs.
EndTransfer(s, b) ==
    CASE s.func = "stop"  -> {Out(ide_transfer_stop2(s), b, FALSE, FALSE)}
      [] s.func = "reply" -> {ide_atapi_cmd_reply_end(s, b)}
Announced(o, n) == IF o.raised THEN (IF DRQ(o.s) THEN o.s.limit ELSE 0) ELSE due - n

WriteLimit(l) ==
    /\ cd' = [cd EXCEPT !.limit = l]
    /\ UNCHANGED <<buf, backend, disc, want, got, due, polite, notice, cmds>>

\* idecd_exec_cmd
Command(c) ==
    /\ cmds < MaxCmds /\ cmds' = cmds + 1
    /\ CASE c = "PACKET" ->
              /\ cd' = ide_transfer_start2([cd EXCEPT !.status = {"READY", "SEEK"}, !.reason = "cd"], 0, PacketBytes, "cmd")
              /\ polite' = TRUE /\ UNCHANGED buf
         [] c = "IDENTIFY_PACKET" ->
              /\ cd' = ide_transfer_start2([cd EXCEPT !.status = {"READY", "SEEK"}], 0, IdBytes, "stop")
              /\ buf' = [i \in DOMAIN buf |-> IF i < IdBytes THEN <<"reply", 0, i, 0>> ELSE buf[i]]
              /\ polite' = FALSE
         [] c = "DEVICE_RESET" ->
              /\ cd' = [ide_set_signature(cd) EXCEPT !.status = {}]
              /\ polite' = FALSE /\ UNCHANGED buf
         [] c = "IDENTIFY" ->
              /\ cd' = [ide_set_signature(cd) EXCEPT !.status = {"READY", "ERR"}]
              /\ polite' = FALSE /\ UNCHANGED buf
         [] c = "OTHER" ->
              /\ cd' = [cd EXCEPT !.status = {"READY", "ERR"}]
              /\ polite' = FALSE /\ UNCHANGED buf
    /\ want' = <<>> /\ got' = <<>> /\ due' = 0
    /\ UNCHANGED <<backend, disc, notice>>

\* n bytes moved in the packet phase, in either direction: the last one runs the
\* command.  A string access that finds nothing left runs the last one again.
PacketAccess(n, polite1) ==
    /\ LET s == [cd EXCEPT !.index = @ + n]
       IN  IF s.index < s.end
           THEN cd' = s /\ UNCHANGED <<buf, want, got, due, notice>>
           ELSE \E p \in IF n = 0 THEN {cd.packet} ELSE Packets :
                  LET o == ide_atapi_cmd([s EXCEPT !.packet = p], p)
                  IN  /\ cd' = o.s /\ buf' = o.b
                      /\ notice' = (notice /\ ~o.error /\ p.op # "sense")
                      /\ due' = Announced(o, n)
                      /\ want' = (IF o.error THEN <<>> ELSE Asked(p)) /\ got' = <<>>
    /\ polite' = (polite1 /\ polite /\ DRQ(cd))
    /\ UNCHANGED <<backend, disc, cmds>>
PacketWrite(k) == cd.func = "cmd" /\ cd.index + k <= cd.end /\ PacketAccess(k, TRUE)
PacketRead(k) == cd.func = "cmd" /\ cd.index + k <= cd.end /\ PacketAccess(k, FALSE)
PacketString(k, count) ==
    /\ cd.func = "cmd"
    /\ LET n == MinimumOf(k * count, cd.end - cd.index) IN PacketAccess(n - (n % k), n > 0)

\* The handlers of the data port do not look at the direction: a word written in
\* a data phase moves data_index as well.
StrayWrite(k) ==
    /\ cd.func # "cmd" /\ cd.index + k <= cd.end
    /\ LET s == [cd EXCEPT !.index = @ + k]
           b == [i \in DOMAIN buf |-> IF i \in cd.index..s.index - 1 THEN <<"guest", 0, 0, 0>> ELSE buf[i]]
       IN  IF s.index < s.end THEN Apply(Out(s, b, FALSE, FALSE)) ELSE \E o \in EndTransfer(s, b) : Apply(o)
    /\ polite' = FALSE /\ want' = <<>> /\ got' = <<>> /\ due' = 0
    /\ UNCHANGED <<backend, disc, cmds>>

\* Byte i of what the data port moves through.
At(b, i) == IF i \in DOMAIN b THEN b[i] ELSE <<"any", 0, 0, 0>>

\* n bytes read in units of k; a word or long access short of k bytes is refused,
\* a string access takes what there is.
Read(n) ==
    /\ LET s == [cd EXCEPT !.index = @ + n]
       IN  \E o \in IF s.index < s.end THEN {Out(s, buf, FALSE, FALSE)} ELSE EndTransfer(s, buf) :
              Apply(o) /\ due' = Announced(o, n)
    /\ polite' = (polite /\ DRQ(cd) /\ n > 0)
    /\ got' = (IF polite' THEN got \o [i \in 1..n |-> At(buf, cd.index + i - 1)] ELSE <<>>)
    /\ want' = (IF polite' THEN want ELSE <<>>)
    /\ UNCHANGED <<backend, disc, cmds>>
ReadData(k) == cd.func # "cmd" /\ cd.index + k <= cd.end /\ Read(k)
ReadString(k, count) ==
    /\ cd.func # "cmd"
    /\ LET n == MinimumOf(k * count, cd.end - cd.index) IN Read(n - (n % k))

\* Both edges of SRST.
SoftReset ==
    /\ cmds < MaxCmds /\ cmds' = cmds + 1
    /\ cd' = ide_set_signature([cd EXCEPT !.status = {"READY", "SEEK"}])
    /\ polite' = FALSE /\ want' = <<>> /\ got' = <<>> /\ due' = 0
    /\ UNCHANGED <<buf, backend, disc, notice>>

\* ide_change_cd: the CISO backend closes the old image before it opens the new
\* one, which may fail; a file opened for writing is refused and stays.
ide_change_cd ==
    /\ disc < MaxDiscs
    /\ disc' \in (IF backend = "ciso" THEN {0, disc + 1} ELSE {disc})
    /\ cd' = [cd EXCEPT !.sense = "attention", !.changed = TRUE] /\ notice' = TRUE
    /\ UNCHANGED <<buf, backend, want, got, due, polite, cmds>>

AInit ==
    /\ cd = [reason |-> "cd", limit |-> 2 * BufBytes, status |-> {"READY", "SEEK"}, sense |-> "none",
             changed |-> FALSE, pts |-> 0, ets |-> 0, io |-> 0, lba |-> 0, css |-> 0, packet |-> <<>>, func |-> "stop", index |-> 0, end |-> 0]
    /\ buf = [i \in 0..BufBytes - 1 |-> <<"none", 0, 0, 0>>]
    /\ backend \in {"file", "ciso"} /\ disc = 1
    /\ want = <<>> /\ got = <<>> /\ due = 0 /\ polite = FALSE /\ notice = FALSE /\ cmds = 0

ANext ==
    \/ \E l \in Limits : WriteLimit(l)
    \/ \E c \in {"PACKET", "IDENTIFY_PACKET", "DEVICE_RESET", "IDENTIFY", "OTHER"} : Command(c)
    \/ \E k \in {2, 4} : PacketWrite(k) \/ ReadData(k)
    \/ PacketRead(2) \/ StrayWrite(2)
    \/ \E u \in Strings : ReadString(u[1], u[2]) \/ PacketString(u[1], u[2])
    \/ SoftReset \/ ide_change_cd

\* A driver goes on with the phase it is in, a word at a time.
AFairness == WF_avars(PacketWrite(2)) /\ WF_avars(ReadData(2))
ASpec == AInit /\ [][ANext]_avars /\ AFairness

-----------------------------------------------------------------------------
(* Properties.                                                             *)

\* A READ whose sectors include 0xffffffff.
TakenForNone(p) == Reads(p) /\ p.lba < 0 /\ p.lba + p.n >= 0

\* The data port never leaves io_buffer, whatever sequence of commands, limits,
\* resets and accesses in either direction the guest makes, with one exception:
\* sector 0xffffffff is -1 to the code, a READ that comes to it does not cut its
\* bursts to the sector (1073), and they end behind the buffer.
CdWithinBuffer ==
    /\ cd.index <= cd.end
    /\ cd.end <= BufBytes \/ (cd.func = "reply" /\ TakenForNone(cd.packet))

\* A guest that reads under DRQ gets the bytes it asked for, in order, however
\* limits, sector borders and access widths cut them (of a sector the disc does
\* not have it gets anything: the file backend does not report it, and nobody
\* reports 0xffffffff); and the command ends without an error only when it has
\* them all.
SameByte(a, b) ==
    \/ a[1] = b[1] /\ a[2] = b[2] /\ a[3] = b[3]
    \/ b[1] = "cd" /\ b[2] \notin 0..CdSectors - 1
DataExact ==
    /\ Len(got) <= Len(want)
    /\ \A i \in 1..Len(got) : SameByte(got[i], want[i])
    /\ polite /\ ~DRQ(cd) /\ "ERR" \notin cd.status => Len(got) = Len(want)

\* The byte count the drive shows with an interrupt is what the guest moves
\* before the next one: an interrupt-driven guest neither waits in the middle of
\* a burst nor reads past it.
BurstExact == polite /\ DRQ(cd) /\ cd.func = "reply" => due = cd.ets + (cd.end - cd.index)

\* With DRQ up, the interrupt reason names the phase the data port is in.
PhaseNamed ==
    polite /\ DRQ(cd) => (cd.reason = "cd" <=> cd.func = "cmd") /\ (cd.reason = "io" <=> cd.func = "reply")

\* What a guest that follows the protocol sees of a command: its bytes, in the
\* bursts announced, each under the right phase (ide_atapi_cmd_reply_end).
TransferExact == DataExact /\ BurstExact /\ PhaseNamed

\* After a change of the disc, also one in the middle of a transfer, an error or
\* REQUEST SENSE comes before any other command than INQUIRY gives data.
ChangeReported ==
    [][notice /\ notice' /\ want' # want => want' = <<>> \/ cd'.packet.op = "inquiry"]_avars

\* A guest that goes on reading words gets through every phase, unless it asked
\* for an odd number of bytes or allowed less than two per burst.
Drained == DRQ(cd) ~> (~DRQ(cd) \/ cd.end - cd.index = 1 \/ (cd.func = "reply" /\ cd.index = cd.end))
=============================================================================
