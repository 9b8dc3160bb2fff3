------------------------------- MODULE IdeDriver -------------------------------
(***************************************************************************)
(* An interrupt-driven guest driver on top of IdeChannel: it selects a     *)
(* drive, programs the task file, waits for the interrupt of each block,   *)
(* reads the status and moves the block through the data port with word,   *)
(* long or string accesses.  It may give up at any point and reset the     *)
(* channel.  Drive and address are programmed together (register 6 holds   *)
(* part of both).                                                          *)
(*                                                                         *)
(* With this driver the channel implements BlockDisk.                      *)
(***************************************************************************)
EXTENDS IdeChannel, Sequences

CONSTANTS
  Requests,    \* bound: how many requests the driver makes
  Resets       \* bound: how many of them it gives up

VARIABLES drv  \* the state of the driver

allVars == <<drives, cur, control, irq, disk, drv>>

ReadOps == {"READ", "MULTREAD"}
WriteOps == {"WRITE", "MULTWRITE"}

\* Byte i of the data of request r for drive d.
NewByte(r, d, i) == <<r, d, i>>

\* A medium is no larger than what the address registers reach.
ASSUME DriverSizes ==
  /\ Requests \in Nat /\ Resets \in Nat /\ Sectors < LbaMod
  /\ \A r \in 1 .. Requests, d \in Drive, i \in 0 .. Sectors * SectorBytes - 1 :
       NewByte(r, d, i) \in Cell

\* Sectors of a block, and the bytes of the request still to be moved.
Blocks == IF drv.op \in {"MULTREAD", "MULTWRITE"} THEN MaxMult ELSE 1
BytesLeft == drv.n * SectorBytes - drv.pos

-------------------------------------------------------------------------------
(* Steps of the driver *)

\* A request of the operating system: n sectors from l, inside the medium.
BeginRequest(op, d, l, n) ==
  /\ drv.pc = "idle" /\ drv.r < Requests
  /\ l + n <= Sectors
  /\ drv' = [drv EXCEPT !.pc = "select", !.op = op, !.d = d, !.l = l, !.n = n,
                        !.r = drv.r + 1, !.pos = 0, !.left = 0, !.data = <<>>,
                        !.result = "none"]
  /\ UNCHANGED vars

Select ==
  /\ drv.pc = "select"
  /\ SelectDrive(drv.d, drv.l)
  /\ drv' = [drv EXCEPT !.pc = "count"]

Count ==
  /\ drv.pc = "count"
  /\ WriteCount(drv.n % NMod)
  /\ drv' = [drv EXCEPT !.pc = "command"]

\* A write asks for its first block with DRQ, without an interrupt.
Command ==
  /\ drv.pc = "command"
  /\ WriteCommand(drv.op)
  /\ drv' = [drv EXCEPT !.pc = IF drv.op \in WriteOps THEN "poll" ELSE "wait"]

\* What the driver makes of the status byte.
Judge(status) ==
  IF "ERR" \in status THEN [drv EXCEPT !.pc = "idle", !.result = "error"]
  ELSE IF "DRQ" \in status /\ BytesLeft > 0
    THEN [drv EXCEPT !.pc = "data", !.left = MinOf(BytesLeft, Blocks * SectorBytes)]
  ELSE IF "DRQ" \notin status /\ BytesLeft = 0 /\ drv.op \in WriteOps
    THEN [drv EXCEPT !.pc = "idle", !.result = "ok"]
  ELSE [drv EXCEPT !.pc = "idle", !.result = "lost"]

Interrupt ==
  /\ drv.pc = "wait" /\ irq
  /\ ReadStatus
  /\ drv' = Judge(drives[cur].status)

Poll ==
  /\ drv.pc = "poll"
  /\ ReadStatus
  /\ drv' = Judge(drives[cur].status)

\* k bytes of the block are behind the driver; a read is over with its last
\* byte, everything else goes on with an interrupt.
Gone(k, bytes) ==
  LET over == drv.left = k
      done == over /\ drv.op \in ReadOps /\ BytesLeft = k
  IN  [drv EXCEPT !.left = drv.left - k, !.pos = drv.pos + k,
                  !.data = drv.data \o bytes,
                  !.pc = IF done THEN "idle" ELSE IF over THEN "wait" ELSE "data",
                  !.result = IF done THEN "ok" ELSE @]

\* What a read of the data port returns.
PortBytes(k) == [i \in 1 .. k |-> drives[cur].buf[drives[cur].index + i - 1]]
NewBytes(k) == [i \in 0 .. k - 1 |-> NewByte(drv.r, drv.d, drv.pos + i)]

MoveIn ==
  /\ drv.pc = "data" /\ drv.op \in ReadOps
  /\ \/ \E k \in {2, 4} :
          k <= drv.left /\ DataRead(k) /\ drv' = Gone(k, PortBytes(k))
     \/ \E k \in {1, 2, 4}, count \in 1 .. BufBytes :
          /\ k * count <= drv.left
          /\ StringRead(k, count) /\ drv' = Gone(k * count, PortBytes(k * count))

MoveOut ==
  /\ drv.pc = "data" /\ drv.op \in WriteOps
  /\ \/ \E k \in {2, 4} :
          k <= drv.left /\ DataWrite(k, NewBytes(k)) /\ drv' = Gone(k, <<>>)
     \/ \E k \in {1, 2, 4}, count \in 1 .. BufBytes :
          /\ k * count <= drv.left
          /\ StringWrite(k, count, NewBytes(k * count)) /\ drv' = Gone(k * count, <<>>)

\* The driver gives a request up and resets the channel: SRST up and down, then
\* a status read that takes back a pending interrupt.
GiveUp ==
  /\ drv.pc \in {"count", "command", "poll", "wait", "data"} /\ drv.resets < Resets
  /\ DeviceControl(TRUE, FALSE)
  /\ drv' = [drv EXCEPT !.pc = "reset", !.result = "error", !.resets = drv.resets + 1]

Release ==
  /\ drv.pc = "reset"
  /\ DeviceControl(FALSE, FALSE)
  /\ drv' = [drv EXCEPT !.pc = "settle"]

Settle ==
  /\ drv.pc = "settle"
  /\ ReadStatus
  /\ drv' = [drv EXCEPT !.pc = "idle"]

-------------------------------------------------------------------------------
DriverInit ==
  /\ Init
  /\ drv = [pc |-> "idle", op |-> "READ", d |-> 0, l |-> 0, n |-> 0, r |-> 0,
            resets |-> 0, pos |-> 0, left |-> 0, data |-> <<>>, result |-> "none"]

Proceed ==
  Select \/ Count \/ Command \/ Interrupt \/ Poll \/ MoveIn \/ MoveOut \/ Release \/ Settle

DriverNext ==
  \/ \E op \in ReadOps \cup WriteOps, d \in Drive, l \in 0 .. Sectors - 1, n \in 1 .. NMod :
        BeginRequest(op, d, l, n)
  \/ GiveUp
  \/ Proceed

\* The guest keeps executing its driver; it need not make requests or give up.
DriverSpec == DriverInit /\ [][DriverNext]_allVars /\ WF_allVars(Proceed)

-------------------------------------------------------------------------------
(* Properties *)

\* Type invariant of the channel and of its driver.
DriverTypeOK ==
  /\ TypeOK
  /\ drv.pc \in {"idle", "select", "count", "command", "poll", "wait", "data",
                "reset", "settle"}
  /\ drv.op \in ReadOps \cup WriteOps /\ drv.d \in {0, 1}
  /\ drv.l \in Nat /\ drv.n \in Nat /\ drv.r \in 0 .. Requests /\ drv.resets \in 0 .. Resets
  /\ drv.left \in Nat /\ drv.pos \in 0 .. drv.n * SectorBytes
  /\ drv.data \in Seq(Cell)
  /\ drv.result \in {"none", "ok", "error", "lost"}

\* A request is in progress; its command has been written.
Active == drv.pc \notin {"idle", "reset", "settle"}
Issued == drv.pc \in {"poll", "wait", "data"}

\* The channel seen as a BlockDisk: what a write has stored is read off the
\* address registers.
D == INSTANCE BlockDisk WITH
  media <- disk,
  req <- IF Active THEN [op |-> IF drv.op \in ReadOps THEN "read" ELSE "write",
                         d |-> drv.d, l |-> drv.l, n |-> drv.n]
                   ELSE [op |-> "none", d |-> 0, l |-> 0, n |-> 0],
  data <- IF Active /\ drv.op \in WriteOps
            THEN [i \in 0 .. drv.n * SectorBytes - 1 |-> NewByte(drv.r, drv.d, i)]
            ELSE [i \in 0 .. -1 |-> 0],
  moved <- IF Issued /\ drv.op \in WriteOps
             THEN (drives[drv.d].lba - drv.l) % LbaMod ELSE 0,
  result <- drv.result,
  got <- IF drv.result = "ok" /\ drv.op \in ReadOps
           THEN [i \in 0 .. Len(drv.data) - 1 |-> drv.data[i + 1]]
           ELSE [i \in 0 .. -1 |-> 0]

\* Whatever blocks, access widths, media errors and resets it takes, a request
\* behaves as one of BlockDisk: a read that succeeds returned the sectors asked
\* for, a write stores its own bytes front to back and nothing else, and the
\* address registers always say how far it got.
ImplementsDisk == D!DiskSpec

\* The count and address registers tell a driver where to resume: together they
\* always point at the end of the request.
Resume ==
  Issued => (drives[drv.d].nsector - (drv.n + drv.l - drives[drv.d].lba)) % NMod = 0

\* An interrupt is only ever up while the driver waits for one or resets: the
\* last block of a read raises none, and nothing raises one twice.
NoSpuriousInterrupt == irq => drv.pc \in {"wait", "reset", "settle"}

\* The status a block leaves is the one the driver's count of bytes calls for.
NeverLost == drv.result # "lost"

\* Driver and channel agree on how much was moved and how much is left, in the
\* registers, in the status and in the interrupt (ide_sector_read_cb,
\* ide_sector_write_cb2, ide_transfer_stop).
InStep == DriverTypeOK /\ Resume /\ NeverLost /\ NoSpuriousInterrupt

\* Every request comes to an end: no block waits for an interrupt or a status
\* that does not come.
Completes == drv.pc # "idle" ~> drv.pc = "idle"

===============================================================================
