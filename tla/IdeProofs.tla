------------------------------- MODULE IdeProofs -------------------------------
(***************************************************************************)
(* Proofs about the hard disk.                                             *)
(*                                                                         *)
(* First IdeChannel: the invariant says of one drive what the properties   *)
(* say of all, and that a drive whose data phase goes on has a block size  *)
(* to go on with; every handler is shown to come to drives that satisfy    *)
(* it.                                                                     *)
(*                                                                         *)
(* Then IdeDriver: driver and channel stay in step, and together they      *)
(* implement BlockDisk.  The invariant says, for each place of the driver, *)
(* at which sector of its request the registers stand and what io_buffer   *)
(* holds; every outcome of a handler of ide.c is shown to lead to such a   *)
(* place.                                                                  *)
(***************************************************************************)
EXTENDS IdeDriver, TLAPS

-------------------------------------------------------------------------------
(* The channel. *)

\* What holds of a drive at any time, even when its block has just run out ...
DriveBase(s) ==
  /\ s.index <= s.end
  /\ s.end <= MaxMult * SectorBytes
  /\ s.func \in {"read", "write"} => s.req >= 1
  /\ "DRQ" \in s.status => s.func # "stop"

\* ... and between two accesses of the guest.
DriveSafe(s) ==
  /\ DriveBase(s)
  /\ "DRQ" \in s.status => s.index < s.end
  /\ s.func = "write" /\ "DRQ" \in s.status => s.end = SectorBytes * s.io

\* An outcome a handler may come to when it starts from s.
OutcomeOK(o, s) ==
  /\ o.s \in DriveType
  /\ DriveSafe(o.s)
  /\ "BUSY" \in o.s.status => "BUSY" \in s.status
  /\ o.m \in Medium

IInv ==
  /\ TypeOK
  /\ \A d \in Drive : DriveSafe(drives[d])
  /\ BusyOnlyInReset

-------------------------------------------------------------------------------
(* Arithmetic *)

LEMMA MulMono ==
  ASSUME NEW a \in Nat, NEW b \in Nat, NEW c \in Nat, a <= b
  PROVE  /\ c * a \in Nat /\ b * c \in Nat /\ c * a <= b * c
         /\ a >= 1 /\ c >= 1 => c * a >= 1
<1>1. PICK k \in Nat : b = a + k  OBVIOUS
<1>2. b * c = c * a + c * k /\ c * k \in Nat /\ c * a \in Nat  BY <1>1
<1>3. a >= 1 /\ c >= 1 => c * a >= 1
  <2>1. SUFFICES ASSUME a >= 1, c >= 1 PROVE c * a >= 1  OBVIOUS
  <2>2. PICK j \in Nat : a = j + 1  BY <2>1
  <2>3. c * a = c * j + c /\ c * j \in Nat  BY <2>2
  <2>4. QED  BY <2>1, <2>3
<1>4. QED  BY <1>2, <1>3

\* A block is at least one sector and at most MAX_MULT_SECTORS.
LEMMA BlockSizeBound ==
  ASSUME NEW s \in DriveType, s.req >= 1
  PROVE  BlockSize(s) \in 1 .. MaxMult
BY SizesAssumption DEF BlockSize, MinOf, DriveType

LEMMA ModBound ==
  ASSUME NEW a \in Int, NEW n \in Nat \ {0}
  PROVE  a % n \in 0 .. n - 1
OBVIOUS

-------------------------------------------------------------------------------
(* The building blocks *)

LEMMA TransferStartType ==
  ASSUME NEW s \in DriveType, NEW size \in Nat, NEW f \in Funcs
  PROVE  /\ TransferStart(s, size, f) \in DriveType
         /\ TransferStart(s, size, f).func = f
         /\ TransferStart(s, size, f).index = 0
         /\ TransferStart(s, size, f).end = size
         /\ TransferStart(s, size, f).status = s.status
         /\ TransferStart(s, size, f).io = s.io
         /\ TransferStart(s, size, f).req = s.req
         /\ TransferStart(s, size, f).nsector = s.nsector
BY DEF TransferStart, DriveType

LEMMA TransferStopType ==
  ASSUME NEW s \in DriveType
  PROVE  /\ TransferStop(s) \in DriveType
         /\ TransferStop(s).func = "stop"
         /\ TransferStop(s).index = 0
         /\ TransferStop(s).end = 0
         /\ TransferStop(s).status = s.status
         /\ TransferStop(s).io = s.io
         /\ TransferStop(s).req = s.req
<1>1. 0 \in Nat /\ "stop" \in Funcs  BY DEF Funcs
<1>2. TransferStop(s) = TransferStart(s, 0, "stop")  BY DEF TransferStop
<1>3. QED  BY <1>1, <1>2, TransferStartType

LEMMA AbortSafe ==
  ASSUME NEW s \in DriveType, DriveBase(s)
  PROVE  Abort(s) \in DriveType /\ DriveSafe(Abort(s)) /\ "BUSY" \notin Abort(s).status
BY DEF Abort, DriveType, DriveBase, DriveSafe, StatusBits

LEMMA AdvanceType ==
  ASSUME NEW s \in DriveType
  PROVE  /\ Advance(s) \in DriveType
         /\ Advance(s).io = s.io /\ Advance(s).req = s.req
         /\ Advance(s).index = s.index /\ Advance(s).end = s.end
         /\ Advance(s).func = s.func /\ Advance(s).status = s.status
<1>0. s.lba + s.io \in Int /\ s.nsector - s.io \in Int /\ LbaMod \in Nat \ {0}
  BY SizesAssumption DEF DriveType, Lba
<1>1. (s.lba + s.io) % LbaMod \in Lba
  BY <1>0, ModBound DEF Lba
<1>2. (s.nsector - s.io) % NMod \in 0 .. NMod - 1
  BY <1>0, ModBound, SizesAssumption
<1>3. QED  BY <1>1, <1>2 DEF Advance, DriveType

LEMMA FilledType ==
  ASSUME NEW s \in DriveType, NEW m \in Medium
  PROVE  Filled(s, m) \in [0 .. BufBytes - 1 -> Cell]
<1>1. DOMAIN s.buf = 0 .. BufBytes - 1 /\ s.buf \in [0 .. BufBytes - 1 -> Cell] /\ s.lba \in Nat
  BY DEF DriveType, Lba
<1>2. SUFFICES ASSUME NEW i \in 0 .. BufBytes - 1, s.lba + (i \div SectorBytes) < Sectors
               PROVE  m[s.lba + (i \div SectorBytes)][i % SectorBytes] \in Cell
  BY <1>1 DEF Filled
<1>3. i \in Nat /\ SectorBytes \in Nat \ {0}
  BY SizesAssumption
<1>3a. i \div SectorBytes \in Nat
  BY <1>3
<1>3b. i % SectorBytes \in Offset
  BY <1>3, ModBound DEF Offset
<1>4. s.lba + (i \div SectorBytes) \in 0 .. Sectors - 1
  BY <1>1, <1>2, <1>3a, SizesAssumption
<1>5. QED  BY <1>3b, <1>4 DEF Medium

LEMMA WrittenType ==
  ASSUME NEW s \in DriveType, NEW m \in Medium
  PROVE  Written(s, m) \in Medium
<1>1. s.buf \in [0 .. BufBytes - 1 -> Cell] /\ s.lba \in Nat /\ s.io \in 0 .. MaxMult
  BY DEF DriveType, Lba
<1>2. DOMAIN m = 0 .. Sectors - 1  BY DEF Medium
<1>3. SUFFICES ASSUME NEW l \in 0 .. Sectors - 1, l \in s.lba .. s.lba + s.io - 1, NEW o \in Offset
               PROVE  (l - s.lba) * SectorBytes + o \in 0 .. BufBytes - 1
  BY <1>1, <1>2 DEF Written, Medium
<1> DEFINE j == l - s.lba
<1>4. j \in Nat /\ j + 1 <= MaxMult /\ SectorBytes \in Nat /\ MaxMult \in Nat /\ o \in 0 .. SectorBytes - 1
  BY <1>1, <1>3, SizesAssumption DEF Offset
<1> HIDE DEF j
<1>5. SectorBytes * (j + 1) <= MaxMult * SectorBytes /\ MaxMult * SectorBytes \in Nat
  BY <1>4, MulMono
<1>6. SectorBytes * (j + 1) = j * SectorBytes + SectorBytes /\ j * SectorBytes \in Nat
  BY <1>4
<1>7. j * SectorBytes + o \in 0 .. BufBytes - 1
  BY <1>4, <1>5, <1>6 DEF BufBytes
<1>8. QED  BY <1>7 DEF j

-------------------------------------------------------------------------------
(* The handlers *)

\* A block of s.io sectors is armed for reading or writing.
LEMMA BlockArmed ==
  ASSUME NEW s \in DriveType, s.io \in 1 .. MaxMult, s.req >= 1,
         NEW f \in {"read", "readEnd", "write"},
         NEW t \in DriveType,
         t.index = 0, t.end = SectorBytes * s.io, t.io = s.io, t.req = s.req,
         t.func = f, t.status = {"READY", "SEEK", "DRQ"}
  PROVE  DriveSafe(t) /\ "BUSY" \notin t.status
<1>1. SectorBytes * s.io \in Nat /\ SectorBytes * s.io <= MaxMult * SectorBytes
      /\ SectorBytes * s.io >= 1
  BY MulMono, SizesAssumption
<1>2. QED  BY <1>1 DEF DriveBase, DriveSafe

LEMMA SectorReadCbSafe ==
  ASSUME NEW s \in DriveType, s.io \in 1 .. MaxMult, s.req >= 1
  PROVE  /\ SectorReadCb(s) \in DriveType
         /\ DriveSafe(SectorReadCb(s))
         /\ "BUSY" \notin SectorReadCb(s).status
<1> DEFINE t == Advance(s)
           f == IF t.nsector = 0 THEN "readEnd" ELSE "read"
           u == TransferStart(t, SectorBytes * s.io, f)
<1>1. t \in DriveType /\ t.io = s.io /\ t.req = s.req  BY AdvanceType
<1>2. f \in Funcs /\ f \in {"read", "readEnd", "write"} /\ SectorBytes * s.io \in Nat
  BY MulMono, SizesAssumption DEF Funcs
<1>3. /\ u \in DriveType /\ u.index = 0 /\ u.end = SectorBytes * s.io
      /\ u.func = f /\ u.io = s.io /\ u.req = s.req
  <2> HIDE DEF t, f
  <2>1. QED  BY <1>1, <1>2, TransferStartType
<1>4. SectorReadCb(s) = [u EXCEPT !.status = {"READY", "SEEK", "DRQ"}, !.error = "none"]
  BY <1>1 DEF SectorReadCb
<1>5. PICK v : v = [u EXCEPT !.status = {"READY", "SEEK", "DRQ"}, !.error = "none"]  OBVIOUS
<1> HIDE DEF t, f, u
<1>6. /\ v \in DriveType /\ v.index = 0 /\ v.end = SectorBytes * s.io
      /\ v.func = f /\ v.io = s.io /\ v.req = s.req /\ v.status = {"READY", "SEEK", "DRQ"}
  BY <1>3, <1>5 DEF DriveType, StatusBits
<1>7. DriveSafe(v) /\ "BUSY" \notin v.status  BY <1>2, <1>6, BlockArmed
<1>8. QED  BY <1>4, <1>5, <1>6, <1>7

LEMMA SectorReadOK ==
  ASSUME NEW s \in DriveType, DriveBase(s), s.req >= 1, NEW m \in Medium,
         NEW o \in SectorRead(s, m)
  PROVE  OutcomeOK(o, s)
<1> DEFINE t == [s EXCEPT !.io = BlockSize(s)]
           v == [t EXCEPT !.buf = Filled(t, m)]
<1>1. t \in DriveType /\ t.io \in 1 .. MaxMult /\ t.req >= 1
  BY BlockSizeBound DEF DriveType
<1>2. v \in DriveType /\ v.io \in 1 .. MaxMult /\ v.req >= 1
  <2>1. Filled(t, m) \in [0 .. BufBytes - 1 -> Cell]  BY <1>1, FilledType
  <2> HIDE DEF t
  <2>2. QED  BY <1>1, <2>1 DEF DriveType
<1>3. Abort(t) \in DriveType /\ DriveSafe(Abort(t)) /\ "BUSY" \notin Abort(t).status
  <2>1. Abort(t) \in DriveType /\ Abort(t).status = {"READY", "ERR"}
        /\ Abort(t).index = s.index /\ Abort(t).end = s.end /\ Abort(t).req = s.req
    BY <1>1 DEF Abort, DriveType, StatusBits
  <2>2. QED  BY <2>1, SizesAssumption DEF DriveBase, DriveSafe
<1>4. /\ SectorReadCb(v) \in DriveType /\ DriveSafe(SectorReadCb(v))
      /\ "BUSY" \notin SectorReadCb(v).status
  <2> HIDE DEF v
  <2>1. QED  BY <1>2, SectorReadCbSafe
<1>5. o = Outcome(Abort(t), m, TRUE) \/ o = Outcome(SectorReadCb(v), m, TRUE)
  BY DEF SectorRead
<1> HIDE DEF t, v
<1>6. QED  BY <1>3, <1>4, <1>5 DEF Outcome, OutcomeOK

LEMMA SectorWriteSafe ==
  ASSUME NEW s \in DriveType, s.req >= 1
  PROVE  /\ SectorWrite(s) \in DriveType
         /\ DriveSafe(SectorWrite(s))
         /\ "BUSY" \notin SectorWrite(s).status
<1> DEFINE n == BlockSize(s)
           t == [s EXCEPT !.io = n]
           u == TransferStart(t, SectorBytes * n, "write")
<1>1. n \in 1 .. MaxMult  BY BlockSizeBound
<1>2. t \in DriveType /\ t.io = n /\ t.req = s.req
  <2> HIDE DEF n
  <2>1. QED  BY <1>1 DEF DriveType
<1>3. SectorBytes * n \in Nat /\ "write" \in Funcs
  BY <1>1, MulMono, SizesAssumption DEF Funcs
<1>4. /\ u \in DriveType /\ u.index = 0 /\ u.end = SectorBytes * n
      /\ u.func = "write" /\ u.io = n /\ u.req = s.req
  <2> HIDE DEF t, n
  <2>1. QED  BY <1>2, <1>3, TransferStartType
<1>5. PICK v : v = [u EXCEPT !.status = {"READY", "SEEK", "DRQ"}]  OBVIOUS
<1>6. SectorWrite(s) = v  BY <1>5 DEF SectorWrite
<1> HIDE DEF n, t, u
<1>7. /\ v \in DriveType /\ v.index = 0 /\ v.end = SectorBytes * n
      /\ v.func = "write" /\ v.io = n /\ v.req = s.req /\ v.status = {"READY", "SEEK", "DRQ"}
  BY <1>4, <1>5 DEF DriveType, StatusBits
<1>8. DriveSafe(v) /\ "BUSY" \notin v.status
  BY <1>1, <1>2, <1>7, BlockArmed
<1>9. QED  BY <1>6, <1>7, <1>8

LEMMA SectorWriteCb1OK ==
  ASSUME NEW s \in DriveType, s.req >= 1, NEW m \in Medium,
         NEW o \in SectorWriteCb1(s, m)
  PROVE  OutcomeOK(o, s)
<1> DEFINE t == TransferStop(s)
           u == Advance(t)
           v == [u EXCEPT !.status = {"READY", "SEEK"}]
<1>1. /\ t \in DriveType /\ t.index = 0 /\ t.end = 0 /\ t.func = "stop"
      /\ t.io = s.io /\ t.req = s.req
  BY TransferStopType
<1>2. /\ u \in DriveType /\ u.req = s.req /\ u.index = 0 /\ u.end = 0 /\ u.func = "stop"
  <2> HIDE DEF t
  <2>1. QED  BY <1>1, AdvanceType
<1>3. MaxMult * SectorBytes \in Nat  BY MulMono, SizesAssumption
<1>4. v \in DriveType /\ DriveSafe(v) /\ "BUSY" \notin v.status
  <2> HIDE DEF u
  <2>1. v \in DriveType /\ v.index = 0 /\ v.end = 0 /\ v.func = "stop" /\ v.status = {"READY", "SEEK"}
    BY <1>2 DEF DriveType, StatusBits
  <2>2. QED  BY <2>1, <1>3 DEF DriveBase, DriveSafe
<1>5. /\ SectorWrite(u) \in DriveType /\ DriveSafe(SectorWrite(u))
      /\ "BUSY" \notin SectorWrite(u).status
  <2> HIDE DEF u
  <2>1. QED  BY <1>2, SectorWriteSafe
<1>6. /\ Abort(t) \in DriveType /\ DriveSafe(Abort(t)) /\ "BUSY" \notin Abort(t).status
  <2> HIDE DEF t
  <2>1. Abort(t) \in DriveType /\ Abort(t).status = {"READY", "ERR"}
        /\ Abort(t).index = 0 /\ Abort(t).end = 0 /\ Abort(t).func = "stop"
    BY <1>1 DEF Abort, DriveType, StatusBits
  <2>2. QED  BY <2>1, <1>3 DEF DriveBase, DriveSafe
<1>7. Written(t, m) \in Medium
  <2> HIDE DEF t
  <2>1. QED  BY <1>1, WrittenType
<1>8. \/ o = Outcome(Abort(t), m, TRUE)
      \/ o = Outcome(SectorWriteCb2(t), Written(t, m), TRUE)
  BY DEF SectorWriteCb1
<1>9. SectorWriteCb2(t) \in {v, SectorWrite(u)}  BY DEF SectorWriteCb2
<1> HIDE DEF t, u, v
<1>10. QED  BY <1>4, <1>5, <1>6, <1>7, <1>8, <1>9 DEF Outcome, OutcomeOK

\* Whatever function ends the block, it leaves the drive safe.
LEMMA EndTransferOK ==
  ASSUME NEW s \in DriveType, DriveBase(s), NEW m \in Medium,
         NEW o \in EndTransfer(s, m)
  PROVE  OutcomeOK(o, s)
<1> DEFINE t == TransferStop(s)
<1>1. /\ t \in DriveType /\ t.index = 0 /\ t.end = 0 /\ t.func = "stop"
      /\ t.status = s.status
  BY TransferStopType
<1>2. MaxMult * SectorBytes \in Nat  BY MulMono, SizesAssumption
<1>3. CASE s.func = "stop"
  <2>1. o = Outcome(t, m, FALSE)  BY <1>3 DEF EndTransfer
  <2>2. "DRQ" \notin t.status  BY <1>1, <1>3 DEF DriveBase
  <2> HIDE DEF t
  <2>3. QED  BY <1>1, <1>2, <2>1, <2>2 DEF OutcomeOK, Outcome, DriveBase, DriveSafe
<1>4. CASE s.func = "identify"
  <2> DEFINE v == [t EXCEPT !.status = {"READY"}]
  <2>1. o = Outcome(v, m, FALSE)  BY <1>4 DEF EndTransfer, IdentifyCb
  <2> HIDE DEF t
  <2>2. v \in DriveType /\ v.index = 0 /\ v.end = 0 /\ v.func = "stop" /\ v.status = {"READY"}
    BY <1>1 DEF DriveType, StatusBits
  <2> HIDE DEF v
  <2>3. QED  BY <1>2, <2>1, <2>2 DEF OutcomeOK, Outcome, DriveBase, DriveSafe
<1>5. CASE s.func = "read"
  <2>1. o \in SectorRead(s, m) /\ s.req >= 1  BY <1>5 DEF EndTransfer, DriveBase
  <2>2. QED  BY <2>1, SectorReadOK
<1>6. CASE s.func = "readEnd"
  <2> DEFINE u == [s EXCEPT !.status = {"READY", "SEEK"}, !.error = "none"]
  <2>1. o = Outcome(TransferStop(u), m, FALSE)
    BY <1>6 DEF EndTransfer, SectorReadCbEnd
  <2>2. u \in DriveType /\ u.status = {"READY", "SEEK"}
    BY DEF DriveType, StatusBits
  <2> HIDE DEF u
  <2>3. /\ TransferStop(u) \in DriveType /\ TransferStop(u).index = 0
        /\ TransferStop(u).end = 0 /\ TransferStop(u).func = "stop"
        /\ TransferStop(u).status = {"READY", "SEEK"}
    BY <2>2, TransferStopType
  <2>4. QED  BY <1>2, <2>1, <2>3 DEF OutcomeOK, Outcome, DriveBase, DriveSafe
<1>7. CASE s.func = "write"
  <2>1. o \in SectorWriteCb1(s, m) /\ s.req >= 1  BY <1>7 DEF EndTransfer, DriveBase
  <2>2. QED  BY <2>1, SectorWriteCb1OK
<1>8. s.func \in {"stop", "identify", "read", "readEnd", "write"}  BY DEF DriveType, Funcs
<1>9. QED  BY <1>3, <1>4, <1>5, <1>6, <1>7, <1>8

LEMMA ExecCmdOK ==
  ASSUME NEW s \in DriveType, DriveSafe(s), NEW m \in Medium, NEW c \in Commands,
         NEW o \in ExecCmd(s, m, c)
  PROVE  OutcomeOK(o, s)
<1>0. /\ DriveBase(s)
      /\ Abort(s) \in DriveType /\ DriveSafe(Abort(s)) /\ "BUSY" \notin Abort(s).status
  BY AbortSafe DEF DriveSafe
<1>1. ASSUME o = Outcome(Abort(s), m, TRUE) PROVE OutcomeOK(o, s)
  BY <1>0, <1>1 DEF Outcome, OutcomeOK
<1>2. ASSUME NEW e \in {s.error, "none"}, NEW mu \in 0 .. MaxMult, NEW l \in Lba,
             NEW t \in {{"READY", "SEEK"}, {"READY"}},
             NEW v, v = [s EXCEPT !.error = e, !.mult = mu, !.lba = l, !.status = t],
             o = Outcome(v, m, TRUE)
      PROVE  OutcomeOK(o, s)
  <2>1. /\ v \in DriveType /\ v.index = s.index /\ v.end = s.end /\ v.req = s.req
        /\ v.status = t /\ v.func = s.func
    BY <1>2 DEF DriveType, StatusBits
  <2>2. "DRQ" \notin v.status /\ "BUSY" \notin v.status  BY <2>1
  <2>3. DriveSafe(v)  BY <1>0, <2>1, <2>2 DEF DriveBase, DriveSafe
  <2>4. o.s = v /\ o.m = m  BY <1>2 DEF Outcome
  <2>5. QED  BY <2>1, <2>2, <2>3, <2>4 DEF OutcomeOK
<1>3. ASSUME NEW r \in 1 .. MaxMult
      PROVE  /\ [s EXCEPT !.req = r] \in DriveType /\ [s EXCEPT !.req = r].req >= 1
             /\ DriveBase([s EXCEPT !.req = r])
             /\ [s EXCEPT !.req = r].status = s.status
  <2>1. r \in 0 .. MaxMult /\ r >= 1  BY SizesAssumption
  <2>2. QED  BY <1>0, <2>1 DEF DriveType, DriveBase
<1>4. ASSUME NEW r \in 1 .. MaxMult, o \in SectorRead([s EXCEPT !.req = r], m)
      PROVE  OutcomeOK(o, s)
  <2> DEFINE t == [s EXCEPT !.req = r]
  <2>1. t \in DriveType /\ t.req >= 1 /\ DriveBase(t) /\ t.status = s.status  BY <1>3
  <2>2. o \in SectorRead(t, m)  BY <1>4
  <2> HIDE DEF t
  <2>3. OutcomeOK(o, t)  BY <2>1, <2>2, SectorReadOK
  <2>4. QED  BY <2>1, <2>3 DEF OutcomeOK
<1>5. ASSUME NEW r \in 1 .. MaxMult,
             o = Outcome(SectorWrite([s EXCEPT !.req = r]), m, FALSE)
      PROVE  OutcomeOK(o, s)
  <2> DEFINE t == [s EXCEPT !.req = r]
  <2>1. t \in DriveType /\ t.req >= 1  BY <1>3
  <2>2. o = Outcome(SectorWrite(t), m, FALSE)  BY <1>5
  <2> HIDE DEF t
  <2>3. /\ SectorWrite(t) \in DriveType /\ DriveSafe(SectorWrite(t))
        /\ "BUSY" \notin SectorWrite(t).status
    BY <2>1, SectorWriteSafe
  <2>4. QED  BY <2>2, <2>3 DEF Outcome, OutcomeOK
<1>6. CASE c = "IDENTIFY"
  <2> DEFINE u == TransferStart(s, SectorBytes, "identify")
             b == [i \in DOMAIN s.buf |-> IF i < SectorBytes THEN IdCell ELSE s.buf[i]]
             v == [u EXCEPT !.buf = b, !.status = {"READY", "SEEK", "DRQ"}]
  <2>1. o = Outcome(v, m, TRUE)  BY <1>6 DEF ExecCmd, Identify
  <2>2. b \in [0 .. BufBytes - 1 -> Cell]  BY DataAssumption DEF DriveType
  <2>3. SectorBytes \in Nat /\ "identify" \in Funcs  BY SizesAssumption DEF Funcs
  <2>4. u \in DriveType /\ u.index = 0 /\ u.end = SectorBytes /\ u.func = "identify"
    BY <2>3, TransferStartType
  <2> HIDE DEF u, b
  <2>5. /\ v \in DriveType /\ v.index = 0 /\ v.end = SectorBytes /\ v.func = "identify"
        /\ v.status = {"READY", "SEEK", "DRQ"}
    BY <2>2, <2>4 DEF DriveType, StatusBits
  <2>6. SectorBytes <= MaxMult * SectorBytes /\ SectorBytes > 0
    <3>1. SectorBytes * 1 <= MaxMult * SectorBytes  BY MulMono, SizesAssumption
    <3>2. QED  BY <3>1, SizesAssumption
  <2> HIDE DEF v
  <2>7. QED  BY <2>1, <2>3, <2>5, <2>6 DEF Outcome, OutcomeOK, DriveBase, DriveSafe
<1>7. s.error \in {s.error, "none"} /\ s.mult \in 0 .. MaxMult /\ s.lba \in Lba
      /\ 1 \in 1 .. MaxMult
  BY SizesAssumption DEF DriveType
<1>8. CASE c = "RECAL"
  <2> DEFINE v == [s EXCEPT !.error = "none", !.mult = s.mult, !.lba = s.lba,
                            !.status = {"READY", "SEEK"}]
  <2>1. v = [s EXCEPT !.error = "none", !.status = {"READY", "SEEK"}]  BY DEF DriveType
  <2>2. o = Outcome(v, m, TRUE)  BY <1>8, <2>1 DEF ExecCmd
  <2>3. QED  BY <1>2, <1>7, <2>2
<1>9. CASE c = "SETMULT"
  <2>1. o = Outcome(SetMult(s), m, TRUE)  BY <1>9 DEF ExecCmd
  <2>2. CASE SetMult(s) = Abort(s)  BY <1>1, <2>1, <2>2
  <2>3. CASE s.nsector = 0 \/ s.nsector \in {n \in PowerOfTwo : n <= MaxMult}
    <3> DEFINE v == [s EXCEPT !.error = s.error, !.mult = s.nsector, !.lba = s.lba,
                              !.status = {"READY"}]
    <3>1. SetMult(s) = v  BY <2>3 DEF SetMult, DriveType
    <3>2. s.nsector \in 0 .. MaxMult  BY <2>3, SizesAssumption DEF DriveType
    <3>3. QED  BY <1>2, <1>7, <2>1, <3>1, <3>2
  <2>4. QED  BY <2>2, <2>3 DEF SetMult
<1>10. CASE c = "READ"  BY <1>4, <1>7, <1>10 DEF ExecCmd
<1>11. CASE c = "WRITE"  BY <1>5, <1>7, <1>11 DEF ExecCmd
<1>12. CASE c = "MULTREAD"
  <2>1. CASE s.mult = 0  BY <1>1, <1>12, <2>1 DEF ExecCmd
  <2>2. CASE s.mult # 0
    <3>1. s.mult \in 1 .. MaxMult  BY <1>7, <2>2, SizesAssumption
    <3>2. QED  BY <1>4, <1>12, <2>2, <3>1 DEF ExecCmd
  <2>3. QED  BY <2>1, <2>2
<1>13. CASE c = "MULTWRITE"
  <2>1. CASE s.mult = 0  BY <1>1, <1>13, <2>1 DEF ExecCmd
  <2>2. CASE s.mult # 0
    <3>1. s.mult \in 1 .. MaxMult  BY <1>7, <2>2, SizesAssumption
    <3>2. QED  BY <1>5, <1>13, <2>2, <3>1 DEF ExecCmd
  <2>3. QED  BY <2>1, <2>2
<1>14. CASE c = "NATIVEMAX"
  <2> DEFINE l == (Sectors - 1) % LbaMod
             v == [s EXCEPT !.error = s.error, !.mult = s.mult, !.lba = l,
                            !.status = {"READY"}]
  <2>1. Sectors - 1 \in Int /\ LbaMod \in Nat \ {0}  BY SizesAssumption
  <2>2. l \in Lba  BY <2>1, ModBound DEF Lba
  <2>3. v = [s EXCEPT !.lba = l, !.status = {"READY"}]
    <3> HIDE DEF l
    <3>1. QED  BY DEF DriveType
  <2>4. o = Outcome(v, m, TRUE)  BY <1>14, <2>3 DEF ExecCmd
  <2> HIDE DEF l
  <2>5. QED  BY <1>2, <1>7, <2>2, <2>4
<1>15. CASE c = "OTHER"  BY <1>1, <1>15 DEF ExecCmd
<1>16. QED
  BY <1>6, <1>8, <1>9, <1>10, <1>11, <1>12, <1>13, <1>14, <1>15 DEF Commands

\* n bytes that still fit the block have gone through the data port.
LEMMA MovedOK ==
  ASSUME NEW s \in DriveType, DriveSafe(s), NEW m \in Medium,
         NEW n \in Nat, s.index + n <= s.end, NEW o \in Moved(s, m, n)
  PROVE  OutcomeOK(o, s)
<1> DEFINE t == [s EXCEPT !.index = s.index + n]
<1>1. /\ t \in DriveType /\ t.index = s.index + n /\ t.end = s.end /\ t.func = s.func
      /\ t.status = s.status /\ t.req = s.req /\ t.io = s.io
  <2>1. s.index + n \in Nat  BY DEF DriveType
  <2> DEFINE k == s.index + n
  <2> HIDE DEF k
  <2>2. LET u == [s EXCEPT !.index = k]
        IN  /\ k \in Nat => u \in DriveType
            /\ u.index = k /\ u.end = s.end /\ u.func = s.func
            /\ u.status = s.status /\ u.req = s.req /\ u.io = s.io
    BY DEF DriveType
  <2>3. QED  BY <2>1, <2>2 DEF k
<1>2. DriveBase(t)  BY <1>1 DEF DriveSafe, DriveBase
<1>3. CASE t.index >= t.end
  <2>1. o \in EndTransfer(t, m)  BY <1>3 DEF Moved
  <2> HIDE DEF t
  <2>2. OutcomeOK(o, t)  BY <1>1, <1>2, <2>1, EndTransferOK
  <2>3. QED  BY <1>1, <2>2 DEF OutcomeOK
<1>4. CASE ~(t.index >= t.end)
  <2>1. o = Outcome(t, m, FALSE)  BY <1>4 DEF Moved
  <2>2. t.index < t.end  BY <1>1, <1>4 DEF DriveType
  <2> HIDE DEF t
  <2>3. QED  BY <1>1, <1>2, <2>1, <2>2 DEF OutcomeOK, Outcome, DriveSafe
<1>5. QED  BY <1>3, <1>4

-------------------------------------------------------------------------------
(* The guest's accesses *)

\* Register and buffer writes leave the data phase alone.
LEMMA SamePhase ==
  ASSUME NEW s \in DriveType, DriveSafe(s), NEW t \in DriveType,
         t.index = s.index, t.end = s.end, t.func = s.func,
         t.status = s.status, t.req = s.req, t.io = s.io
  PROVE  DriveSafe(t)
BY DEF DriveSafe, DriveBase

LEMMA CountWrite ==
  ASSUME NEW s \in DriveType, DriveSafe(s), NEW n \in 0 .. NMod - 1
  PROVE  LET t == [s EXCEPT !.nsector = n]
         IN  t \in DriveType /\ DriveSafe(t) /\ t.status = s.status
<1> DEFINE t == [s EXCEPT !.nsector = n]
<1>1. /\ t \in DriveType /\ t.index = s.index /\ t.end = s.end /\ t.func = s.func
      /\ t.status = s.status /\ t.req = s.req /\ t.io = s.io
  BY DEF DriveType
<1> HIDE DEF t
<1>2. DriveSafe(t)  BY <1>1, SamePhase
<1>3. QED  BY <1>1, <1>2 DEF t

LEMMA AddressWrite ==
  ASSUME NEW s \in DriveType, DriveSafe(s), NEW l \in Lba
  PROVE  LET t == [s EXCEPT !.lba = l]
         IN  t \in DriveType /\ DriveSafe(t) /\ t.status = s.status
<1> DEFINE t == [s EXCEPT !.lba = l]
<1>1. /\ t \in DriveType /\ t.index = s.index /\ t.end = s.end /\ t.func = s.func
      /\ t.status = s.status /\ t.req = s.req /\ t.io = s.io
  BY DEF DriveType
<1> HIDE DEF t
<1>2. DriveSafe(t)  BY <1>1, SamePhase
<1>3. QED  BY <1>1, <1>2 DEF t

LEMMA StringBytesBound ==
  ASSUME NEW s \in DriveType, DriveSafe(s), NEW k \in {1, 2, 4}, NEW count \in 1 .. BufBytes
  PROVE  /\ StringBytes(s, k, count) \in Nat
         /\ s.index + StringBytes(s, k, count) <= s.end
         /\ StringBytes(s, k, count) <= k * count
<1>1. s.index \in Nat /\ s.end \in Nat /\ s.index <= s.end
  BY DEF DriveType, DriveSafe, DriveBase
<1> DEFINE n == MinOf(k * count, s.end - s.index)
<1>2. BufBytes \in Int
  BY MulMono, SizesAssumption DEF BufBytes
<1>3. k * count \in Nat
  BY <1>2
<1>4. n \in Nat /\ n <= k * count /\ n <= s.end - s.index
  BY <1>1, <1>3 DEF MinOf
<1>5. StringBytes(s, k, count) = n - (n % k)  BY DEF StringBytes
<1> HIDE DEF n
<1>6. n % k \in 0 .. k - 1 /\ n % k <= n
  <2>1. CASE k = 1  BY <1>4, <2>1
  <2>2. CASE k = 2  BY <1>4, <2>2
  <2>3. CASE k = 4  BY <1>4, <2>3
  <2>4. QED  BY <2>1, <2>2, <2>3
<1>7. QED  BY <1>1, <1>3, <1>4, <1>5, <1>6

LEMMA PutSafe ==
  ASSUME NEW s \in DriveType, DriveSafe(s), NEW k \in Nat, NEW n \in 0 .. k,
         NEW w \in [0 .. k - 1 -> Cell]
  PROVE  /\ Put(s, w, n) \in DriveType /\ DriveSafe(Put(s, w, n))
         /\ Put(s, w, n).status = s.status
         /\ Put(s, w, n).index = s.index /\ Put(s, w, n).end = s.end
<1> DEFINE b == [i \in DOMAIN s.buf |->
                   IF i \in s.index .. s.index + n - 1 THEN w[i - s.index] ELSE s.buf[i]]
<1>1. s.buf \in [0 .. BufBytes - 1 -> Cell] /\ s.index \in Nat  BY DEF DriveType
<1>2. DOMAIN s.buf = 0 .. BufBytes - 1  BY <1>1
<1>3. b \in [0 .. BufBytes - 1 -> Cell]
  <2>1. SUFFICES ASSUME NEW i \in 0 .. BufBytes - 1, i \in s.index .. s.index + n - 1
                 PROVE  w[i - s.index] \in Cell
    BY <1>1, <1>2
  <2>2. i - s.index \in 0 .. k - 1  BY <1>1, <2>1
  <2>3. QED  BY <2>2
<1>4. Put(s, w, n) = [s EXCEPT !.buf = b]  BY DEF Put
<1> HIDE DEF b
<1> DEFINE t == [s EXCEPT !.buf = b]
<1>5. /\ t \in DriveType /\ t.index = s.index /\ t.end = s.end /\ t.func = s.func
      /\ t.status = s.status /\ t.req = s.req /\ t.io = s.io
  BY <1>3 DEF DriveType
<1> HIDE DEF t
<1>6. DriveSafe(t)  BY <1>5, SamePhase
<1>7. QED  BY <1>4, <1>5, <1>6 DEF t

LEMMA Selected ==
  ASSUME IInv, cur # NoDrive
  PROVE  /\ cur \in Drive /\ drives[cur] \in DriveType /\ DriveSafe(drives[cur])
         /\ disk[cur] \in Medium
BY DEF IInv, TypeOK

LEMMA ApplyStep ==
  ASSUME IInv, cur # NoDrive, NEW H, Apply(H),
         \A o \in H : OutcomeOK(o, drives[cur])
  PROVE  IInv'
<1>1. PICK o \in H : /\ drives' = [drives EXCEPT ![cur] = o.s]
                     /\ disk' = [disk EXCEPT ![cur] = o.m]
                     /\ irq' = (irq \/ (o.raised /\ ~control.nien))
                     /\ UNCHANGED <<cur, control>>
  BY DEF Apply
<1>2. o.s \in DriveType /\ DriveSafe(o.s) /\ o.m \in Medium
      /\ ("BUSY" \in o.s.status => "BUSY" \in drives[cur].status)
  BY DEF OutcomeOK
<1>3. cur \in Drive  BY Selected
<1>4. drives' \in [Drive -> DriveType]  BY <1>1, <1>2, <1>3 DEF IInv, TypeOK
<1>5. disk' \in [Drive -> Medium]  BY <1>1, <1>2, <1>3 DEF IInv, TypeOK
<1>6. irq' \in BOOLEAN  BY <1>1, Zenon
<1>7. TypeOK'
  <2>1. cur' \in Drive \cup {NoDrive} /\ control' \in [srst : BOOLEAN, nien : BOOLEAN]
    BY <1>1 DEF IInv, TypeOK
  <2>2. QED  BY <1>4, <1>5, <1>6, <2>1 DEF TypeOK
<1>8. ASSUME NEW d \in Drive PROVE DriveSafe(drives'[d])
  BY <1>1, <1>2, <1>3, <1>8 DEF IInv, TypeOK
<1>9. BusyOnlyInReset'
  <2>1. SUFFICES ASSUME NEW d \in Drive, "BUSY" \in drives'[d].status PROVE control.srst
    BY <1>1 DEF BusyOnlyInReset
  <2>2. "BUSY" \in drives[d].status
    BY <1>1, <1>2, <1>3, <2>1 DEF IInv, TypeOK
  <2>3. QED  BY <2>2 DEF IInv, BusyOnlyInReset
<1>10. (\A d \in Drive : DriveSafe(drives[d]))'
  BY <1>8
<1>11. QED  BY <1>7, <1>9, <1>10 DEF IInv

LEMMA DeviceControlStep ==
  ASSUME IInv, NEW srst \in BOOLEAN, NEW nien \in BOOLEAN, DeviceControl(srst, nien)
  PROVE  IInv'
<1>1. control' = [srst |-> srst, nien |-> nien] /\ UNCHANGED <<cur, irq, disk>>
  BY DEF DeviceControl
<1>2. control'.srst = srst /\ control' \in [srst : BOOLEAN, nien : BOOLEAN]
  BY <1>1
<1>3. CASE ~control.srst /\ srst
  <2>1. drives' = [d \in Drive |->
           [drives[d] EXCEPT !.status = {"BUSY", "SEEK"}, !.error = "diag"]]
    BY <1>3 DEF DeviceControl
  <2>2. ASSUME NEW d \in Drive PROVE drives'[d] \in DriveType /\ DriveSafe(drives'[d])
    <3>1. drives[d] \in DriveType /\ DriveSafe(drives[d])  BY DEF IInv, TypeOK
    <3> DEFINE s == drives[d]
               t == [s EXCEPT !.status = {"BUSY", "SEEK"}, !.error = "diag"]
    <3>2. drives'[d] = t  BY <2>1
    <3> HIDE DEF s
    <3>3. s \in DriveType /\ DriveSafe(s)  BY <3>1 DEF s
    <3>4. /\ t \in DriveType /\ t.index = s.index /\ t.end = s.end /\ t.func = s.func
          /\ t.status = {"BUSY", "SEEK"} /\ t.req = s.req
      BY <3>3 DEF DriveType, StatusBits
    <3> HIDE DEF t
    <3>5. t \in DriveType /\ DriveSafe(t)  BY <3>3, <3>4 DEF DriveSafe, DriveBase
    <3>6. QED  BY <3>2, <3>5
  <2>3. drives' \in [Drive -> DriveType]
    <3>1. drives' = [d \in Drive |-> drives'[d]]  BY <2>1
    <3>2. QED  BY <2>2, <3>1
  <2>4. BusyOnlyInReset'  BY <1>2, <1>3 DEF BusyOnlyInReset
  <2>5. QED  BY <1>1, <1>2, <2>2, <2>3, <2>4 DEF IInv, TypeOK
<1>4. CASE control.srst /\ ~srst
  <2>1. drives' = [d \in Drive |->
           SetSignature([drives[d] EXCEPT !.status = {"READY", "SEEK"}])]
    BY <1>4 DEF DeviceControl
  <2>2. ASSUME NEW d \in Drive
        PROVE  /\ drives'[d] \in DriveType /\ DriveSafe(drives'[d])
               /\ "BUSY" \notin drives'[d].status
    <3>1. drives[d] \in DriveType /\ DriveSafe(drives[d])  BY DEF IInv, TypeOK
    <3> DEFINE s == drives[d]
               u == [s EXCEPT !.status = {"READY", "SEEK"}]
               t == [u EXCEPT !.nsector = 1 % NMod, !.lba = 1 % LbaMod]
    <3>2. drives'[d] = t  BY <2>1 DEF SetSignature
    <3> HIDE DEF s
    <3>3. s \in DriveType /\ DriveSafe(s)  BY <3>1 DEF s
    <3>4. /\ u \in DriveType /\ u.index = s.index /\ u.end = s.end /\ u.func = s.func
          /\ u.status = {"READY", "SEEK"} /\ u.req = s.req
      BY <3>3 DEF DriveType, StatusBits
    <3> HIDE DEF u
    <3>5. 1 % NMod \in 0 .. NMod - 1 /\ 1 % LbaMod \in Lba
      BY ModBound, SizesAssumption DEF Lba
    <3>6. /\ t \in DriveType /\ t.index = u.index /\ t.end = u.end /\ t.func = u.func
          /\ t.status = u.status /\ t.req = u.req
      BY <3>4, <3>5 DEF DriveType
    <3> HIDE DEF t
    <3>7. t \in DriveType /\ DriveSafe(t) /\ "BUSY" \notin t.status
      BY <3>3, <3>4, <3>6 DEF DriveSafe, DriveBase
    <3>8. QED  BY <3>2, <3>7
  <2>3. drives' \in [Drive -> DriveType]
    <3>1. drives' = [d \in Drive |-> drives'[d]]  BY <2>1
    <3>2. QED  BY <2>2, <3>1
  <2>4. BusyOnlyInReset'  BY <2>2 DEF BusyOnlyInReset
  <2>5. QED  BY <1>1, <1>2, <2>2, <2>3, <2>4 DEF IInv, TypeOK
<1>5. CASE ~(~control.srst /\ srst) /\ ~(control.srst /\ ~srst)
  <2>1. drives' = drives  BY <1>5 DEF DeviceControl
  <2>2. BusyOnlyInReset'
    BY <1>2, <1>5, <2>1 DEF IInv, BusyOnlyInReset
  <2>3. QED  BY <1>1, <1>2, <2>1, <2>2 DEF IInv, TypeOK
<1>6. QED  BY <1>3, <1>4, <1>5

-------------------------------------------------------------------------------
(* The theorem *)

LEMMA InitHolds == Init => IInv
<1> SUFFICES ASSUME Init PROVE IInv  OBVIOUS
<1>1. MaxMult * SectorBytes \in Nat /\ 0 <= MaxMult * SectorBytes
  BY MulMono, SizesAssumption
<1>2. [i \in 0 .. BufBytes - 1 |-> ZeroCell] \in [0 .. BufBytes - 1 -> Cell]
  BY DataAssumption
<1>3. InitDrive \in DriveType
  BY <1>2, SizesAssumption DEF InitDrive, DriveType, Lba, StatusBits, Funcs
<1>4. DriveSafe(InitDrive) /\ "BUSY" \notin InitDrive.status
  BY <1>1 DEF InitDrive, DriveSafe, DriveBase
<1>5. TypeOK
  BY <1>3, DataAssumption DEF Init, TypeOK
<1>6. QED  BY <1>4, <1>5 DEF Init, IInv, BusyOnlyInReset

LEMMA NextHolds ==
  ASSUME IInv, Next
  PROVE  IInv'
<1>0. cur # NoDrive => /\ cur \in Drive /\ drives[cur] \in DriveType
                       /\ DriveSafe(drives[cur]) /\ disk[cur] \in Medium
  BY Selected
<1>1. ASSUME NEW n \in 0 .. NMod - 1, NEW l \in Lba, WriteCount(n) \/ WriteAddress(l)
      PROVE  IInv'
  <2> DEFINE s == drives[cur]
  <2>1. PICK t \in {[s EXCEPT !.nsector = n], [s EXCEPT !.lba = l]} :
          cur # NoDrive /\ Apply({Outcome(t, disk[cur], FALSE)})
    BY <1>1 DEF WriteCount, WriteAddress
  <2>2. cur \in Drive /\ s \in DriveType /\ DriveSafe(s) /\ disk[cur] \in Medium
    BY <1>0, <2>1
  <2>4. t \in DriveType /\ DriveSafe(t) /\ t.status = s.status
    <3> HIDE DEF s
    <3>1. CASE t = [s EXCEPT !.nsector = n]  BY <2>2, <3>1, CountWrite
    <3>2. CASE t = [s EXCEPT !.lba = l]  BY <2>2, <3>2, AddressWrite
    <3>3. QED  BY <3>1, <3>2
  <2>5. OutcomeOK(Outcome(t, disk[cur], FALSE), s)
    BY <2>2, <2>4 DEF OutcomeOK, Outcome
  <2>6. QED  BY <2>1, <2>5, ApplyStep
<1>2. ASSUME NEW d \in {0, 1}, NEW l \in Lba, SelectDrive(d, l)
      PROVE  IInv'
  <2>1. UNCHANGED <<control, irq, disk>>  BY <1>2 DEF SelectDrive
  <2>2. CASE d \in Drive
    <3> DEFINE s == drives[d]
               t == [s EXCEPT !.lba = l]
    <3>1. cur' = d /\ drives' = [drives EXCEPT ![d] = t]
      BY <1>2, <2>2 DEF SelectDrive
    <3>2. s \in DriveType /\ DriveSafe(s)
      BY <2>2 DEF IInv, TypeOK
    <3>4. t \in DriveType /\ DriveSafe(t) /\ t.status = s.status
      <4> HIDE DEF s
      <4>1. QED  BY <3>2, AddressWrite
    <3> HIDE DEF t
    <3>5. drives' \in [Drive -> DriveType]  BY <2>2, <3>1, <3>4 DEF IInv, TypeOK
    <3>6. \A e \in Drive : DriveSafe(drives'[e]) /\ drives'[e].status = drives[e].status
      BY <2>2, <3>1, <3>4 DEF IInv, TypeOK
    <3>7. BusyOnlyInReset'  BY <2>1, <3>6 DEF IInv, BusyOnlyInReset
    <3>8. QED  BY <2>1, <2>2, <3>1, <3>5, <3>6, <3>7 DEF IInv, TypeOK
  <2>3. CASE d \notin Drive
    BY <1>2, <2>1, <2>3 DEF SelectDrive, IInv, TypeOK, BusyOnlyInReset
  <2>4. QED  BY <2>2, <2>3
<1>3. ASSUME NEW c \in Commands, WriteCommand(c)
      PROVE  IInv'
  <2>1. cur # NoDrive /\ Apply(ExecCmd(drives[cur], disk[cur], c))
    BY <1>3 DEF WriteCommand
  <2>2. \A o \in ExecCmd(drives[cur], disk[cur], c) : OutcomeOK(o, drives[cur])
    BY <1>0, <2>1, ExecCmdOK
  <2>3. QED  BY <2>1, <2>2, ApplyStep
<1>4. CASE ReadStatus
  <2>1. irq' = FALSE /\ UNCHANGED <<drives, cur, control, disk>>  BY <1>4 DEF ReadStatus
  <2>2. QED  BY <2>1 DEF IInv, TypeOK, BusyOnlyInReset
<1>5. ASSUME NEW srst \in BOOLEAN, NEW nien \in BOOLEAN, DeviceControl(srst, nien)
      PROVE  IInv'
  BY <1>5, DeviceControlStep
<1>6. ASSUME NEW k \in {2, 4}, DataRead(k)
      PROVE  IInv'
  <2>1. /\ cur # NoDrive /\ drives[cur].index + k <= drives[cur].end
        /\ Apply(Moved(drives[cur], disk[cur], k))
    BY <1>6 DEF DataRead
  <2>2. \A o \in Moved(drives[cur], disk[cur], k) : OutcomeOK(o, drives[cur])
    BY <1>0, <2>1, MovedOK
  <2>3. QED  BY <2>1, <2>2, ApplyStep
\* Bytes put into io_buffer before the block moves on.
<1>7. ASSUME NEW s, s = drives[cur], cur # NoDrive, NEW k \in Nat, NEW n \in 0 .. k,
             NEW w \in [0 .. k - 1 -> Cell], s.index + n <= s.end,
             Apply(Moved(Put(s, w, n), disk[cur], n))
      PROVE  IInv'
  <2> DEFINE t == Put(s, w, n)
  <2>1. s \in DriveType /\ DriveSafe(s) /\ disk[cur] \in Medium  BY <1>0, <1>7
  <2>2. t \in DriveType /\ DriveSafe(t) /\ t.status = s.status
        /\ t.index = s.index /\ t.end = s.end
    BY <2>1, PutSafe
  <2>3. Apply(Moved(t, disk[cur], n))  BY <1>7
  <2> HIDE DEF t
  <2>4. \A o \in Moved(t, disk[cur], n) : OutcomeOK(o, t)
    BY <1>7, <2>1, <2>2, MovedOK
  <2>5. \A o \in Moved(t, disk[cur], n) : OutcomeOK(o, drives[cur])
    BY <1>7, <2>2, <2>4 DEF OutcomeOK
  <2>6. QED  BY <1>7, <2>3, <2>5, ApplyStep
<1>8. ASSUME NEW k \in {2, 4}, NEW w \in [0 .. k - 1 -> Cell], DataWrite(k, w)
      PROVE  IInv'
  <2>1. /\ cur # NoDrive /\ drives[cur].index + k <= drives[cur].end
        /\ Apply(Moved(Put(drives[cur], w, k), disk[cur], k))
    BY <1>8 DEF DataWrite
  <2>2. k \in Nat /\ k \in 0 .. k  OBVIOUS
  <2>3. QED  BY <1>7, <2>1, <2>2
<1>9. ASSUME NEW k \in {1, 2, 4}, NEW count \in 1 .. BufBytes, StringRead(k, count)
      PROVE  IInv'
  <2> DEFINE n == StringBytes(drives[cur], k, count)
  <2>1. cur # NoDrive /\ Apply(Moved(drives[cur], disk[cur], n))
    BY <1>9 DEF StringRead
  <2>2. n \in Nat /\ drives[cur].index + n <= drives[cur].end
    BY <1>0, <2>1, StringBytesBound
  <2> HIDE DEF n
  <2>3. \A o \in Moved(drives[cur], disk[cur], n) : OutcomeOK(o, drives[cur])
    BY <1>0, <2>1, <2>2, MovedOK
  <2>4. QED  BY <2>1, <2>3, ApplyStep
<1>10. ASSUME NEW k \in {1, 2, 4}, NEW count \in 1 .. BufBytes,
              NEW w \in [0 .. k * count - 1 -> Cell], StringWrite(k, count, w)
       PROVE  IInv'
  <2> DEFINE n == StringBytes(drives[cur], k, count)
  <2>1. cur # NoDrive /\ Apply(Moved(Put(drives[cur], w, n), disk[cur], n))
    BY <1>10 DEF StringWrite
  <2>2. n \in Nat /\ drives[cur].index + n <= drives[cur].end /\ n <= k * count
    BY <1>0, <2>1, StringBytesBound
  <2> HIDE DEF n
  <2>3. BufBytes \in Int  BY MulMono, SizesAssumption DEF BufBytes
  <2>4. k * count \in Nat  BY <2>3
  <2> DEFINE j == k * count
  <2>5. w \in [0 .. j - 1 -> Cell] /\ j \in Nat /\ n \in 0 .. j  BY <2>2, <2>4
  <2> HIDE DEF j
  <2>6. QED  BY <1>7, <2>1, <2>2, <2>5
<1>11. QED
  BY <1>1, <1>2, <1>3, <1>4, <1>5, <1>6, <1>8, <1>9, <1>10, SizesAssumption DEF Next, Lba

\* Of every behaviour of the guest: the task file and the data phase are
\* well-typed, the data port stays inside io_buffer, DRQ has data behind it, a
\* write block has the size of its transfer, and BUSY ends with the reset.
THEOREM ChannelSafe ==
  Spec => []ChannelSound
<1>1. Init => IInv  BY InitHolds
<1>2. IInv /\ [Next]_vars => IInv'
  <2>1. ASSUME IInv, UNCHANGED vars PROVE IInv'
    BY <2>1 DEF vars, IInv, TypeOK, BusyOnlyInReset
  <2>2. QED  BY <2>1, NextHolds
<1>3. IInv => ChannelSound
  BY DEF IInv, DriveSafe, DriveBase, ChannelSound, WithinBuffer, DrqServed, WriteSized
<1>4. QED  BY <1>1, <1>2, <1>3, PTL DEF Spec

-------------------------------------------------------------------------------
(* The driver.  r is the driver, s the drive it uses, m its medium. *)

Mult(r) == IF r.op \in {"MULTREAD", "MULTWRITE"} THEN MaxMult ELSE 1

\* The block that starts at sector p of the request.
BlockAt(r, p) == MinOf(r.n - p, Mult(r))

\* The registers stand at sector p of the request.
RegsAt(r, s, p) == p \in 0 .. r.n /\ s.lba = r.l + p /\ s.nsector = (r.n - p) % NMod

\* Byte i of the sectors from l on.
ByteOf(m, l, i) == m[l + (i \div SectorBytes)][i % SectorBytes]

\* The block at p is in io_buffer; the registers already point past it.
ReadArmed(r, s, m, p) ==
  /\ p \in 0 .. r.n - 1 /\ s.req = Mult(r) /\ s.io = BlockAt(r, p)
  /\ RegsAt(r, s, p + s.io)
  /\ s.func = IF p + s.io = r.n THEN "readEnd" ELSE "read"
  /\ s.end = SectorBytes * s.io /\ s.status = {"READY", "SEEK", "DRQ"}
  /\ \A j \in 0 .. s.end - 1 : s.buf[j] = ByteOf(m, r.l + p, j)

\* io_buffer takes the block at p, whose bytes up to data_index are there.
WriteArmed(r, s, p) ==
  /\ p \in 0 .. r.n - 1 /\ s.req = Mult(r) /\ s.io = BlockAt(r, p)
  /\ RegsAt(r, s, p)
  /\ s.func = "write"
  /\ s.end = SectorBytes * s.io /\ s.status = {"READY", "SEEK", "DRQ"}
  /\ \A j \in 0 .. s.index - 1 : s.buf[j] = NewByte(r.r, r.d, p * SectorBytes + j)

Armed(r, s, m, p) ==
  /\ r.op \in ReadOps => ReadArmed(r, s, m, p)
  /\ r.op \in WriteOps => WriteArmed(r, s, p)

Failed(r, s) == s.status = {"READY", "ERR"} /\ \E p \in Nat : RegsAt(r, s, p)
Ready(r, s, m) ==
  \E p \in Nat : Armed(r, s, m, p) /\ s.index = 0 /\ r.pos = p * SectorBytes
Stored(r, s) ==
  /\ r.op \in WriteOps /\ RegsAt(r, s, r.n) /\ s.status = {"READY", "SEEK"}
  /\ r.pos = r.n * SectorBytes

\* The status the driver is to find, and the middle of a block.
Asked(r, s, m) == Failed(r, s) \/ Ready(r, s, m) \/ Stored(r, s)
Moving(r, s, m) ==
  \E p \in Nat : /\ Armed(r, s, m, p) /\ r.pos = p * SectorBytes + s.index
                 /\ r.left = s.end - s.index /\ r.left > 0

Request(r) ==
  /\ r.d \in Drive /\ r.l \in 0 .. Sectors - 1 /\ r.n \in 1 .. NMod /\ r.l + r.n <= Sectors
  /\ r.r \in 1 .. Requests /\ r.result = "none"

\* What a read has brought so far.
Received(r, m) ==
  /\ r.op \in ReadOps => /\ Len(r.data) = r.pos
                         /\ \A i \in 0 .. r.pos - 1 : r.data[i + 1] = ByteOf(m, r.l, i)
  /\ r.op \in WriteOps => r.data = <<>>

DriverType ==
  [pc : {"idle", "select", "count", "command", "poll", "wait", "data", "reset", "settle"},
   op : ReadOps \cup WriteOps, d : {0, 1}, l : Nat, n : Nat, r : 0 .. Requests,
   resets : 0 .. Resets, pos : Nat, left : Nat, data : Seq(Cell),
   result : {"none", "ok", "error"}]

Place(r, s, m) ==
  /\ r.pc \in {"count", "command"} => s.lba = r.l
  /\ r.pc = "command" => s.nsector = r.n % NMod
  /\ r.pc \in {"poll", "wait"} => Asked(r, s, m)
  /\ r.pc = "data" => Moving(r, s, m)

DInv ==
  /\ IInv
  /\ drv \in DriverType /\ drv.pos <= drv.n * SectorBytes
  /\ control = [srst |-> drv.pc = "reset", nien |-> FALSE]
  /\ \A d \in Drive : drives[d].mult = MaxMult
  /\ irq => drv.pc \in {"wait", "reset", "settle"}
  /\ Active => Request(drv) /\ Received(drv, disk[drv.d])
  /\ drv.pc \in {"select", "count", "command"} => drv.pos = 0
  /\ drv.pc \in {"count", "command", "poll", "wait", "data"} =>
       cur = drv.d /\ Place(drv, drives[drv.d], disk[drv.d])

-------------------------------------------------------------------------------
(* Arithmetic *)

LEMMA SizesAre ==
  /\ NMod \in Nat \ {0} /\ LbaMod \in Nat \ {0} /\ Sectors \in Nat /\ Sectors < LbaMod
  /\ SectorBytes \in Nat \ {0} /\ MaxMult \in Nat \ {0} /\ MaxMult <= NMod
  /\ NoDrive \notin Drive /\ Drive \subseteq {0, 1}
<1>1. Sectors < LbaMod  BY DriverSizes, Zenon
<1>2. NoDrive \notin Drive /\ Drive \subseteq {0, 1}  BY SizesAssumption, Zenon
<1>3. /\ NMod \in Nat \ {0} /\ LbaMod \in Nat \ {0} /\ Sectors \in Nat
      /\ SectorBytes \in Nat \ {0} /\ MaxMult \in Nat \ {0} /\ MaxMult <= NMod
  BY SizesAssumption
<1>4. QED  BY <1>1, <1>2, <1>3

LEMMA Remainder ==
  ASSUME NEW n \in Nat \ {0}, NEW a \in Int
  PROVE  /\ a % n \in 0 .. n - 1
         /\ 0 <= a /\ a < n => a % n = a
         /\ a = n => a % n = 0
         /\ -n < a /\ a < 0 => a % n = a + n
<1>1. a % n \in 0 .. n - 1  OBVIOUS
<1>2. 0 <= a /\ a < n => a % n = a  OBVIOUS
<1>3. a = n => a % n = 0  OBVIOUS
<1>4. -n < a /\ a < 0 => a % n = a + n  OBVIOUS
<1>5. QED  BY <1>1, <1>2, <1>3, <1>4

\* The next block of the request: what the count register makes of it.
LEMMA BlockIs ==
  ASSUME NEW r, Request(r), NEW s \in DriveType, NEW p \in Nat, p < r.n,
         RegsAt(r, s, p), s.req = Mult(r)
  PROVE  /\ BlockSize(s) = BlockAt(r, p)
         /\ BlockAt(r, p) \in 1 .. MaxMult
         /\ p + BlockAt(r, p) \in 1 .. r.n
<1>1. PICK n \in 1 .. NMod : n = r.n  BY DEF Request
<1>2. PICK b \in 1 .. MaxMult : b = Mult(r)  BY SizesAre DEF Mult
<1>3. PICK c \in 0 .. NMod - 1 : c = s.nsector  BY DEF DriveType
<1>4. c = (n - p) % NMod  BY <1>1, <1>3 DEF RegsAt
<1>5. (IF c = 0 THEN NMod ELSE c) = n - p
  <2>1. PICK a \in Int : a = n - p /\ 0 < a /\ a <= NMod  BY <1>1, SizesAre
  <2>2. NMod \in Nat \ {0}  BY SizesAre
  <2>3. /\ 0 <= a /\ a < NMod => a % NMod = a
        /\ a = NMod => a % NMod = 0
    BY <2>1, <2>2, Remainder
  <2>4. QED  BY <1>4, <2>1, <2>2, <2>3
<1>6. BlockSize(s) = MinOf(n - p, b) /\ BlockAt(r, p) = MinOf(n - p, b)
  BY <1>1, <1>2, <1>3, <1>5 DEF BlockSize, BlockAt
<1>7. QED  BY <1>1, <1>2, <1>6, SizesAre DEF MinOf

\* Moving past a block of the request takes the registers to its end.
LEMMA AdvanceIs ==
  ASSUME NEW r, Request(r), NEW s \in DriveType, NEW p \in Nat,
         RegsAt(r, s, p), s.io \in Nat, s.io >= 1, p + s.io <= r.n
  PROVE  /\ RegsAt(r, Advance(s), p + s.io)
         /\ Advance(s).nsector = 0 <=> p + s.io = r.n
         /\ Advance(s).mult = s.mult
<1>1. PICK n \in 1 .. NMod : n = r.n  BY DEF Request
<1>2. PICK l \in Nat : l = r.l /\ l + n <= Sectors  BY <1>1 DEF Request
<1>3. PICK i \in Nat : i = s.io /\ i >= 1 /\ p + i <= n  BY <1>1
<1>4. PICK c \in 0 .. NMod - 1 : c = s.nsector  BY DEF DriveType
<1>5. c = (n - p) % NMod /\ s.lba = l + p  BY <1>1, <1>2, <1>4 DEF RegsAt
<1>6. (l + p + i) % LbaMod = l + p + i
  <2>1. PICK a \in Int : a = l + p + i  OBVIOUS
  <2>2. 0 <= a /\ a < LbaMod  BY <1>1, <1>2, <1>3, <2>1, SizesAre
  <2>3. a % LbaMod = a  BY <2>2, Remainder, SizesAre
  <2>4. QED  BY <2>1, <2>3
<1>7. (c - i) % NMod = n - (p + i)
  <2>1. n - p \in Int /\ 0 < n - p /\ n - p <= NMod /\ NMod \in Nat \ {0}
    BY <1>1, <1>3, SizesAre
  <2>2. CASE n - p < NMod
    <3>0. PICK a \in Int : a = n - p /\ 0 <= a /\ a < NMod  BY <2>1, <2>2
    <3>6. a % NMod = a  BY <2>1, <3>0, Remainder
    <3>1. c = n - p  BY <1>5, <3>0, <3>6
    <3>2. c - i \in Int /\ 0 <= c - i /\ c - i < NMod  BY <1>1, <1>3, <3>1, <2>1, <2>2
    <3>5. PICK d \in Int : d = c - i  BY <3>2
    <3>3. (c - i) % NMod = c - i  BY <3>2, <3>5, <2>1, Remainder
    <3>4. QED  BY <1>1, <1>3, <3>1, <3>3
  <2>3. CASE n - p = NMod
    <3>1. c = 0  BY <1>5, <2>1, <2>3, Remainder
    <3>2. p = 0 /\ n = NMod  BY <1>1, <2>3, SizesAre
    <3>3. CASE i = NMod
      <4>1. 0 - NMod \in Int /\ (0 - NMod) % NMod = 0  BY SizesAre
      <4>2. QED  BY <3>1, <3>2, <3>3, <4>1
    <3>4. CASE i # NMod
      <4>1. 0 - i \in Int /\ -NMod < 0 - i /\ 0 - i < 0  BY <1>1, <1>3, <3>2, <3>4, SizesAre
      <4>2. (0 - i) % NMod = 0 - i + NMod  BY <4>1, <2>1, Remainder
      <4>3. QED  BY <1>1, <1>3, <3>1, <3>2, <4>2
    <3>5. QED  BY <3>3, <3>4
  <2>4. QED  BY <2>1, <2>2, <2>3
<1>8. (n - (p + i)) % NMod = n - (p + i)
  <2>1. PICK a \in Int : a = n - (p + i)  OBVIOUS
  <2>2. 0 <= a /\ a < NMod  BY <1>1, <1>3, <2>1, SizesAre
  <2>3. QED  BY <2>1, <2>2, Remainder, SizesAre
<1>9. /\ Advance(s).lba = (s.lba + s.io) % LbaMod
      /\ Advance(s).nsector = (s.nsector - s.io) % NMod
      /\ Advance(s).mult = s.mult
  BY DEF Advance, DriveType
<1>10. Advance(s).lba = l + (p + i) /\ Advance(s).nsector = n - (p + i)
  <2>1. Advance(s).lba = (l + p + i) % LbaMod  BY <1>3, <1>5, <1>9
  <2>2. Advance(s).nsector = (c - i) % NMod  BY <1>3, <1>4, <1>9
  <2>3. QED  BY <1>6, <1>7, <2>1, <2>2
<1>11. p + i \in 0 .. n  BY <1>3
<1>12. QED  BY <1>1, <1>2, <1>3, <1>8, <1>9, <1>10, <1>11 DEF RegsAt

\* Byte j of the sectors from l + p on is byte p * SectorBytes + j of those from l.
LEMMA ByteShift ==
  ASSUME NEW p \in Nat, NEW j \in Nat
  PROVE  /\ p * SectorBytes \in Nat
         /\ (p * SectorBytes + j) \div SectorBytes = p + (j \div SectorBytes)
         /\ (p * SectorBytes + j) % SectorBytes = j % SectorBytes
<1> DEFINE n == SectorBytes
           q == j \div n
           t == j % n
           a == p * n + j
           x == a \div n
           y == a % n
<1>1. n \in Nat \ {0}  BY SizesAre
<1>2. p * n \in Nat /\ a \in Nat  BY <1>1
<1>3. q \in Nat /\ t \in 0 .. n - 1 /\ j = n * q + t  BY <1>1
<1>4. x \in Nat /\ y \in 0 .. n - 1 /\ a = n * x + y
  <2> HIDE DEF a
  <2>1. QED  BY <1>1, <1>2
<1>5. a = p * n + j  OBVIOUS
<1> HIDE DEF q, t, a, x, y, n
<1>6. PICK d \in Int : d = p + q - x  BY <1>3, <1>4
<1>7. y - t = n * d  BY <1>1, <1>3, <1>4, <1>5, <1>6
<1>8. d >= 1 => n * d >= n  BY <1>1, <1>6
<1>9. d <= -1 => n * d <= -n  BY <1>1, <1>6
<1>10. d = 0 /\ y = t
  <2>1. d = 0  BY <1>1, <1>3, <1>4, <1>6, <1>7, <1>8, <1>9
  <2>2. n * d = 0  BY <1>1, <2>1
  <2>3. QED  BY <1>3, <1>4, <1>7, <2>1, <2>2
<1>11. x = p + q  BY <1>3, <1>4, <1>6, <1>10
<1>12. QED  BY <1>2, <1>10, <1>11 DEF q, t, a, x, y, n

-------------------------------------------------------------------------------
(* The handlers, from a place of the request to the next *)

\* A block of a request fits io_buffer.
LEMMA BlockFits ==
  ASSUME NEW b \in 1 .. MaxMult
  PROVE  /\ SectorBytes * b \in Nat /\ SectorBytes * b >= 1 /\ SectorBytes * b <= BufBytes - 4
         /\ BufBytes \in Nat
<1>1. PICK z \in Nat : z = MaxMult * SectorBytes  BY SizesAre
<1>2. SectorBytes * b <= MaxMult * SectorBytes /\ SectorBytes * b \in Nat /\ SectorBytes * b >= 1
  BY MulMono, SizesAre
<1>3. BufBytes = z + 4  BY <1>1 DEF BufBytes
<1>4. QED  BY <1>1, <1>2, <1>3

\* ide_sector_read: an error, or the block at p armed and the registers past it.
ReadBegun(r, s, m, p, o) ==
  /\ o.m = m /\ o.raised = TRUE /\ o.s.mult = s.mult
  /\ Failed(r, o.s) \/ (ReadArmed(r, o.s, m, p) /\ o.s.index = 0)

LEMMA ReadBlock ==
  ASSUME NEW r, Request(r), NEW s \in DriveType, NEW m \in Medium, NEW p \in Nat, p < r.n,
         RegsAt(r, s, p), s.req = Mult(r), NEW o \in SectorRead(s, m)
  PROVE  ReadBegun(r, s, m, p, o)
<1>1. PICK b \in 1 .. MaxMult : /\ b = BlockSize(s) /\ b = BlockAt(r, p)
                               /\ p + b \in 1 .. r.n
  BY BlockIs
<1>2. PICK t : t = [s EXCEPT !.io = b]  OBVIOUS
<1>3. PICK v : v = [t EXCEPT !.buf = Filled(t, m)]  OBVIOUS
<1>4. o = Outcome(Abort(t), m, TRUE) \/ o = Outcome(SectorReadCb(v), m, TRUE)
  BY <1>1, <1>2, <1>3 DEF SectorRead
<1>5. /\ t \in DriveType /\ t.io = b /\ t.lba = s.lba /\ t.nsector = s.nsector
      /\ t.req = s.req /\ t.mult = s.mult
  <2>1. b \in 0 .. MaxMult  BY SizesAre
  <2>2. QED  BY <1>2, <2>1 DEF DriveType
<1>6. CASE o = Outcome(Abort(t), m, TRUE)
  <2>1. /\ Abort(t).status = {"READY", "ERR"} /\ Abort(t).lba = s.lba
        /\ Abort(t).nsector = s.nsector /\ Abort(t).mult = s.mult
    BY <1>5 DEF Abort, DriveType
  <2>2. RegsAt(r, Abort(t), p)  BY <2>1 DEF RegsAt
  <2>3. QED  BY <1>6, <2>1, <2>2 DEF Outcome, Failed, ReadBegun
<1>7. CASE o = Outcome(SectorReadCb(v), m, TRUE)
  <2>1. PICK f : f = Filled(t, m)  OBVIOUS
  <2>2. f \in [0 .. BufBytes - 1 -> Cell]  BY <1>5, <2>1, FilledType
  <2>3. /\ v \in DriveType /\ v.io = b /\ v.lba = s.lba /\ v.nsector = s.nsector
        /\ v.req = s.req /\ v.mult = s.mult /\ v.buf = f
    BY <1>3, <1>5, <2>1, <2>2 DEF DriveType
  <2>4. RegsAt(r, v, p)  BY <2>3 DEF RegsAt
  <2>5. b \in Nat /\ b >= 1 /\ p + b <= r.n  BY <1>1, SizesAre DEF Request
  <2>6. PICK u : u = Advance(v)  OBVIOUS
  <2>7. /\ RegsAt(r, u, p + b) /\ (u.nsector = 0 <=> p + b = r.n) /\ u.mult = s.mult
    BY <2>3, <2>4, <2>5, <2>6, AdvanceIs
  <2>8. /\ u \in DriveType /\ u.io = b /\ u.req = s.req /\ u.buf = f
    BY <2>3, <2>6, AdvanceType DEF Advance, DriveType
  <2>9. PICK g : g = IF u.nsector = 0 THEN "readEnd" ELSE "read"  OBVIOUS
  <2>10. SectorReadCb(v) = [[u EXCEPT !.func = g, !.index = 0, !.end = SectorBytes * b]
                              EXCEPT !.status = {"READY", "SEEK", "DRQ"}, !.error = "none"]
    BY <2>3, <2>6, <2>9 DEF SectorReadCb, TransferStart
  <2>11. PICK q : q = SectorReadCb(v)  OBVIOUS
  <2>12. /\ q.func = g /\ q.index = 0 /\ q.end = SectorBytes * b
         /\ q.status = {"READY", "SEEK", "DRQ"} /\ q.lba = u.lba /\ q.nsector = u.nsector
         /\ q.io = b /\ q.req = s.req /\ q.buf = f /\ q.mult = s.mult
    BY <2>7, <2>8, <2>10, <2>11 DEF DriveType
  <2>13. RegsAt(r, q, p + q.io)  BY <2>7, <2>12 DEF RegsAt
  <2>14. ASSUME NEW j \in 0 .. q.end - 1
         PROVE  f[j] = ByteOf(m, r.l + p, j)
    <3>1. SectorBytes * b \in Nat /\ SectorBytes * b <= BufBytes - 4 /\ BufBytes \in Nat
      BY BlockFits
    <3>2. j \in 0 .. BufBytes - 1 /\ j < SectorBytes * b /\ j \in Nat  BY <2>12, <3>1
    <3>3. DOMAIN t.buf = 0 .. BufBytes - 1  BY <1>5 DEF DriveType
    <3>4. PICK x \in Nat : x = j \div SectorBytes  BY <3>2, SizesAre
    <3>5. x < b
      <4>1. PICK y \in 0 .. SectorBytes - 1 : j = SectorBytes * x + y  BY <3>2, <3>4, SizesAre
      <4>2. SUFFICES ASSUME b <= x PROVE FALSE  BY <1>1, <3>4
      <4>3. SectorBytes * b <= x * SectorBytes  BY <1>1, <3>4, <4>2, MulMono, SizesAre
      <4>4. x * SectorBytes = SectorBytes * x  BY <3>4, SizesAre
      <4>5. PICK z \in Nat : z = SectorBytes * x  BY <3>4, SizesAre
      <4>6. QED  BY <3>1, <3>2, <4>1, <4>3, <4>4, <4>5
    <3>6. j < t.io * SectorBytes  BY <1>1, <1>5, <3>2, SizesAre
    <3>7. s.lba = r.l + p /\ r.l \in Nat /\ r.l + p + x < Sectors
      <4>1. r.l \in Nat /\ r.n \in Nat /\ r.l + r.n <= Sectors  BY SizesAre DEF Request
      <4>2. QED  BY <1>1, <2>5, <3>5, <4>1, SizesAre DEF RegsAt
    <3>8. f[j] = m[t.lba + (j \div SectorBytes)][j % SectorBytes]
      BY <1>5, <2>1, <3>2, <3>3, <3>4, <3>6, <3>7 DEF Filled
    <3>9. QED  BY <1>5, <3>7, <3>8 DEF ByteOf
  <2>15. ReadArmed(r, q, m, p)
    BY <1>1, <2>7, <2>9, <2>12, <2>13, <2>14 DEF ReadArmed, Request
  <2>16. QED  BY <1>7, <2>11, <2>12, <2>15 DEF Outcome, ReadBegun
<1>8. QED  BY <1>4, <1>6, <1>7

\* ide_sector_write: the buffer waits for the block at p.
LEMMA WriteBlock ==
  ASSUME NEW r, Request(r), NEW s \in DriveType, NEW p \in Nat, p < r.n,
         RegsAt(r, s, p), s.req = Mult(r)
  PROVE  /\ WriteArmed(r, SectorWrite(s), p) /\ SectorWrite(s).index = 0
         /\ SectorWrite(s).mult = s.mult
<1>1. PICK b \in 1 .. MaxMult : b = BlockSize(s) /\ b = BlockAt(r, p)  BY BlockIs
<1>2. PICK q : q = SectorWrite(s)  OBVIOUS
<1>3. q = [[[s EXCEPT !.io = b] EXCEPT !.func = "write", !.index = 0, !.end = SectorBytes * b]
             EXCEPT !.status = {"READY", "SEEK", "DRQ"}]
  BY <1>1, <1>2 DEF SectorWrite, TransferStart
<1>4. /\ q.func = "write" /\ q.index = 0 /\ q.end = SectorBytes * b /\ q.io = b
      /\ q.status = {"READY", "SEEK", "DRQ"} /\ q.lba = s.lba /\ q.nsector = s.nsector
      /\ q.req = s.req /\ q.mult = s.mult
  BY <1>3 DEF DriveType
<1>5. RegsAt(r, q, p)  BY <1>4 DEF RegsAt
<1>6. p \in 0 .. r.n - 1  BY DEF Request
<1>7. \A j \in 0 .. q.index - 1 : q.buf[j] = NewByte(r.r, r.d, p * SectorBytes + j)
  BY <1>4
<1>8. WriteArmed(r, q, p)  BY <1>1, <1>4, <1>5, <1>6, <1>7 DEF WriteArmed
<1>9. QED  BY <1>2, <1>4, <1>8

\* The medium with the block at p stored.
BlockStored(r, m, p, b) ==
  [x \in DOMAIN m |->
     IF x \in r.l + p .. r.l + p + b - 1
       THEN [o \in Offset |-> NewByte(r.r, r.d, (x - r.l) * SectorBytes + o)] ELSE m[x]]

LEMMA WrittenIs ==
  ASSUME NEW r, Request(r), NEW s \in DriveType, NEW m \in Medium, NEW p \in Nat,
         p < r.n, RegsAt(r, s, p), s.io \in 1 .. MaxMult,
         \A j \in 0 .. SectorBytes * s.io - 1 :
            s.buf[j] = NewByte(r.r, r.d, p * SectorBytes + j)
  PROVE  Written(s, m) = BlockStored(r, m, p, s.io)
<1>1. PICK b \in 1 .. MaxMult : b = s.io  OBVIOUS
<1>2. s.lba = r.l + p /\ r.l \in Nat  BY SizesAre DEF RegsAt, Request
<1>3. ASSUME NEW x \in DOMAIN m, x \in s.lba .. s.lba + b - 1, NEW o \in Offset
      PROVE  s.buf[(x - s.lba) * SectorBytes + o]
               = NewByte(r.r, r.d, (x - r.l) * SectorBytes + o)
  <2>0. PICK l \in Nat : l = r.l /\ x \in Int /\ x \in l + p .. l + p + b - 1
    BY <1>2, <1>3 DEF Medium
  <2>9. x - (l + p) \in 0 .. b - 1 /\ x = l + p + (x - (l + p))  BY <1>1, <2>0, SizesAre
  <2>1. PICK i \in 0 .. b - 1 : x = r.l + p + i  BY <2>0, <2>9
  <2>2. i \in Nat /\ i + 1 <= b /\ o \in 0 .. SectorBytes - 1 /\ i + 1 \in Nat /\ b \in Nat
    BY <1>1, <2>1, SizesAre DEF Offset
  <2>3. SectorBytes * (i + 1) <= b * SectorBytes  BY <2>2, MulMono, SizesAre
  <2>4. i * SectorBytes \in Nat /\ SectorBytes * (i + 1) = i * SectorBytes + SectorBytes
        /\ b * SectorBytes = SectorBytes * b /\ SectorBytes * b \in Nat
    BY <2>2, SizesAre
  <2>5. i * SectorBytes + o \in 0 .. SectorBytes * b - 1  BY <2>2, <2>3, <2>4, SizesAre
  <2>6. p * SectorBytes + (i * SectorBytes + o) = (p + i) * SectorBytes + o
    BY <2>2, SizesAre
  <2>7. x - s.lba = i /\ x - r.l = p + i  BY <1>2, <2>1, <2>2
  <2>8. QED  BY <1>1, <2>5, <2>6, <2>7
<1>4. QED  BY <1>1, <1>2, <1>3 DEF Written, BlockStored

\* ide_sector_write_cb1: an error, or the block stored and the next one asked
\* for, or none left.
NotStored(r, m, p, o) == o.m = m /\ o.s.status = {"READY", "ERR"} /\ RegsAt(r, o.s, p)
NextToWrite(r, p, b, o) == p + b < r.n /\ WriteArmed(r, o.s, p + b) /\ o.s.index = 0
AllWritten(r, p, b, o) ==
  p + b = r.n /\ RegsAt(r, o.s, r.n) /\ o.s.status = {"READY", "SEEK"}
StoreOutcome(r, s, m, p, o) ==
  /\ o.raised = TRUE /\ o.s.mult = s.mult
  /\ \/ NotStored(r, m, p, o)
     \/ /\ o.m = BlockStored(r, m, p, BlockAt(r, p))
        /\ NextToWrite(r, p, BlockAt(r, p), o) \/ AllWritten(r, p, BlockAt(r, p), o)

LEMMA StoreBlockAt ==
  ASSUME NEW r, Request(r), NEW s \in DriveType, NEW m \in Medium, NEW p \in Nat,
         WriteArmed(r, s, p), s.index = s.end, NEW o \in SectorWriteCb1(s, m)
  PROVE  StoreOutcome(r, s, m, p, o)
<1>0. p < r.n /\ RegsAt(r, s, p) /\ s.req = Mult(r)  BY DEF WriteArmed, Request
<1>1. PICK b \in 1 .. MaxMult : /\ b = BlockAt(r, p) /\ p + b \in 1 .. r.n
  BY <1>0, BlockIs
<1>2. s.io = b /\ s.end = SectorBytes * b  BY <1>1 DEF WriteArmed
<1>3. PICK t : t = TransferStop(s)  OBVIOUS
<1>4. /\ t \in DriveType /\ t.io = b /\ t.req = s.req
      /\ t.lba = s.lba /\ t.nsector = s.nsector /\ t.mult = s.mult /\ t.buf = s.buf
  BY <1>2, <1>3, TransferStopType DEF TransferStop, TransferStart, DriveType
<1>5. RegsAt(r, t, p)  BY <1>0, <1>4 DEF RegsAt
<1>6. o = Outcome(Abort(t), m, TRUE) \/ o = Outcome(SectorWriteCb2(t), Written(t, m), TRUE)
  BY <1>3 DEF SectorWriteCb1
<1>7. CASE o = Outcome(Abort(t), m, TRUE)
  <2>1. /\ Abort(t).status = {"READY", "ERR"} /\ Abort(t).lba = t.lba
        /\ Abort(t).nsector = t.nsector /\ Abort(t).mult = s.mult
    BY <1>4 DEF Abort, DriveType
  <2>2. RegsAt(r, Abort(t), p)  BY <1>5, <2>1 DEF RegsAt
  <2>3. QED  BY <1>7, <2>1, <2>2 DEF Outcome, StoreOutcome, NotStored
<1>8. CASE o = Outcome(SectorWriteCb2(t), Written(t, m), TRUE)
  <2>1. \A j \in 0 .. SectorBytes * t.io - 1 :
           t.buf[j] = NewByte(r.r, r.d, p * SectorBytes + j)
    BY <1>2, <1>4 DEF WriteArmed
  <2>2. Written(t, m) = BlockStored(r, m, p, b)  BY <1>0, <1>4, <1>5, <2>1, WrittenIs
  <2>3. PICK u : u = Advance(t)  OBVIOUS
  <2>4. b \in Nat /\ b >= 1 /\ p + b <= r.n /\ p + b \in Nat  BY <1>1, SizesAre DEF Request
  <2>5. /\ RegsAt(r, u, p + b) /\ (u.nsector = 0 <=> p + b = r.n) /\ u.mult = s.mult
    BY <1>4, <1>5, <2>3, <2>4, AdvanceIs
  <2>6. u \in DriveType /\ u.req = s.req  BY <1>4, <2>3, AdvanceType
  <2>7. PICK q : q = SectorWriteCb2(t)  OBVIOUS
  <2>8. CASE u.nsector = 0
    <3>1. q = [u EXCEPT !.status = {"READY", "SEEK"}]  BY <2>3, <2>7, <2>8 DEF SectorWriteCb2
    <3>2. /\ q.status = {"READY", "SEEK"} /\ q.mult = s.mult /\ q.lba = u.lba
          /\ q.nsector = u.nsector
      BY <2>5, <2>6, <3>1 DEF DriveType
    <3>3. RegsAt(r, q, r.n)  BY <2>5, <2>8, <3>2 DEF RegsAt
    <3>4. AllWritten(r, p, b, o)
      BY <1>8, <2>5, <2>7, <2>8, <3>2, <3>3 DEF Outcome, AllWritten
    <3>5. QED  BY <1>1, <1>8, <2>2, <2>7, <3>2, <3>4 DEF Outcome, StoreOutcome
  <2>9. CASE u.nsector # 0
    <3>1. q = SectorWrite(u)  BY <2>3, <2>7, <2>9 DEF SectorWriteCb2
    <3>2. p + b < r.n  BY <1>1, <2>4, <2>5, <2>9 DEF Request
    <3>3. u.req = Mult(r)  BY <1>0, <2>6
    <3>4. PICK k \in Nat : k = p + b  BY <2>4
    <3>5. WriteArmed(r, q, k) /\ q.index = 0 /\ q.mult = s.mult
      BY <2>5, <2>6, <3>1, <3>2, <3>3, <3>4, WriteBlock
    <3>6. NextToWrite(r, p, b, o)  BY <1>8, <2>7, <3>2, <3>4, <3>5 DEF Outcome, NextToWrite
    <3>7. QED  BY <1>1, <1>8, <2>2, <2>7, <3>5, <3>6 DEF Outcome, StoreOutcome
  <2>10. QED  BY <2>8, <2>9
<1>9. QED  BY <1>6, <1>7, <1>8

-------------------------------------------------------------------------------
(* Bytes through the data port *)

\* k bytes of a read: more of the block, or its end, and then the last block of
\* the request or one more.
MoreToRead(r, s, m, p, k, o) ==
  /\ s.index + k < s.end /\ ~o.raised
  /\ ReadArmed(r, o.s, m, p) /\ o.s.index = s.index + k /\ o.s.end = s.end
AllRead(r, s, p, k, o) == s.index + k = s.end /\ p + s.io = r.n /\ ~o.raised
NextToRead(r, s, m, p, k, o) ==
  /\ s.index + k = s.end /\ p + s.io < r.n /\ o.raised = TRUE
  /\ Failed(r, o.s) \/ (ReadArmed(r, o.s, m, p + s.io) /\ o.s.index = 0)
ReadOutcome(r, s, m, p, k, o) ==
  /\ o.m = m /\ o.s.mult = s.mult /\ p + s.io \in Nat
  /\ MoreToRead(r, s, m, p, k, o) \/ AllRead(r, s, p, k, o) \/ NextToRead(r, s, m, p, k, o)

LEMMA ReadMoved ==
  ASSUME NEW r, Request(r), NEW s \in DriveType, NEW m \in Medium, NEW p \in Nat,
         ReadArmed(r, s, m, p), NEW k \in Nat, k >= 1, s.index + k <= s.end,
         NEW o \in Moved(s, m, k)
  PROVE  ReadOutcome(r, s, m, p, k, o)
<1>1. s.index \in Nat /\ s.end \in Nat /\ s.io \in Nat /\ p + s.io \in 0 .. r.n /\ r.n \in Nat
  <2>1. s.index \in Nat /\ s.end \in Nat /\ s.io \in 0 .. MaxMult  BY DEF DriveType
  <2>2. r.n \in Nat  BY SizesAre DEF Request
  <2>3. p + s.io \in 0 .. r.n  BY DEF ReadArmed, RegsAt
  <2>4. QED  BY <2>1, <2>2, <2>3, SizesAre
<1>2. PICK i \in Nat : i = s.index + k  BY <1>1
<1>3. PICK t : t = [s EXCEPT !.index = i]  OBVIOUS
<1>4. /\ t \in DriveType /\ t.index = i /\ t.end = s.end /\ t.func = s.func /\ t.io = s.io
      /\ t.req = s.req /\ t.mult = s.mult /\ t.buf = s.buf /\ t.lba = s.lba
      /\ t.nsector = s.nsector /\ t.status = s.status
  BY <1>3 DEF DriveType
<1>5. /\ i >= s.end => o \in EndTransfer(t, m)
      /\ ~(i >= s.end) => o = Outcome(t, m, FALSE)
  <2>1. t = [s EXCEPT !.index = s.index + k]  BY <1>2, <1>3
  <2>2. Moved(s, m, k) = IF t.index >= t.end THEN EndTransfer(t, m) ELSE {Outcome(t, m, FALSE)}
    BY <2>1 DEF Moved
  <2>3. QED  BY <1>4, <2>2
<1>6. ReadArmed(r, t, m, p) /\ RegsAt(r, t, p + s.io)  BY <1>4 DEF ReadArmed, RegsAt
<1>7. CASE ~(i >= s.end)
  <2>1. o = Outcome(t, m, FALSE)  BY <1>5, <1>7, Zenon
  <2>2. o.m = m /\ o.s = t /\ ~o.raised  BY <2>1 DEF Outcome
  <2>3. s.index + k < s.end /\ p + s.io \in Nat  BY <1>1, <1>2, <1>7
  <2>4. MoreToRead(r, s, m, p, k, o)  BY <1>2, <1>4, <1>6, <2>2, <2>3 DEF MoreToRead
  <2>5. QED  BY <1>4, <2>2, <2>3, <2>4 DEF ReadOutcome
<1>8. CASE i >= s.end
  <2>0. s.index + k = s.end /\ p + s.io \in Nat  BY <1>1, <1>2, <1>8
  <2>1. o \in EndTransfer(t, m)  BY <1>5, <1>8, Zenon
  <2>2. CASE p + s.io = r.n
    <3>1. t.func = "readEnd"  BY <1>4, <2>2 DEF ReadArmed
    <3>2. o = Outcome(SectorReadCbEnd(t), m, FALSE)  BY <2>1, <3>1 DEF EndTransfer
    <3>3. SectorReadCbEnd(t).mult = t.mult
      BY <1>4 DEF SectorReadCbEnd, TransferStop, TransferStart, DriveType
    <3>4. o.m = m /\ o.s.mult = s.mult /\ ~o.raised  BY <1>4, <3>2, <3>3 DEF Outcome
    <3>5. AllRead(r, s, p, k, o)  BY <2>0, <2>2, <3>4 DEF AllRead
    <3>6. QED  BY <2>0, <3>4, <3>5 DEF ReadOutcome
  <2>3. CASE p + s.io # r.n
    <3>1. t.func = "read"  BY <1>4, <2>3 DEF ReadArmed
    <3>2. o \in SectorRead(t, m)  BY <2>1, <3>1 DEF EndTransfer
    <3>3. PICK q \in Nat : q = p + s.io /\ q < r.n  BY <1>1, <2>3
    <3>4. RegsAt(r, t, q) /\ t.req = Mult(r)  BY <1>6, <3>3 DEF ReadArmed
    <3>5. ReadBegun(r, t, m, q, o)
      <4>1. t \in DriveType /\ q < r.n  BY <1>4, <3>3
      <4>2. QED  BY <3>2, <3>4, <4>1, ReadBlock, Zenon
    <3>6. NextToRead(r, s, m, p, k, o)
      BY <2>0, <3>3, <3>5 DEF NextToRead, ReadBegun
    <3>7. QED  BY <1>4, <2>0, <3>5, <3>6 DEF ReadOutcome, ReadBegun
  <2>4. QED  BY <2>2, <2>3
<1>9. QED  BY <1>7, <1>8

\* k bytes of a write, put where the block has them.
MoreToWrite(r, s, m, p, k, o) ==
  /\ s.index + k < s.end /\ ~o.raised /\ o.m = m /\ o.s.mult = s.mult
  /\ WriteArmed(r, o.s, p) /\ o.s.index = s.index + k /\ o.s.end = s.end
WriteOutcome(r, s, m, p, k, o) ==
  \/ MoreToWrite(r, s, m, p, k, o)
  \/ s.index + k = s.end /\ StoreOutcome(r, s, m, p, o)

LEMMA WriteMoved ==
  ASSUME NEW r, Request(r), NEW s \in DriveType, NEW m \in Medium, NEW p \in Nat,
         WriteArmed(r, s, p), NEW k \in Nat, k >= 1, s.index + k <= s.end, NEW w,
         DriveSafe(s), w \in [0 .. k - 1 -> Cell],
         \A i \in 0 .. k - 1 : w[i] = NewByte(r.r, r.d, p * SectorBytes + s.index + i),
         NEW o \in Moved(Put(s, w, k), m, k)
  PROVE  WriteOutcome(r, s, m, p, k, o)
<1>1. s.index \in Nat /\ s.end \in Nat  BY DEF DriveType
<1>2. PICK i \in Nat : i = s.index + k  BY <1>1
<1>3. PICK u : u = Put(s, w, k)  OBVIOUS
<1>4. PICK b : b = [x \in DOMAIN s.buf |->
                     IF x \in s.index .. s.index + k - 1 THEN w[x - s.index] ELSE s.buf[x]]
  OBVIOUS
<1>5. u = [s EXCEPT !.buf = b] /\ u \in DriveType
  <2>1. k \in 0 .. k  OBVIOUS
  <2>2. Put(s, w, k) \in DriveType  BY <2>1, PutSafe
  <2>3. Put(s, w, k) = [s EXCEPT !.buf = b]  BY <1>4 DEF Put
  <2>4. QED  BY <1>3, <2>2, <2>3
<1>6. PICK t : t = [u EXCEPT !.index = i]  OBVIOUS
<1>7. /\ t \in DriveType /\ t.index = i /\ t.end = s.end /\ t.func = s.func /\ t.io = s.io
      /\ t.req = s.req /\ t.mult = s.mult /\ t.buf = b /\ t.lba = s.lba
      /\ t.nsector = s.nsector /\ t.status = s.status /\ u.index = s.index
  BY <1>5, <1>6 DEF DriveType
<1>8. /\ i >= s.end => o \in EndTransfer(t, m)
      /\ ~(i >= s.end) => o = Outcome(t, m, FALSE)
  <2>1. t = [u EXCEPT !.index = u.index + k]  BY <1>2, <1>6, <1>7
  <2>2. Moved(u, m, k) = IF t.index >= t.end THEN EndTransfer(t, m) ELSE {Outcome(t, m, FALSE)}
    BY <2>1 DEF Moved
  <2>3. QED  BY <1>3, <1>7, <2>2
<1>9. ASSUME NEW j \in 0 .. i - 1
      PROVE  b[j] = NewByte(r.r, r.d, p * SectorBytes + j)
  <2>1. j \in DOMAIN s.buf
    <3>1. DOMAIN s.buf = 0 .. BufBytes - 1  BY DEF DriveType
    <3>2. PICK z \in Nat : z = MaxMult * SectorBytes  BY SizesAre
    <3>3. s.end <= z /\ BufBytes = z + 4  BY <3>2 DEF DriveSafe, DriveBase, BufBytes
    <3>4. QED  BY <1>1, <1>2, <1>9, <3>1, <3>2, <3>3
  <2>2. CASE j < s.index
    <3>1. b[j] = s.buf[j]  BY <1>1, <1>4, <1>9, <2>1, <2>2
    <3>2. QED  BY <1>1, <1>9, <2>2, <3>1 DEF WriteArmed
  <2>3. CASE j >= s.index
    <3>1. b[j] = w[j - s.index]  BY <1>1, <1>2, <1>4, <1>9, <2>1, <2>3
    <3>2. PICK x \in 0 .. k - 1 : x = j - s.index  BY <1>1, <1>2, <1>9, <2>3
    <3>3. PICK z \in Nat : z = p * SectorBytes  BY SizesAre
    <3>4. z + s.index + x = z + j  BY <1>1, <1>9, <3>2, <3>3
    <3>5. w[x] = NewByte(r.r, r.d, z + s.index + x)  BY <3>3
    <3>6. QED  BY <3>1, <3>2, <3>3, <3>4, <3>5
  <2>4. QED  BY <1>1, <1>9, <2>2, <2>3
<1>10. WriteArmed(r, t, p)  BY <1>7, <1>9 DEF WriteArmed, RegsAt
<1>11. CASE ~(i >= s.end)
  <2>1. o = Outcome(t, m, FALSE)  BY <1>8, <1>11, Zenon
  <2>2. o.m = m /\ o.s = t /\ ~o.raised  BY <2>1 DEF Outcome
  <2>3. s.index + k < s.end  BY <1>1, <1>2, <1>11
  <2>4. MoreToWrite(r, s, m, p, k, o)  BY <1>2, <1>7, <1>10, <2>2, <2>3 DEF MoreToWrite
  <2>5. QED  BY <2>4 DEF WriteOutcome
<1>12. CASE i >= s.end
  <2>0. s.index + k = s.end /\ i = s.end  BY <1>1, <1>2, <1>12
  <2>1. o \in EndTransfer(t, m)  BY <1>8, <1>12, Zenon
  <2>2. t.func = "write"  BY <1>7 DEF WriteArmed
  <2>3. o \in SectorWriteCb1(t, m)  BY <2>1, <2>2 DEF EndTransfer
  <2>4. t.index = t.end  BY <1>7, <2>0
  <2>5. StoreOutcome(r, t, m, p, o)  BY <1>7, <1>10, <2>3, <2>4, StoreBlockAt
  <2>6. StoreOutcome(r, s, m, p, o)  BY <1>7, <2>5 DEF StoreOutcome
  <2>7. QED  BY <2>0, <2>6 DEF WriteOutcome
<1>13. QED  BY <1>11, <1>12

-------------------------------------------------------------------------------
(* Bytes and sectors *)

LEMMA Scale ==
  ASSUME NEW a \in Nat, NEW b \in Nat
  PROVE  /\ a * SectorBytes \in Nat /\ SectorBytes * b \in Nat
         /\ b * SectorBytes = SectorBytes * b
         /\ (a + b) * SectorBytes = a * SectorBytes + SectorBytes * b
         /\ a <= b => a * SectorBytes <= b * SectorBytes
         /\ a < b => a * SectorBytes < b * SectorBytes
<1> DEFINE n == SectorBytes
<1>1. n \in Nat \ {0}  BY SizesAre
<1> HIDE DEF n
<1>2. a * n \in Nat /\ n * b \in Nat /\ b * n = n * b /\ (a + b) * n = a * n + n * b
  BY <1>1
<1>3. ASSUME a <= b PROVE a * n <= b * n
  <2>1. PICK d \in Nat : b = a + d  BY <1>3
  <2>2. b * n = a * n + d * n /\ d * n \in Nat  BY <1>1, <2>1
  <2>3. QED  BY <1>2, <2>2
<1>4. ASSUME a < b PROVE a * n < b * n
  <2>1. PICK d \in Nat : b = a + 1 + d  BY <1>4
  <2>2. b * n = a * n + n + d * n /\ d * n \in Nat  BY <1>1, <2>1
  <2>3. QED  BY <1>1, <1>2, <2>2
<1>5. QED  BY <1>2, <1>3, <1>4 DEF n

\* What is left of the request, cut down to a block, is the block of the channel.
LEMMA BlockBytes ==
  ASSUME NEW r, Request(r), NEW p \in Nat, p < r.n
  PROVE  /\ r.n * SectorBytes - p * SectorBytes > 0
         /\ MinOf(r.n * SectorBytes - p * SectorBytes, Mult(r) * SectorBytes)
              = SectorBytes * BlockAt(r, p)
<1>1. PICK n \in Nat : n = r.n /\ p < n  BY SizesAre DEF Request
<1>2. PICK b \in Nat : b = Mult(r)  BY SizesAre DEF Mult
<1>3. PICK q \in Nat : q = n - p /\ q >= 1 /\ n = p + q  BY <1>1
<1>4. /\ n * SectorBytes - p * SectorBytes = q * SectorBytes
      /\ q * SectorBytes = SectorBytes * q /\ b * SectorBytes = SectorBytes * b
      /\ p * SectorBytes < n * SectorBytes
      /\ p * SectorBytes \in Nat /\ n * SectorBytes \in Nat
  <2>1. /\ (p + q) * SectorBytes = p * SectorBytes + SectorBytes * q
        /\ q * SectorBytes = SectorBytes * q /\ p * SectorBytes \in Nat
        /\ SectorBytes * q \in Nat
    BY Scale
  <2>2. n * SectorBytes = p * SectorBytes + SectorBytes * q  BY <1>3, <2>1
  <2>3. b * SectorBytes = SectorBytes * b  BY Scale
  <2>4. p * SectorBytes < n * SectorBytes  BY <1>1, Scale
  <2>5. QED  BY <2>1, <2>2, <2>3, <2>4
<1>5. MinOf(q * SectorBytes, b * SectorBytes) = SectorBytes * MinOf(q, b)
  <2>1. q * SectorBytes \in Nat /\ b * SectorBytes \in Nat  BY Scale
  <2>2. CASE q < b
    <3>1. q * SectorBytes < b * SectorBytes  BY <2>2, Scale
    <3>2. QED  BY <1>4, <2>1, <2>2, <3>1 DEF MinOf
  <2>3. CASE ~(q < b)
    <3>1. b * SectorBytes <= q * SectorBytes  BY <2>3, Scale
    <3>2. QED  BY <1>4, <2>1, <2>3, <3>1 DEF MinOf
  <2>4. QED  BY <2>2, <2>3
<1>6. BlockAt(r, p) = MinOf(q, b)  BY <1>1, <1>2, <1>3 DEF BlockAt
<1>7. PICK x \in Nat : x = n * SectorBytes  BY Scale
<1>8. PICK y \in Nat : y = p * SectorBytes  BY Scale
<1>9. x - y > 0 /\ x - y = q * SectorBytes  BY <1>4, <1>7, <1>8
<1>10. MinOf(x - y, b * SectorBytes) = SectorBytes * BlockAt(r, p)  BY <1>5, <1>6, <1>9
<1>11. QED  BY <1>1, <1>2, <1>7, <1>8, <1>9, <1>10

\* A string access that asks for no more than the block has moves it all.
LEMMA StringBytesAll ==
  ASSUME NEW s \in DriveType, NEW k \in {1, 2, 4}, NEW count \in Nat,
         k * count <= s.end - s.index
  PROVE  StringBytes(s, k, count) = k * count
<1>1. s.end - s.index \in Int  BY DEF DriveType
<1>2. PICK n \in Nat : n = k * count /\ n % k = 0
  <2>1. CASE k = 1  BY <2>1
  <2>2. CASE k = 2  BY <2>2
  <2>3. CASE k = 4  BY <2>3
  <2>4. QED  BY <2>1, <2>2, <2>3
<1>3. MinOf(k * count, s.end - s.index) = n  BY <1>1, <1>2 DEF MinOf
<1>4. QED  BY <1>2, <1>3 DEF StringBytes

-------------------------------------------------------------------------------
(* A request goes on under any change of the driver's place in it. *)

SameRequest(r, t) ==
  t.op = r.op /\ t.d = r.d /\ t.l = r.l /\ t.n = r.n /\ t.r = r.r

LEMMA SamePlaces ==
  ASSUME NEW r, NEW t, SameRequest(r, t), NEW s, NEW m, NEW p
  PROVE  /\ RegsAt(r, s, p) => RegsAt(t, s, p)
         /\ BlockAt(t, p) = BlockAt(r, p) /\ Mult(t) = Mult(r)
         /\ ReadArmed(r, s, m, p) => ReadArmed(t, s, m, p)
         /\ WriteArmed(r, s, p) => WriteArmed(t, s, p)
         /\ Failed(r, s) => Failed(t, s)
<1>1. /\ RegsAt(r, s, p) => RegsAt(t, s, p)
      /\ BlockAt(t, p) = BlockAt(r, p) /\ Mult(t) = Mult(r)
  BY DEF SameRequest, RegsAt, BlockAt, Mult
<1>2. RegsAt(r, s, p + s.io) => RegsAt(t, s, p + s.io)  BY DEF SameRequest, RegsAt
<1>3. ReadArmed(r, s, m, p) => ReadArmed(t, s, m, p)
  BY <1>1, <1>2 DEF SameRequest, ReadArmed
<1>4. WriteArmed(r, s, p) => WriteArmed(t, s, p)
  BY <1>1 DEF SameRequest, WriteArmed
<1>5. Failed(r, s) => Failed(t, s)  BY DEF Failed, SameRequest, RegsAt
<1>6. QED  BY <1>1, <1>3, <1>4, <1>5

\* What holds while a command is under way.
LEMMA InHand ==
  ASSUME DInv, drv.pc \in {"count", "command", "poll", "wait", "data"}
  PROVE  /\ Request(drv) /\ drv \in DriverType /\ cur = drv.d /\ cur \in Drive /\ cur # NoDrive
         /\ drives[cur] \in DriveType /\ DriveSafe(drives[cur]) /\ disk[cur] \in Medium
         /\ drives[cur].mult = MaxMult /\ control.nien = FALSE
         /\ Received(drv, disk[cur]) /\ Place(drv, drives[cur], disk[cur])
<1>1. Active  BY DEF Active
<1>2. Request(drv) /\ Received(drv, disk[drv.d])  BY <1>1 DEF DInv
<1>3. cur = drv.d /\ Place(drv, drives[drv.d], disk[drv.d])  BY DEF DInv
<1>4. cur \in Drive  BY <1>2, <1>3 DEF Request
<1>5. cur # NoDrive  BY <1>4, SizesAre
<1>6. IInv /\ drv \in DriverType /\ drives[cur].mult = MaxMult /\ control.nien = FALSE
  BY <1>4 DEF DInv
<1>7. drives[cur] \in DriveType /\ DriveSafe(drives[cur]) /\ disk[cur] \in Medium
  BY <1>5, <1>6, Selected
<1>8. QED  BY <1>2, <1>3, <1>4, <1>5, <1>6, <1>7

\* A handler of the drive in use comes to outcome o.
Came(o) ==
  /\ drives' = [drives EXCEPT ![cur] = o.s]
  /\ disk' = [disk EXCEPT ![cur] = o.m]
  /\ irq' = (irq \/ (o.raised /\ ~control.nien))
  /\ UNCHANGED <<cur, control>>

LEMMA CameTo ==
  ASSUME DInv, cur \in Drive, NEW o, Came(o), o.s.mult = drives[cur].mult
  PROVE  /\ drives'[cur] = o.s /\ disk'[cur] = o.m
         /\ \A d \in Drive : drives'[d].mult = MaxMult
         /\ cur' = cur /\ control' = control
         /\ irq' => irq \/ o.raised
<1>1. drives \in [Drive -> DriveType] /\ disk \in [Drive -> Medium]
  BY DEF DInv, IInv, TypeOK
<1>2. drives'[cur] = o.s /\ disk'[cur] = o.m  BY <1>1 DEF Came
<1>3. ASSUME NEW d \in Drive PROVE drives'[d].mult = MaxMult
  <2>1. CASE d = cur  BY <1>2, <2>1 DEF DInv
  <2>2. CASE d # cur  BY <1>1, <2>2 DEF Came, DInv
  <2>3. QED  BY <2>1, <2>2
<1>4. irq' => irq \/ o.raised  BY Zenon DEF Came
<1>5. cur' = cur /\ control' = control  BY DEF Came
<1>6. QED  BY <1>2, <1>3, <1>4, <1>5

-------------------------------------------------------------------------------
(* The steps of the driver are steps of a guest of the channel. *)

MovesIn(k) ==
  /\ k \in Nat /\ k >= 1 /\ k <= drv.left
  /\ Apply(Moved(drives[cur], disk[cur], k)) /\ drv' = Gone(k, PortBytes(k))
MovesOut(k) ==
  /\ k \in Nat /\ k >= 1 /\ k <= drv.left
  /\ Apply(Moved(Put(drives[cur], NewBytes(k), k), disk[cur], k)) /\ drv' = Gone(k, <<>>)

LEMMA CountNat == 1 .. BufBytes \subseteq Nat \ {0}
<1>1. MaxMult * SectorBytes \in Nat  BY MulMono, SizesAre
<1>2. QED  BY <1>1 DEF BufBytes

LEMMA MoveInIs ==
  ASSUME DInv, MoveIn
  PROVE  /\ \E k \in Nat : MovesIn(k)
         /\ Next
<1>0. drv.pc = "data"  BY DEF MoveIn
<1>1. drives[cur] \in DriveType /\ drv.left = drives[cur].end - drives[cur].index
  BY <1>0, InHand DEF Place, Moving
<1>2. ASSUME NEW k \in {2, 4}, k <= drv.left, DataRead(k), drv' = Gone(k, PortBytes(k))
      PROVE  (\E j \in Nat : MovesIn(j)) /\ Next
  <2>1. MovesIn(k)  BY <1>2 DEF MovesIn, DataRead
  <2>2. k \in Nat  OBVIOUS
  <2>3. Next  BY <1>2 DEF Next
  <2>4. QED  BY <2>1, <2>2, <2>3
<1>3. ASSUME NEW k \in {1, 2, 4}, NEW count \in 1 .. BufBytes, k * count <= drv.left,
             StringRead(k, count), drv' = Gone(k * count, PortBytes(k * count))
      PROVE  (\E j \in Nat : MovesIn(j)) /\ Next
  <2>1. count \in Nat \ {0}  BY CountNat
  <2>2. k * count \in Nat /\ k * count >= 1  BY <2>1
  <2>3. StringBytes(drives[cur], k, count) = k * count  BY <1>1, <1>3, <2>1, StringBytesAll
  <2>4. Apply(Moved(drives[cur], disk[cur], k * count))  BY <1>3, <2>3 DEF StringRead
  <2>5. MovesIn(k * count)  BY <1>3, <2>2, <2>4 DEF MovesIn
  <2>6. Next  BY <1>3 DEF Next
  <2>7. QED  BY <2>2, <2>5, <2>6
<1>4. QED  BY <1>2, <1>3 DEF MoveIn

\* The bytes a write puts out are bytes of its request.
LEMMA NewBytesType ==
  ASSUME DInv, drv.pc = "data", drv.op \in WriteOps, NEW k \in Nat, k <= drv.left
  PROVE  NewBytes(k) \in [0 .. k - 1 -> Cell]
<1>1. /\ Request(drv) /\ cur \in Drive /\ drv.d = cur /\ drives[cur] \in DriveType
      /\ Moving(drv, drives[cur], disk[cur])
  BY InHand DEF Place
<1>2. PICK p \in Nat : /\ WriteArmed(drv, drives[cur], p)
                       /\ drv.pos = p * SectorBytes + drives[cur].index
                       /\ drv.left = drives[cur].end - drives[cur].index
  BY <1>1 DEF Moving, Armed
<1>3. p < drv.n /\ RegsAt(drv, drives[cur], p) /\ drives[cur].req = Mult(drv)
  BY <1>1, <1>2 DEF WriteArmed, Request
<1>4. PICK b \in Nat : /\ b = BlockAt(drv, p) /\ p + b <= drv.n /\ drives[cur].io = b
                       /\ drives[cur].end = SectorBytes * b
  <2>1. BlockAt(drv, p) \in 1 .. MaxMult /\ p + BlockAt(drv, p) \in 1 .. drv.n
    BY <1>1, <1>3, BlockIs
  <2>2. QED  BY <1>1, <1>2, <2>1, SizesAre DEF WriteArmed, Request
<1>5. p + b \in Nat /\ p + b <= Sectors  BY <1>1, <1>4, SizesAre DEF Request
<1>6. /\ (p + b) * SectorBytes = p * SectorBytes + SectorBytes * b
      /\ p * SectorBytes \in Nat /\ SectorBytes * b \in Nat
  BY Scale
<1>7. (p + b) * SectorBytes <= Sectors * SectorBytes /\ Sectors * SectorBytes \in Nat
  BY <1>5, Scale, SizesAre
<1>8. ASSUME NEW i \in 0 .. k - 1
      PROVE  NewByte(drv.r, drv.d, drv.pos + i) \in Cell
  <2>1. drives[cur].index \in Nat  BY <1>1 DEF DriveType
  <2>2. PICK x \in Nat : x = p * SectorBytes  BY <1>6
  <2>3. PICK y \in Nat : y = SectorBytes * b  BY <1>6
  <2>4. PICK z \in Nat : z = Sectors * SectorBytes  BY <1>7
  <2>5. drv.pos + i \in 0 .. z - 1
    BY <1>2, <1>4, <1>6, <1>7, <2>1, <2>2, <2>3, <2>4
  <2>6. drv.r \in 1 .. Requests /\ drv.d \in Drive  BY <1>1 DEF Request
  <2>7. QED  BY <2>4, <2>5, <2>6, DriverSizes
<1>9. QED  BY <1>8 DEF NewBytes

LEMMA MoveOutIs ==
  ASSUME DInv, MoveOut
  PROVE  /\ \E k \in Nat : MovesOut(k)
         /\ Next
<1>0. drv.pc = "data" /\ drv.op \in WriteOps  BY DEF MoveOut
<1>1. drives[cur] \in DriveType /\ drv.left = drives[cur].end - drives[cur].index
  BY <1>0, InHand DEF Place, Moving
<1>2. ASSUME NEW k \in {2, 4}, k <= drv.left, DataWrite(k, NewBytes(k)), drv' = Gone(k, <<>>)
      PROVE  (\E j \in Nat : MovesOut(j)) /\ Next
  <2>1. MovesOut(k)  BY <1>2 DEF MovesOut, DataWrite
  <2>2. k \in Nat  OBVIOUS
  <2>3. NewBytes(k) \in [0 .. k - 1 -> Cell]  BY <1>0, <1>2, <2>2, NewBytesType
  <2>4. Next  BY <1>2, <2>3 DEF Next
  <2>5. QED  BY <2>1, <2>2, <2>4
<1>3. ASSUME NEW k \in {1, 2, 4}, NEW count \in 1 .. BufBytes, k * count <= drv.left,
             StringWrite(k, count, NewBytes(k * count)), drv' = Gone(k * count, <<>>)
      PROVE  (\E j \in Nat : MovesOut(j)) /\ Next
  <2>1. count \in Nat \ {0}  BY CountNat
  <2>2. k * count \in Nat /\ k * count >= 1  BY <2>1
  <2>3. StringBytes(drives[cur], k, count) = k * count  BY <1>1, <1>3, <2>1, StringBytesAll
  <2>4. Apply(Moved(Put(drives[cur], NewBytes(k * count), k * count), disk[cur], k * count))
    BY <1>3, <2>3 DEF StringWrite
  <2>5. MovesOut(k * count)  BY <1>3, <2>2, <2>4 DEF MovesOut
  <2>6. NewBytes(k * count) \in [0 .. k * count - 1 -> Cell]
    BY <1>0, <1>3, <2>2, NewBytesType
  <2>7. Next  BY <1>3, <2>6 DEF Next
  <2>8. QED  BY <2>2, <2>5, <2>7
<1>4. QED  BY <1>2, <1>3 DEF MoveOut

LEMMA ChannelStep ==
  ASSUME DInv, [DriverNext]_allVars
  PROVE  IInv'
<1>0. IInv  BY DEF DInv
<1>1. ASSUME UNCHANGED vars PROVE IInv'
  BY <1>0, <1>1 DEF vars, IInv, TypeOK, BusyOnlyInReset
<1>2. ASSUME Next PROVE IInv'  BY <1>0, <1>2, NextHolds
<1>3. CASE UNCHANGED allVars  BY <1>1, <1>3 DEF allVars, vars
<1>4. ASSUME NEW op \in ReadOps \cup WriteOps, NEW d \in Drive, NEW l \in 0 .. Sectors - 1,
             NEW n \in 1 .. NMod, BeginRequest(op, d, l, n)
      PROVE  IInv'
  BY <1>1, <1>4 DEF BeginRequest
<1>5. CASE GiveUp  BY <1>2, <1>5 DEF GiveUp, Next
<1>6. CASE Select
  <2>1. Request(drv)  BY <1>6 DEF Select, DInv, Active
  <2>4. drv.d \in {0, 1}  BY <2>1, SizesAre, Zenon DEF Request
  <2>2. drv.l \in Lba
    <3>1. drv.l \in 0 .. Sectors - 1  BY <2>1 DEF Request
    <3>2. QED  BY <3>1, SizesAre DEF Lba
  <2>3. Next  BY <1>6, <2>2, <2>4 DEF Select, Next
  <2>5. QED  BY <1>2, <2>3
<1>7. CASE Count
  <2>1. Request(drv)  BY <1>7 DEF Count, DInv, Active
  <2>2. drv.n % NMod \in 0 .. NMod - 1
    <3>1. PICK n \in Int : n = drv.n  BY <2>1, SizesAre DEF Request
    <3>2. QED  BY <3>1, Remainder, SizesAre
  <2>3. Next  BY <1>7, <2>2 DEF Count, Next
  <2>4. QED  BY <1>2, <2>3
<1>8. CASE Command
  <2>1. drv.op \in Commands  BY DEF DInv, DriverType, ReadOps, WriteOps, Commands
  <2>2. Next  BY <1>8, <2>1 DEF Command, Next
  <2>3. QED  BY <1>2, <2>2
<1>9. CASE Interrupt \/ Poll \/ Settle
  BY <1>2, <1>9 DEF Interrupt, Poll, Settle, Next
<1>10. CASE MoveIn \/ MoveOut  BY <1>2, <1>10, MoveInIs, MoveOutIs
<1>11. CASE Release  BY <1>2, <1>11 DEF Release, Next
<1>12. QED
  BY <1>3, <1>4, <1>5, <1>6, <1>7, <1>8, <1>9, <1>10, <1>11 DEF DriverNext, Proceed

-------------------------------------------------------------------------------
(* Each step of the driver leaves the invariant. *)

LEMMA BeginHolds ==
  ASSUME DInv, IInv', NEW op \in ReadOps \cup WriteOps, NEW d \in Drive,
         NEW l \in 0 .. Sectors - 1, NEW n \in 1 .. NMod, BeginRequest(op, d, l, n)
  PROVE  DInv' /\ Request(drv)'
<1>1. /\ drv' = [drv EXCEPT !.pc = "select", !.op = op, !.d = d, !.l = l, !.n = n,
                            !.r = drv.r + 1, !.pos = 0, !.left = 0, !.data = <<>>,
                            !.result = "none"]
      /\ drv.pc = "idle" /\ drv.r < Requests /\ l + n <= Sectors /\ UNCHANGED vars
  BY DEF BeginRequest
<1>2. drv \in DriverType  BY DEF DInv
<1>3. /\ drv'.pc = "select" /\ drv'.op = op /\ drv'.d = d /\ drv'.l = l /\ drv'.n = n
      /\ drv'.r = drv.r + 1 /\ drv'.pos = 0 /\ drv'.data = <<>> /\ drv'.result = "none"
  BY <1>1, <1>2 DEF DriverType
<1>4. d \in {0, 1} /\ l \in Nat /\ n \in Nat /\ Requests \in Nat
  BY SizesAre, DriverSizes
<1>5. drv.r + 1 \in 1 .. Requests /\ drv.r + 1 \in 0 .. Requests
  BY <1>1, <1>2, <1>4 DEF DriverType
<1>6. drv' \in DriverType
  <2>1. PICK q \in 0 .. Requests : q = drv.r + 1  BY <1>5
  <2>2. <<>> \in Seq(Cell)  OBVIOUS
  <2>3. drv' = [drv EXCEPT !.pc = "select", !.op = op, !.d = d, !.l = l, !.n = n,
                           !.r = q, !.pos = 0, !.left = 0, !.data = <<>>,
                           !.result = "none"]
    BY <1>1, <2>1
  <2>4. QED  BY <1>2, <1>4, <2>2, <2>3 DEF DriverType
<1>7. Request(drv)'  BY <1>1, <1>3, <1>5 DEF Request
<1>8. Received(drv, disk[drv.d])'  BY <1>3 DEF Received
<1>9. drv'.pos <= drv'.n * SectorBytes  BY <1>3, <1>4, Scale
<1>10. ~irq' /\ control' = [srst |-> FALSE, nien |-> FALSE]
       /\ \A e \in Drive : drives'[e].mult = MaxMult
  BY <1>1 DEF DInv, vars
<1>11. QED  BY <1>3, <1>6, <1>7, <1>8, <1>9, <1>10 DEF DInv

\* A step that only moves the driver on in its place.
LEMMA PcStep ==
  ASSUME DInv, NEW pc \in {"count", "command", "poll", "wait", "reset", "settle", "idle"},
         drv' = [drv EXCEPT !.pc = pc]
  PROVE  /\ drv' \in DriverType /\ SameRequest(drv, drv') /\ drv'.pc = pc
         /\ drv'.pos = drv.pos /\ drv'.data = drv.data /\ drv'.left = drv.left
         /\ drv'.result = drv.result /\ drv'.pos <= drv'.n * SectorBytes
         /\ Request(drv) => Request(drv')
         /\ \A m : Received(drv, m) => Received(drv', m)
<1>1. drv \in DriverType /\ drv.pos <= drv.n * SectorBytes  BY DEF DInv
<1>2. /\ drv' \in DriverType /\ drv'.pc = pc /\ drv'.op = drv.op /\ drv'.d = drv.d
      /\ drv'.l = drv.l /\ drv'.n = drv.n /\ drv'.r = drv.r
      /\ drv'.pos = drv.pos /\ drv'.data = drv.data /\ drv'.left = drv.left
      /\ drv'.result = drv.result
  BY <1>1 DEF DriverType
<1>3. drv'.pos <= drv'.n * SectorBytes  BY <1>1, <1>2
<1>4. Request(drv) => Request(drv')  BY <1>2 DEF Request
<1>5. \A m : Received(drv, m) => Received(drv', m)  BY <1>2 DEF Received
<1>6. QED  BY <1>2, <1>3, <1>4, <1>5 DEF SameRequest

LEMMA SelectHolds ==
  ASSUME DInv, IInv', Select
  PROVE  DInv' /\ UNCHANGED disk
<1>1. drv.pc = "select" /\ SelectDrive(drv.d, drv.l) /\ drv' = [drv EXCEPT !.pc = "count"]
  BY DEF Select
<1>2. Request(drv) /\ Received(drv, disk[drv.d]) /\ drv.pos = 0
  BY <1>1 DEF DInv, Active
<1>3. drv.d \in Drive  BY <1>2 DEF Request
<1>4. /\ cur' = drv.d /\ drives' = [drives EXCEPT ![drv.d].lba = drv.l]
      /\ UNCHANGED <<control, irq, disk>>
  BY <1>1, <1>3 DEF SelectDrive
<1>5. drives \in [Drive -> DriveType]  BY DEF DInv, IInv, TypeOK
<1>6. drives'[drv.d].lba = drv.l /\ \A e \in Drive : drives'[e].mult = MaxMult
  <2>1. \A e \in Drive : drives[e].mult = MaxMult  BY DEF DInv
  <2>2. QED  BY <1>3, <1>4, <1>5, <2>1 DEF DriveType
<1>7. /\ drv' \in DriverType /\ SameRequest(drv, drv') /\ drv'.pc = "count"
      /\ drv'.pos = 0 /\ drv'.pos <= drv'.n * SectorBytes
      /\ Request(drv') /\ Received(drv', disk[drv.d])
  BY <1>1, <1>2, PcStep
<1>8. control' = [srst |-> FALSE, nien |-> FALSE] /\ ~irq'  BY <1>1, <1>4 DEF DInv
<1>9. drv'.d = drv.d /\ drv'.l = drv.l  BY <1>7 DEF SameRequest
<1>10. Place(drv, drives[drv.d], disk[drv.d])'  BY <1>6, <1>7, <1>9 DEF Place
<1>11. Received(drv, disk[drv.d])' /\ cur' = drv'.d  BY <1>4, <1>7, <1>9
<1>12. Request(drv)'  BY <1>7 DEF Request
<1>13. QED  BY <1>4, <1>6, <1>7, <1>8, <1>10, <1>11, <1>12 DEF DInv

LEMMA CountHolds ==
  ASSUME DInv, IInv', Count
  PROVE  DInv' /\ UNCHANGED disk
<1>1. drv.pc = "count" /\ WriteCount(drv.n % NMod) /\ drv' = [drv EXCEPT !.pc = "command"]
  BY DEF Count
<1>2. /\ Request(drv) /\ drv \in DriverType /\ cur = drv.d /\ cur \in Drive
      /\ drives[cur] \in DriveType /\ disk[cur] \in Medium
      /\ Received(drv, disk[cur]) /\ Place(drv, drives[cur], disk[cur])
  BY <1>1, InHand
<1>3. PICK c : c = drv.n % NMod  OBVIOUS
<1>4. PICK t : t = [drives[cur] EXCEPT !.nsector = c]  OBVIOUS
<1>5. Came(Outcome(t, disk[cur], FALSE))
  <2>1. Apply({Outcome(t, disk[cur], FALSE)})  BY <1>1, <1>3, <1>4 DEF WriteCount
  <2>2. QED  BY <2>1 DEF Apply, Came
<1>6. t.lba = drives[cur].lba /\ t.nsector = c /\ t.mult = drives[cur].mult
  BY <1>2, <1>4 DEF DriveType
<1>7. PICK o : o = Outcome(t, disk[cur], FALSE)  OBVIOUS
<1>8. o.s = t /\ o.m = disk[cur] /\ ~o.raised  BY <1>7 DEF Outcome
<1>9. /\ drives'[cur] = t /\ disk'[cur] = disk[cur]
      /\ \A d \in Drive : drives'[d].mult = MaxMult
      /\ cur' = cur /\ control' = control /\ (irq' => irq)
  BY <1>2, <1>5, <1>6, <1>7, <1>8, CameTo
<1>10. /\ drv' \in DriverType /\ SameRequest(drv, drv') /\ drv'.pc = "command"
       /\ drv'.pos = drv.pos /\ drv'.pos <= drv'.n * SectorBytes
       /\ Request(drv') /\ Received(drv', disk[cur])
  BY <1>1, <1>2, PcStep
<1>11. drv'.d = drv.d /\ drv'.l = drv.l /\ drv'.n = drv.n  BY <1>10 DEF SameRequest
<1>12. control' = [srst |-> FALSE, nien |-> FALSE] /\ ~irq' /\ drv'.pos = 0
  BY <1>1, <1>9, <1>10 DEF DInv
<1>13. drives[cur].lba = drv.l  BY <1>1, <1>2 DEF Place
<1>14. Place(drv, drives[drv.d], disk[drv.d])'
  BY <1>2, <1>3, <1>6, <1>9, <1>10, <1>11, <1>13 DEF Place
<1>15. Received(drv, disk[drv.d])' /\ cur' = drv'.d  BY <1>2, <1>9, <1>10, <1>11
<1>16. Request(drv)'  BY <1>10 DEF Request
<1>17. disk' = disk
  <2>1. disk \in [Drive -> Medium]  BY DEF DInv, IInv, TypeOK
  <2>2. disk' = [disk EXCEPT ![cur] = disk[cur]]  BY <1>5, <1>7, <1>8 DEF Came
  <2>3. QED  BY <2>1, <2>2
<1>18. QED  BY <1>9, <1>10, <1>12, <1>14, <1>15, <1>16, <1>17 DEF DInv

\* The command of a request is met with an error or with the block at its start.
LEMMA CommandOutcome ==
  ASSUME NEW r, Request(r), r.op \in ReadOps \cup WriteOps, NEW s \in DriveType,
         NEW m \in Medium, s.mult = MaxMult, s.lba = r.l, s.nsector = r.n % NMod,
         NEW o \in ExecCmd(s, m, r.op)
  PROVE  /\ o.m = m /\ o.s.mult = s.mult
         /\ r.op \in WriteOps => ~o.raised /\ WriteArmed(r, o.s, 0)
         /\ Failed(r, o.s) \/ (Armed(r, o.s, m, 0) /\ o.s.index = 0)
<1>1. PICK t : t = [s EXCEPT !.req = Mult(r)]  OBVIOUS
<1>2. /\ t \in DriveType /\ t.req = Mult(r) /\ t.lba = s.lba /\ t.nsector = s.nsector
      /\ t.mult = s.mult
  <2>1. PICK b \in 0 .. MaxMult : b = Mult(r)  BY SizesAre DEF Mult
  <2>2. QED  BY <1>1, <2>1 DEF DriveType
<1>3. RegsAt(r, t, 0)
  <2>1. PICK n \in Nat : n = r.n  BY SizesAre DEF Request
  <2>2. PICK l \in Nat : l = r.l  BY SizesAre DEF Request
  <2>3. QED  BY <1>2, <2>1, <2>2 DEF RegsAt
<1>4. 0 < r.n /\ 0 \in Nat  BY SizesAre DEF Request
<1>5. MaxMult # 0  BY SizesAre
<1>6. CASE r.op \in ReadOps
  <2>1. o \in SectorRead(t, m)
    <3>1. CASE r.op = "READ"
      <4>1. Mult(r) = 1  BY <3>1 DEF Mult
      <4>2. QED  BY <1>1, <3>1, <4>1 DEF ExecCmd
    <3>2. CASE r.op = "MULTREAD"
      <4>1. Mult(r) = s.mult /\ s.mult # 0  BY <1>5, <3>2 DEF Mult
      <4>2. QED  BY <1>1, <3>2, <4>1 DEF ExecCmd
    <3>3. QED  BY <1>6, <3>1, <3>2 DEF ReadOps
  <2>2. ReadBegun(r, t, m, 0, o)
    BY <1>2, <1>3, <1>4, <2>1, ReadBlock, Zenon
  <2>3. r.op \notin WriteOps  BY <1>6 DEF ReadOps, WriteOps
  <2>4. QED  BY <1>2, <2>2, <2>3 DEF ReadBegun, Armed
<1>7. CASE r.op \in WriteOps
  <2>1. o = Outcome(SectorWrite(t), m, FALSE)
    <3>1. CASE r.op = "WRITE"
      <4>1. Mult(r) = 1  BY <3>1 DEF Mult
      <4>2. QED  BY <1>1, <3>1, <4>1 DEF ExecCmd
    <3>2. CASE r.op = "MULTWRITE"
      <4>1. Mult(r) = s.mult /\ s.mult # 0  BY <1>5, <3>2 DEF Mult
      <4>2. QED  BY <1>1, <3>2, <4>1 DEF ExecCmd
    <3>3. QED  BY <1>7, <3>1, <3>2 DEF WriteOps
  <2>2. /\ WriteArmed(r, SectorWrite(t), 0) /\ SectorWrite(t).index = 0
        /\ SectorWrite(t).mult = t.mult
    BY <1>2, <1>3, <1>4, WriteBlock
  <2>3. r.op \notin ReadOps  BY <1>7 DEF ReadOps, WriteOps
  <2>4. o.s = SectorWrite(t) /\ o.m = m /\ ~o.raised  BY <2>1 DEF Outcome
  <2>5. QED  BY <1>2, <2>2, <2>3, <2>4 DEF Armed
<1>8. QED  BY <1>6, <1>7

LEMMA CommandHolds ==
  ASSUME DInv, IInv', Command
  PROVE  /\ DInv' /\ UNCHANGED disk
         /\ drv'.op \in WriteOps => RegsAt(drv', drives'[drv.d], 0)
<1>1. /\ drv.pc = "command" /\ WriteCommand(drv.op)
      /\ drv' = [drv EXCEPT !.pc = IF drv.op \in WriteOps THEN "poll" ELSE "wait"]
  BY DEF Command
<1>2. /\ Request(drv) /\ drv \in DriverType /\ cur = drv.d /\ cur \in Drive
      /\ drives[cur] \in DriveType /\ disk[cur] \in Medium /\ drives[cur].mult = MaxMult
      /\ Received(drv, disk[cur]) /\ Place(drv, drives[cur], disk[cur])
  BY <1>1, InHand
<1>3. PICK pc : /\ pc = (IF drv.op \in WriteOps THEN "poll" ELSE "wait")
                /\ pc \in {"poll", "wait"}
  OBVIOUS
<1>4. /\ drv' \in DriverType /\ SameRequest(drv, drv') /\ drv'.pc = pc
      /\ drv'.pos = drv.pos /\ drv'.pos <= drv'.n * SectorBytes
      /\ Request(drv') /\ Received(drv', disk[cur])
  BY <1>1, <1>2, <1>3, PcStep
<1>5. drv'.d = drv.d /\ drv'.l = drv.l /\ drv'.n = drv.n /\ drv'.op = drv.op
  BY <1>4 DEF SameRequest
<1>6. PICK o \in ExecCmd(drives[cur], disk[cur], drv.op) : Came(o)
  BY <1>1 DEF WriteCommand, Apply, Came
<1>7. /\ o.m = disk[cur] /\ o.s.mult = drives[cur].mult
      /\ drv.op \in WriteOps => ~o.raised /\ WriteArmed(drv', o.s, 0)
      /\ Failed(drv', o.s) \/ (Armed(drv', o.s, disk[cur], 0) /\ o.s.index = 0)
  <2>1. drv.op \in ReadOps \cup WriteOps  BY <1>2 DEF DriverType
  <2>2. drives[cur].lba = drv.l /\ drives[cur].nsector = drv.n % NMod
    BY <1>1, <1>2 DEF Place
  <2>3. o \in ExecCmd(drives[cur], disk[cur], drv'.op)  BY <1>5, <1>6
  <2>4. QED  BY <1>2, <1>4, <1>5, <2>1, <2>2, <2>3, CommandOutcome
<1>8. /\ drives'[cur] = o.s /\ disk'[cur] = disk[cur]
      /\ \A d \in Drive : drives'[d].mult = MaxMult
      /\ cur' = cur /\ control' = control /\ (irq' => irq \/ o.raised)
  BY <1>2, <1>6, <1>7, CameTo
<1>9. control' = [srst |-> FALSE, nien |-> FALSE] /\ drv'.pos = 0 /\ ~irq
  BY <1>1, <1>3, <1>4, <1>8 DEF DInv
<1>10. irq' => drv'.pc = "wait"  BY <1>3, <1>4, <1>7, <1>8, <1>9
<1>11. Asked(drv', o.s, disk[cur])
  <2>1. 0 \in Nat /\ 0 = 0 * SectorBytes  BY SizesAre
  <2>2. CASE Failed(drv', o.s)  BY <2>2 DEF Asked
  <2>3. CASE Armed(drv', o.s, disk[cur], 0) /\ o.s.index = 0
    <3>1. Ready(drv', o.s, disk[cur])  BY <1>9, <2>1, <2>3 DEF Ready
    <3>2. QED  BY <3>1 DEF Asked
  <2>4. QED  BY <1>7, <2>2, <2>3
<1>12. Place(drv', drives'[cur], disk'[cur])  BY <1>3, <1>4, <1>8, <1>11 DEF Place
<1>13. Place(drv, drives[drv.d], disk[drv.d])'  BY <1>2, <1>5, <1>12
<1>14. Received(drv, disk[drv.d])' /\ cur' = drv'.d  BY <1>2, <1>4, <1>5, <1>8
<1>15. Request(drv)'  BY <1>4 DEF Request
<1>16. disk' = disk
  <2>1. disk \in [Drive -> Medium]  BY DEF DInv, IInv, TypeOK
  <2>2. disk' = [disk EXCEPT ![cur] = disk[cur]]  BY <1>6, <1>7 DEF Came
  <2>3. QED  BY <2>1, <2>2
<1>17. DInv'
  BY <1>3, <1>4, <1>8, <1>9, <1>10, <1>13, <1>14, <1>15 DEF DInv
<1>18. drv'.op \in WriteOps => RegsAt(drv', drives'[drv.d], 0)
  BY <1>2, <1>5, <1>7, <1>8 DEF WriteArmed
<1>19. QED  BY <1>16, <1>17, <1>18

\* The driver is done with its request, with this result.
Ends(result) == drv' = [drv EXCEPT !.pc = "idle", !.result = result]

LEMMA EndsIs ==
  ASSUME DInv, NEW x \in {"ok", "error"}, Ends(x)
  PROVE  /\ drv' \in DriverType /\ drv'.pc = "idle" /\ drv'.result = x
         /\ drv'.op = drv.op /\ drv'.data = drv.data
         /\ drv'.pos <= drv'.n * SectorBytes /\ ~Active'
<1>1. drv \in DriverType /\ drv.pos <= drv.n * SectorBytes  BY DEF DInv
<1>2. /\ drv' \in DriverType /\ drv'.pc = "idle" /\ drv'.result = x /\ drv'.pos = drv.pos
      /\ drv'.n = drv.n /\ drv'.op = drv.op /\ drv'.data = drv.data
  BY <1>1 DEF Ends, DriverType
<1>3. QED  BY <1>1, <1>2 DEF Active

\* The status is the one the driver's own count calls for.
LEMMA JudgeHolds ==
  ASSUME DInv, IInv', drv.pc \in {"wait", "poll"}, ReadStatus,
         drv' = Judge(drives[cur].status)
  PROVE  /\ DInv' /\ UNCHANGED <<drives, disk>>
         /\ \/ Ends("error")
            \/ drv'.pc = "data" /\ SameRequest(drv, drv') /\ drv'.result = drv.result
            \/ Ends("ok") /\ Stored(drv, drives[cur])
<1>1. /\ Request(drv) /\ drv \in DriverType /\ cur = drv.d /\ cur \in Drive
      /\ drives[cur] \in DriveType /\ disk[cur] \in Medium
      /\ Received(drv, disk[cur]) /\ Asked(drv, drives[cur], disk[cur])
  BY InHand DEF Place
<1>2. ~irq' /\ UNCHANGED <<drives, cur, control, disk>>  BY DEF ReadStatus
<1>3. /\ control' = [srst |-> FALSE, nien |-> FALSE]
      /\ \A d \in Drive : drives'[d].mult = MaxMult
  BY <1>2 DEF DInv
<1>4. PICK s : s = drives[cur]  OBVIOUS
<1>5. ASSUME NEW x \in {"ok", "error"}, Ends(x) PROVE DInv'
  <2>1. /\ drv' \in DriverType /\ drv'.pc = "idle" /\ drv'.pos <= drv'.n * SectorBytes
        /\ ~Active'
    BY <1>5, EndsIs
  <2>2. QED  BY <1>2, <1>3, <2>1 DEF DInv
<1>6. CASE Failed(drv, s)
  <2>1. "ERR" \in s.status  BY <1>6 DEF Failed
  <2>2. Ends("error")  BY <1>4, <2>1 DEF Judge, Ends
  <2>3. QED  BY <1>2, <1>5, <2>2
<1>7. CASE Stored(drv, s)
  <2>1. /\ s.status = {"READY", "SEEK"} /\ drv.op \in WriteOps
        /\ drv.pos = drv.n * SectorBytes
    BY <1>7 DEF Stored
  <2>2. BytesLeft = 0
    <3>1. drv.n * SectorBytes \in Nat  BY <1>1, Scale, SizesAre DEF Request
    <3>2. QED  BY <2>1, <3>1 DEF BytesLeft
  <2>3. Ends("ok")  BY <1>4, <2>1, <2>2 DEF Judge, Ends
  <2>4. QED  BY <1>2, <1>4, <1>5, <1>7, <2>3
<1>8. CASE Ready(drv, s, disk[cur])
  <2>1. PICK p \in Nat : /\ Armed(drv, s, disk[cur], p) /\ s.index = 0
                         /\ drv.pos = p * SectorBytes
    BY <1>8 DEF Ready
  <2>2. drv.op \in ReadOps \/ drv.op \in WriteOps  BY <1>1 DEF DriverType
  <2>3. /\ p < drv.n /\ s.status = {"READY", "SEEK", "DRQ"}
        /\ s.io = BlockAt(drv, p) /\ s.end = SectorBytes * s.io
    BY <1>1, <2>1, <2>2 DEF Armed, ReadArmed, WriteArmed, Request
  <2>4. /\ BytesLeft > 0
        /\ MinOf(BytesLeft, Blocks * SectorBytes) = SectorBytes * BlockAt(drv, p)
    <3>1. BytesLeft = drv.n * SectorBytes - p * SectorBytes  BY <2>1 DEF BytesLeft
    <3>2. Blocks = Mult(drv)  BY DEF Blocks, Mult
    <3>3. QED  BY <1>1, <2>3, <3>1, <3>2, BlockBytes
  <2>5. PICK x : x = s.end  OBVIOUS
  <2>6. drv' = [drv EXCEPT !.pc = "data", !.left = x]
    BY <1>4, <2>3, <2>4, <2>5 DEF Judge
  <2>7. x \in Nat /\ x > 0
    <3>1. x \in Nat  BY <1>1, <1>4, <2>5 DEF DriveType
    <3>2. DriveSafe(s)  BY <1>1, <1>4 DEF DInv, IInv
    <3>3. s.index < s.end  BY <2>3, <3>2 DEF DriveSafe
    <3>4. QED  BY <2>1, <2>5, <3>1, <3>3
  <2>8. /\ drv' \in DriverType /\ drv'.pc = "data" /\ drv'.left = x /\ drv'.pos = drv.pos
        /\ drv'.op = drv.op /\ drv'.d = drv.d /\ drv'.l = drv.l /\ drv'.n = drv.n
        /\ drv'.r = drv.r /\ drv'.data = drv.data /\ drv'.result = drv.result
    BY <1>1, <2>6, <2>7 DEF DriverType
  <2>9. SameRequest(drv, drv')  BY <2>8 DEF SameRequest
  <2>10. Armed(drv', s, disk[cur], p)
    BY <2>1, <2>8, <2>9, SamePlaces DEF Armed
  <2>11. Moving(drv', s, disk[cur])
    <3>1. p * SectorBytes \in Nat  BY Scale
    <3>2. drv'.pos = p * SectorBytes + s.index  BY <2>1, <2>8, <3>1
    <3>3. drv'.left = s.end - s.index /\ drv'.left > 0  BY <2>1, <2>5, <2>7, <2>8
    <3>4. QED  BY <2>10, <3>2, <3>3 DEF Moving
  <2>12. Place(drv', drives'[drv'.d], disk'[drv'.d])
    BY <1>1, <1>2, <1>4, <2>8, <2>11 DEF Place
  <2>13. Request(drv') /\ Received(drv', disk'[drv'.d]) /\ cur' = drv'.d
    BY <1>1, <1>2, <2>8 DEF Request, Received
  <2>14. drv'.pos <= drv'.n * SectorBytes  BY <2>8 DEF DInv
  <2>15. DInv'  BY <1>2, <1>3, <2>8, <2>12, <2>13, <2>14 DEF DInv
  <2>16. QED  BY <1>2, <2>8, <2>9, <2>15
<1>9. QED  BY <1>1, <1>4, <1>6, <1>7, <1>8 DEF Asked

\* k bytes are behind the driver.
LEMMA GoneIs ==
  ASSUME DInv, drv.pc = "data", drv.left \in Nat, NEW k \in Nat, k >= 1, k <= drv.left,
         drv.pos + drv.left <= drv.n * SectorBytes,
         NEW w, drv.data \o w \in Seq(Cell), drv' = Gone(k, w)
  PROVE  /\ drv' \in DriverType /\ SameRequest(drv, drv')
         /\ drv'.left = drv.left - k /\ drv'.pos = drv.pos + k /\ drv'.data = drv.data \o w
         /\ drv'.pos <= drv'.n * SectorBytes
         /\ drv.left # k => drv'.pc = "data" /\ drv'.result = drv.result
         /\ drv.left = k /\ drv.op \in ReadOps /\ BytesLeft = k =>
              drv'.pc = "idle" /\ drv'.result = "ok"
         /\ drv.left = k /\ ~(drv.op \in ReadOps /\ BytesLeft = k) =>
              drv'.pc = "wait" /\ drv'.result = drv.result
<1>1. drv \in DriverType  BY DEF DInv
<1>2. PICK x \in Nat : x = drv.left - k  OBVIOUS
<1>3. PICK y \in Nat : y = drv.pos + k  BY <1>1 DEF DriverType
<1>4. PICK z \in Seq(Cell) : z = drv.data \o w  OBVIOUS
<1>5. PICK over \in BOOLEAN : over = (drv.left = k)  OBVIOUS
<1>6. PICK done \in BOOLEAN : done = (over /\ drv.op \in ReadOps /\ BytesLeft = k)  OBVIOUS
<1>7. drv' = [drv EXCEPT !.left = x, !.pos = y, !.data = z,
                         !.pc = IF done THEN "idle" ELSE IF over THEN "wait" ELSE "data",
                         !.result = IF done THEN "ok" ELSE @]
  BY <1>2, <1>3, <1>4, <1>5, <1>6 DEF Gone
<1>8. /\ drv' \in DriverType /\ drv'.left = x /\ drv'.pos = y /\ drv'.data = z
      /\ drv'.op = drv.op /\ drv'.d = drv.d /\ drv'.l = drv.l /\ drv'.n = drv.n
      /\ drv'.r = drv.r
      /\ done => drv'.pc = "idle" /\ drv'.result = "ok"
      /\ ~done /\ over => drv'.pc = "wait" /\ drv'.result = drv.result
      /\ ~done /\ ~over => drv'.pc = "data" /\ drv'.result = drv.result
  BY <1>1, <1>7 DEF DriverType
<1>9. drv'.pos <= drv'.n * SectorBytes
  <2>1. drv.n * SectorBytes \in Nat  BY <1>1, Scale DEF DriverType
  <2>2. drv.pos \in Nat  BY <1>1 DEF DriverType
  <2>3. QED  BY <1>3, <1>8, <2>1, <2>2
<1>10. /\ drv.left # k => ~done /\ ~over
       /\ drv.left = k /\ drv.op \in ReadOps /\ BytesLeft = k => done
       /\ drv.left = k /\ ~(drv.op \in ReadOps /\ BytesLeft = k) => ~done /\ over
  BY <1>5, <1>6, Zenon
<1>11. SameRequest(drv, drv')  BY <1>8 DEF SameRequest
<1>12. QED  BY <1>2, <1>3, <1>4, <1>8, <1>9, <1>10, <1>11

\* Where the driver is within its request, in bytes.
InBlock(p, b) ==
  /\ drives[cur].io = b /\ drives[cur].end = SectorBytes * b /\ p + b <= drv.n
  /\ drv.pos = p * SectorBytes + drives[cur].index
  /\ drv.left = drives[cur].end - drives[cur].index /\ drv.left \in Nat
  /\ drv.pos + drv.left = (p + b) * SectorBytes
  /\ drv.pos + drv.left <= drv.n * SectorBytes
  /\ BytesLeft = drv.left <=> p + b = drv.n

LEMMA InBlockIs ==
  ASSUME DInv, drv.pc = "data", NEW p \in Nat, NEW b \in Nat,
         drives[cur].io = b, drives[cur].end = SectorBytes * b, p + b <= drv.n,
         drv.pos = p * SectorBytes + drives[cur].index,
         drv.left = drives[cur].end - drives[cur].index
  PROVE  InBlock(p, b)
<1>1. /\ drives[cur] \in DriveType /\ DriveSafe(drives[cur]) /\ Request(drv)
      /\ drv \in DriverType
  BY InHand
<1>2. PICK i \in Nat : i = drives[cur].index  BY <1>1 DEF DriveType
<1>3. PICK x \in Nat : x = p * SectorBytes  BY Scale
<1>4. PICK y \in Nat : y = SectorBytes * b  BY Scale
<1>5. PICK z \in Nat : z = drv.n * SectorBytes  BY <1>1, Scale DEF DriverType
<1>6. i <= y  BY <1>1, <1>2, <1>4 DEF DriveSafe, DriveBase
<1>7. (p + b) * SectorBytes = x + y  BY <1>3, <1>4, Scale
<1>8. drv.n \in Nat /\ p + b \in Nat  BY <1>1 DEF DriverType
<1>9. (p + b) * SectorBytes <= z /\ (p + b < drv.n => (p + b) * SectorBytes < z)
  BY <1>5, <1>8, Scale
<1>10. drv.pos = x + i /\ drv.left = y - i /\ BytesLeft = z - drv.pos
  BY <1>2, <1>3, <1>4, <1>5 DEF BytesLeft
<1>11. drv.left \in Nat /\ drv.pos + drv.left = x + y  BY <1>6, <1>10
<1>12. BytesLeft = drv.left <=> p + b = drv.n
  <2>1. CASE p + b = drv.n
    <3>1. z = x + y  BY <1>5, <1>7, <2>1
    <3>2. QED  BY <1>10, <2>1, <3>1
  <2>2. CASE p + b # drv.n
    <3>1. x + y < z  BY <1>7, <1>8, <1>9, <2>2
    <3>2. QED  BY <1>10, <2>2, <3>1
  <2>3. QED  BY <2>1, <2>2
<1>13. drv.pos + drv.left <= drv.n * SectorBytes  BY <1>5, <1>7, <1>9, <1>11
<1>14. drv.pos + drv.left = (p + b) * SectorBytes  BY <1>7, <1>11
<1>15. QED  BY <1>11, <1>12, <1>13, <1>14 DEF InBlock

\* c is a followed by b.
IsAppended(S, a, b, c) ==
  /\ c \in Seq(S) /\ Len(c) = Len(a) + Len(b)
  /\ \A i \in 1 .. Len(a) : c[i] = a[i]
  /\ \A i \in 1 .. Len(b) : c[Len(a) + i] = b[i]

LEMMA Appended ==
  ASSUME NEW S, NEW a \in Seq(S), NEW b \in Seq(S)
  PROVE  IsAppended(S, a, b, a \o b)
<1>1. a \o b \in Seq(S) /\ Len(a \o b) = Len(a) + Len(b)  OBVIOUS
<1>2. \A i \in 1 .. Len(a) : (a \o b)[i] = a[i]  OBVIOUS
<1>3. \A i \in 1 .. Len(b) : (a \o b)[Len(a) + i] = b[i]  OBVIOUS
<1>4. QED  BY <1>1, <1>2, <1>3 DEF IsAppended

\* z is the first y bytes of the sectors from l on.
Brought(z, y, m, l) ==
  z \in Seq(Cell) /\ Len(z) = y /\ \A i \in 0 .. y - 1 : z[i + 1] = ByteOf(m, l, i)

\* Bytes of the data port are the next bytes of the request.
LEMMA PortBytesAre ==
  ASSUME DInv, drv.pc = "data", drv.op \in ReadOps, NEW p \in Nat,
         ReadArmed(drv, drives[cur], disk[cur], p),
         drv.pos = p * SectorBytes + drives[cur].index,
         NEW k \in Nat, k >= 1, drives[cur].index + k <= drives[cur].end
  PROVE  Brought(drv.data \o PortBytes(k), drv.pos + k, disk[cur], drv.l)
<1>1. /\ drives[cur] \in DriveType /\ DriveSafe(drives[cur]) /\ Request(drv)
      /\ drv \in DriverType /\ Received(drv, disk[cur])
  BY InHand
<1>2. PICK s : s = drives[cur]  OBVIOUS
<1>3. PICK x \in Nat : x = s.index  BY <1>1, <1>2 DEF DriveType
<1>4. PICK z \in Nat : z = p * SectorBytes  BY Scale
<1>5. x + k <= s.end /\ s.end \in Nat  BY <1>1, <1>2, <1>3 DEF DriveType
<1>6. s.end <= BufBytes - 1 /\ BufBytes \in Nat
  <2>1. PICK y \in Nat : y = MaxMult * SectorBytes  BY Scale, SizesAre
  <2>2. s.end <= y /\ BufBytes = y + 4
    BY <1>1, <1>2, <2>1 DEF DriveSafe, DriveBase, BufBytes
  <2>3. QED  BY <1>5, <2>1, <2>2
<1>7. PICK b : b = PortBytes(k)  OBVIOUS
<1>8. b = [i \in 1 .. k |-> s.buf[x + i - 1]]  BY <1>2, <1>3, <1>7 DEF PortBytes
<1>9. s.buf \in [0 .. BufBytes - 1 -> Cell]  BY <1>1, <1>2 DEF DriveType
<1>10. ASSUME NEW i \in 1 .. k
       PROVE  s.buf[x + i - 1] \in Cell /\ b[i] = s.buf[x + i - 1]
  <2>1. x + i - 1 \in 0 .. BufBytes - 1  BY <1>5, <1>6
  <2>2. QED  BY <1>8, <1>9, <2>1
<1>11. b \in Seq(Cell) /\ Len(b) = k
  <2>1. b = [i \in 1 .. k |-> s.buf[x + i - 1]]  BY <1>8
  <2>2. b \in [1 .. k -> Cell]  BY <1>10, <2>1
  <2>3. b \in Seq(Cell)  BY <2>2
  <2>4. DOMAIN b = 1 .. k  BY <2>1
  <2>5. QED  BY <2>3, <2>4
<1>12. PICK n \in Nat : n = drv.pos  BY <1>1 DEF DriverType
<1>16. PICK a : a = drv.data /\ a \in Seq(Cell) /\ Len(a) = n
  BY <1>1, <1>12 DEF DriverType, Received
<1>13. PICK c : c = a \o b  OBVIOUS
<1>17. /\ c \in Seq(Cell) /\ Len(c) = n + k
       /\ \A i \in 1 .. n : c[i] = a[i]
       /\ \A i \in 1 .. k : c[n + i] = b[i]
  <2>1. a \in Seq(Cell) /\ b \in Seq(Cell)  BY <1>11, <1>16
  <2>2. IsAppended(Cell, a, b, a \o b)  BY <2>1, Appended, Zenon
  <2>3. IsAppended(Cell, a, b, c)  BY <1>13, <2>2, Zenon
  <2>4. Len(a) = n /\ Len(b) = k  BY <1>11, <1>16
  <2>5. QED  BY <2>3, <2>4 DEF IsAppended
<1>14. ASSUME NEW i \in 0 .. n + k - 1
       PROVE  c[i + 1] = ByteOf(disk[cur], drv.l, i)
  <2>1. CASE i < n
    <3>1. i + 1 \in 1 .. n  BY <2>1
    <3>2. i \in 0 .. drv.pos - 1  BY <1>12, <2>1
    <3>3. a[i + 1] = ByteOf(disk[cur], drv.l, i)  BY <1>1, <1>16, <3>2 DEF Received
    <3>4. QED  BY <1>17, <3>1, <3>3
  <2>2. CASE i >= n
    <3>1. PICK j \in 0 .. k - 1 : i = n + j  BY <2>2
    <3>2. j + 1 \in 1 .. k  OBVIOUS
    <3>3. c[i + 1] = b[j + 1]
      <4>1. i + 1 = n + (j + 1)  BY <3>1
      <4>2. QED  BY <1>17, <3>2, <4>1
    <3>4. b[j + 1] = s.buf[x + j]
      <4>1. x + (j + 1) - 1 = x + j  OBVIOUS
      <4>2. QED  BY <1>10, <3>2, <4>1
    <3>5. x + j \in 0 .. s.end - 1  BY <1>5
    <3>6. s.buf[x + j] = ByteOf(disk[cur], drv.l + p, x + j)
      BY <1>2, <3>5 DEF ReadArmed
    <3>7. PICK q \in Nat : q = x + j  OBVIOUS
    <3>8. n = z + x  BY <1>2, <1>3, <1>4, <1>12
    <3>9. i = z + q  BY <3>1, <3>7, <3>8
    <3>10. /\ (p * SectorBytes + q) \div SectorBytes = p + (q \div SectorBytes)
           /\ (p * SectorBytes + q) % SectorBytes = q % SectorBytes
      BY ByteShift
    <3>11. i \div SectorBytes = p + (q \div SectorBytes) /\ i % SectorBytes = q % SectorBytes
      BY <1>4, <3>9, <3>10
    <3>12. PICK y \in Nat : y = q \div SectorBytes  BY SizesAre
    <3>13. drv.l + (p + y) = drv.l + p + y  BY <1>1 DEF DriverType
    <3>14. ByteOf(disk[cur], drv.l + p, q) = ByteOf(disk[cur], drv.l, i)
      BY <3>11, <3>12, <3>13 DEF ByteOf
    <3>15. QED  BY <3>3, <3>4, <3>6, <3>7, <3>14
  <2>3. QED  BY <2>1, <2>2
<1>15. Brought(c, n + k, disk[cur], drv.l)  BY <1>14, <1>17 DEF Brought
<1>18. QED  BY <1>7, <1>12, <1>13, <1>15, <1>16, Zenon

LEMMA MoveInHolds ==
  ASSUME DInv, IInv', drv.pc = "data", drv.op \in ReadOps, NEW k \in Nat, MovesIn(k)
  PROVE  /\ DInv' /\ disk' = disk /\ SameRequest(drv, drv')
         /\ \/ drv'.pc \in {"data", "wait"} /\ drv'.result = drv.result
            \/ /\ drv'.pc = "idle" /\ drv'.result = "ok"
               /\ drv'.pos = drv'.n * SectorBytes /\ Received(drv', disk[cur])
<1>1. /\ Request(drv) /\ drv \in DriverType /\ cur = drv.d /\ cur \in Drive
      /\ drives[cur] \in DriveType /\ DriveSafe(drives[cur]) /\ disk[cur] \in Medium
      /\ Received(drv, disk[cur]) /\ Moving(drv, drives[cur], disk[cur])
  BY InHand DEF Place
<1>2. PICK p \in Nat : /\ ReadArmed(drv, drives[cur], disk[cur], p)
                       /\ drv.pos = p * SectorBytes + drives[cur].index
                       /\ drv.left = drives[cur].end - drives[cur].index
  BY <1>1 DEF Moving, Armed
<1>3. PICK b \in Nat : b = drives[cur].io  BY <1>1, SizesAre DEF DriveType
<1>4. drives[cur].end = SectorBytes * b /\ p + b <= drv.n
  BY <1>1, <1>2, <1>3, SizesAre DEF ReadArmed, RegsAt, Request
<1>5. InBlock(p, b)  BY <1>2, <1>3, <1>4, InBlockIs
<1>6. k >= 1 /\ k <= drv.left /\ drv' = Gone(k, PortBytes(k))  BY DEF MovesIn
<1>7. PICK i \in Nat : i = drives[cur].index  BY <1>1 DEF DriveType
<1>8. PICK e \in Nat : e = drives[cur].end  BY <1>1 DEF DriveType
<1>9. i + k <= e /\ (i + k = e <=> drv.left = k)  BY <1>2, <1>6, <1>7, <1>8
<1>10. PICK o \in Moved(drives[cur], disk[cur], k) : Came(o)
  BY DEF MovesIn, Apply, Came
<1>11. ReadOutcome(drv, drives[cur], disk[cur], p, k, o)
  BY <1>1, <1>2, <1>6, <1>7, <1>8, <1>9, <1>10, ReadMoved
<1>12. /\ drives'[cur] = o.s /\ disk'[cur] = disk[cur]
       /\ \A d \in Drive : drives'[d].mult = MaxMult
       /\ cur' = cur /\ control' = control /\ (irq' => irq \/ o.raised)
  BY <1>1, <1>10, <1>11, CameTo DEF ReadOutcome
<1>13. disk' = disk
  <2>1. disk \in [Drive -> Medium]  BY DEF DInv, IInv, TypeOK
  <2>2. disk' = [disk EXCEPT ![cur] = disk[cur]]  BY <1>10, <1>11 DEF Came, ReadOutcome
  <2>3. QED  BY <2>1, <2>2
<1>14. Brought(drv.data \o PortBytes(k), drv.pos + k, disk[cur], drv.l)
  BY <1>2, <1>6, <1>7, <1>8, <1>9, PortBytesAre
<1>15. /\ drv' \in DriverType /\ SameRequest(drv, drv')
       /\ drv'.left = drv.left - k /\ drv'.pos = drv.pos + k
       /\ drv'.data = drv.data \o PortBytes(k)
       /\ drv'.pos <= drv'.n * SectorBytes
       /\ drv.left # k => drv'.pc = "data" /\ drv'.result = drv.result
       /\ drv.left = k /\ drv.op \in ReadOps /\ BytesLeft = k =>
            drv'.pc = "idle" /\ drv'.result = "ok"
       /\ drv.left = k /\ ~(drv.op \in ReadOps /\ BytesLeft = k) =>
            drv'.pc = "wait" /\ drv'.result = drv.result
  <2>1. drv.data \o PortBytes(k) \in Seq(Cell)  BY <1>14, Zenon DEF Brought
  <2>2. QED  BY <1>5, <1>6, <2>1, GoneIs DEF InBlock
<1>16. drv'.op = drv.op /\ drv'.d = drv.d /\ drv'.l = drv.l /\ drv'.n = drv.n
       /\ drv'.r = drv.r
  BY <1>15 DEF SameRequest
<1>17. Received(drv', disk[cur])
  <2>1. drv.op \notin WriteOps  BY DEF ReadOps, WriteOps
  <2>2. Brought(drv'.data, drv'.pos, disk[cur], drv'.l)  BY <1>14, <1>15, <1>16, Zenon
  <2>3. QED  BY <1>16, <2>1, <2>2, Zenon DEF Received, Brought
<1>18. /\ control' = [srst |-> FALSE, nien |-> FALSE] /\ (irq' => o.raised)
  BY <1>12 DEF DInv
<1>19. cur' = drv'.d /\ Received(drv', disk'[drv'.d])  BY <1>1, <1>12, <1>16, <1>17
<1>20. drv'.result = drv.result => Request(drv')  BY <1>1, <1>16 DEF Request
<1>21. ASSUME drv'.pc \in {"data", "wait"}, drv'.result = drv.result,
              Place(drv', o.s, disk[cur]), o.raised => drv'.pc = "wait"
       PROVE  DInv'
  <2>1. Place(drv, drives[drv.d], disk[drv.d])'
    <3>1. Place(drv', drives'[drv'.d], disk'[drv'.d])  BY <1>1, <1>12, <1>16, <1>21
    <3>2. QED  BY <3>1
  <2>2. Request(drv)' /\ Received(drv, disk[drv.d])'  BY <1>19, <1>20, <1>21
  <2>3. irq' => drv'.pc = "wait"  BY <1>18, <1>21
  <2>4. control' = [srst |-> drv'.pc = "reset", nien |-> FALSE]  BY <1>18, <1>21
  <2>5. QED
    BY <1>12, <1>15, <1>19, <1>21, <2>1, <2>2, <2>3, <2>4 DEF DInv
<1>22. CASE MoreToRead(drv, drives[cur], disk[cur], p, k, o)
  <2>1. /\ i + k < e /\ ~o.raised /\ ReadArmed(drv, o.s, disk[cur], p)
        /\ o.s.index = i + k /\ o.s.end = e
    BY <1>7, <1>8, <1>22 DEF MoreToRead
  <2>2. drv'.pc = "data" /\ drv'.result = drv.result  BY <1>9, <1>15, <2>1
  <2>3. ReadArmed(drv', o.s, disk[cur], p)  BY <1>15, <2>1, SamePlaces
  <2>4. Armed(drv', o.s, disk[cur], p)
    BY <1>16, <2>3 DEF Armed, ReadOps, WriteOps
  <2>5. PICK z \in Nat : z = p * SectorBytes  BY Scale
  <2>6. drv'.pos = p * SectorBytes + o.s.index  BY <1>2, <1>7, <1>15, <2>1, <2>5
  <2>7. drv'.left = o.s.end - o.s.index /\ drv'.left > 0
    BY <1>2, <1>7, <1>8, <1>15, <2>1
  <2>8. Moving(drv', o.s, disk[cur])  BY <2>4, <2>6, <2>7 DEF Moving
  <2>9. Place(drv', o.s, disk[cur])  BY <2>2, <2>8 DEF Place
  <2>10. DInv'  BY <1>21, <2>1, <2>2, <2>9
  <2>11. QED  BY <1>13, <1>15, <2>2, <2>10
<1>23. CASE AllRead(drv, drives[cur], p, k, o)
  <2>1. i + k = e /\ p + b = drv.n /\ ~o.raised  BY <1>3, <1>7, <1>8, <1>23 DEF AllRead
  <2>2. drv.left = k /\ BytesLeft = k  BY <1>5, <1>9, <2>1 DEF InBlock
  <2>3. drv'.pc = "idle" /\ drv'.result = "ok"  BY <1>15, <2>2
  <2>4. drv'.pos = drv'.n * SectorBytes  BY <1>5, <1>15, <1>16, <2>1, <2>2 DEF InBlock
  <2>5. ~irq' /\ ~Active'  BY <1>18, <2>1, <2>3 DEF Active
  <2>6. DInv'  BY <1>12, <1>15, <1>18, <2>3, <2>5 DEF DInv
  <2>7. QED  BY <1>13, <1>15, <1>17, <2>3, <2>4, <2>6
<1>24. CASE NextToRead(drv, drives[cur], disk[cur], p, k, o)
  <2>1. /\ i + k = e /\ p + b < drv.n
        /\ Failed(drv, o.s) \/ (ReadArmed(drv, o.s, disk[cur], p + b) /\ o.s.index = 0)
    BY <1>3, <1>7, <1>8, <1>24 DEF NextToRead
  <2>2. drv.left = k /\ BytesLeft # k
    <3>1. drv.left = k  BY <1>9, <2>1
    <3>2. drv.n \in Nat  BY <1>1 DEF DriverType
    <3>3. p + b # drv.n  BY <2>1, <3>2
    <3>4. QED  BY <1>5, <3>1, <3>3 DEF InBlock
  <2>3. drv'.pc = "wait" /\ drv'.result = drv.result  BY <1>15, <2>2
  <2>4. Asked(drv', o.s, disk[cur])
    <3>1. CASE Failed(drv, o.s)
      <4>1. Failed(drv', o.s)  BY <1>15, <3>1, SamePlaces
      <4>2. QED  BY <4>1 DEF Asked
    <3>2. CASE ReadArmed(drv, o.s, disk[cur], p + b) /\ o.s.index = 0
      <4>1. ReadArmed(drv', o.s, disk[cur], p + b)  BY <1>15, <3>2, SamePlaces
      <4>2. Armed(drv', o.s, disk[cur], p + b)
        BY <1>16, <4>1 DEF Armed, ReadOps, WriteOps
      <4>3. drv'.pos = (p + b) * SectorBytes  BY <1>5, <1>15, <2>2 DEF InBlock
      <4>4. p + b \in Nat  OBVIOUS
      <4>5. Ready(drv', o.s, disk[cur])  BY <3>2, <4>2, <4>3, <4>4 DEF Ready
      <4>6. QED  BY <4>5 DEF Asked
    <3>3. QED  BY <2>1, <3>1, <3>2
  <2>5. Place(drv', o.s, disk[cur])  BY <2>3, <2>4 DEF Place
  <2>6. DInv'  BY <1>21, <2>3, <2>5
  <2>7. QED  BY <1>13, <1>15, <2>3, <2>6
<1>25. QED  BY <1>11, <1>22, <1>23, <1>24 DEF ReadOutcome

\* A write stores the block at p, or leaves the medium and the registers alone.
LEMMA MoveOutHolds ==
  ASSUME DInv, IInv', drv.pc = "data", drv.op \in WriteOps, NEW k \in Nat, MovesOut(k)
  PROVE  /\ DInv' /\ SameRequest(drv, drv')
         /\ drv'.pc \in {"data", "wait"} /\ drv'.result = drv.result /\ drv'.data = drv.data
         /\ \E p \in Nat :
              /\ p < drv.n /\ RegsAt(drv, drives[cur], p)
              /\ \/ disk' = disk /\ RegsAt(drv, drives'[cur], p)
                 \/ /\ disk' = [disk EXCEPT ![cur] =
                                  BlockStored(drv, disk[cur], p, BlockAt(drv, p))]
                    /\ RegsAt(drv, drives'[cur], p + BlockAt(drv, p))
                    /\ BlockAt(drv, p) \in 1 .. MaxMult /\ p + BlockAt(drv, p) <= drv.n
<1>1. /\ Request(drv) /\ drv \in DriverType /\ cur = drv.d /\ cur \in Drive
      /\ drives[cur] \in DriveType /\ DriveSafe(drives[cur]) /\ disk[cur] \in Medium
      /\ Received(drv, disk[cur]) /\ Moving(drv, drives[cur], disk[cur])
  BY InHand DEF Place
<1>2. PICK p \in Nat : /\ WriteArmed(drv, drives[cur], p)
                       /\ drv.pos = p * SectorBytes + drives[cur].index
                       /\ drv.left = drives[cur].end - drives[cur].index
  BY <1>1 DEF Moving, Armed
<1>3. PICK b \in 1 .. MaxMult : /\ b = BlockAt(drv, p) /\ b = drives[cur].io
                               /\ drives[cur].end = SectorBytes * b /\ p + b <= drv.n
  <2>1. p < drv.n /\ RegsAt(drv, drives[cur], p) /\ drives[cur].req = Mult(drv)
    BY <1>1, <1>2 DEF WriteArmed, Request
  <2>2. BlockAt(drv, p) \in 1 .. MaxMult /\ p + BlockAt(drv, p) \in 1 .. drv.n
    BY <1>1, <2>1, BlockIs
  <2>3. QED  BY <1>1, <1>2, <2>2, SizesAre DEF WriteArmed, Request
<1>4. b \in Nat /\ b >= 1 /\ drv.n \in Nat  BY <1>1, <1>3, SizesAre DEF DriverType
<1>5. InBlock(p, b)  BY <1>2, <1>3, <1>4, InBlockIs
<1>6. k >= 1 /\ k <= drv.left /\ drv' = Gone(k, <<>>)  BY DEF MovesOut
<1>7. PICK i \in Nat : i = drives[cur].index  BY <1>1 DEF DriveType
<1>8. PICK e \in Nat : e = drives[cur].end  BY <1>1 DEF DriveType
<1>9. i + k <= e /\ (i + k = e <=> drv.left = k)  BY <1>2, <1>6, <1>7, <1>8
<1>10. PICK o \in Moved(Put(drives[cur], NewBytes(k), k), disk[cur], k) : Came(o)
  BY DEF MovesOut, Apply, Came
<1>11. NewBytes(k) \in [0 .. k - 1 -> Cell]  BY <1>6, NewBytesType
<1>12. \A j \in 0 .. k - 1 :
          NewBytes(k)[j] = NewByte(drv.r, drv.d, p * SectorBytes + drives[cur].index + j)
  BY <1>2 DEF NewBytes
<1>13. WriteOutcome(drv, drives[cur], disk[cur], p, k, o)
  <2>1. PICK w : w = NewBytes(k)  OBVIOUS
  <2>2. drives[cur].index + k <= drives[cur].end  BY <1>7, <1>8, <1>9
  <2>3. o \in Moved(Put(drives[cur], w, k), disk[cur], k)  BY <1>10, <2>1
  <2>4. QED  BY <1>1, <1>2, <1>6, <1>11, <1>12, <2>1, <2>2, <2>3, WriteMoved
<1>14. o.s.mult = drives[cur].mult
  BY <1>13 DEF WriteOutcome, MoreToWrite, StoreOutcome
<1>15. /\ drives'[cur] = o.s /\ disk'[cur] = o.m
       /\ \A d \in Drive : drives'[d].mult = MaxMult
       /\ cur' = cur /\ control' = control /\ (irq' => irq \/ o.raised)
  BY <1>1, <1>10, <1>14, CameTo
<1>16. o.m = disk[cur] => disk' = disk
  <2>1. disk \in [Drive -> Medium]  BY DEF DInv, IInv, TypeOK
  <2>2. disk' = [disk EXCEPT ![cur] = o.m]  BY <1>10 DEF Came
  <2>3. QED  BY <2>1, <2>2
<1>17. drv.data = <<>> /\ drv.data \o <<>> = <<>> /\ <<>> \in Seq(Cell)
  BY <1>1 DEF Received
<1>18. /\ drv' \in DriverType /\ SameRequest(drv, drv')
       /\ drv'.left = drv.left - k /\ drv'.pos = drv.pos + k /\ drv'.data = <<>>
       /\ drv'.pos <= drv'.n * SectorBytes
       /\ drv.left # k => drv'.pc = "data" /\ drv'.result = drv.result
       /\ drv.left = k => drv'.pc = "wait" /\ drv'.result = drv.result
  <2>1. drv.data \o <<>> \in Seq(Cell)  BY <1>17
  <2>2. drv.op \notin ReadOps  BY DEF ReadOps, WriteOps
  <2>3. QED  BY <1>5, <1>6, <1>17, <2>1, <2>2, GoneIs DEF InBlock
<1>19. /\ drv'.op = drv.op /\ drv'.d = drv.d /\ drv'.l = drv.l /\ drv'.n = drv.n
       /\ drv'.r = drv.r /\ drv'.result = drv.result /\ drv'.pc \in {"data", "wait"}
  BY <1>18 DEF SameRequest
<1>20. ASSUME Place(drv', o.s, o.m), o.raised => drv'.pc = "wait"
       PROVE  DInv'
  <2>1. Place(drv, drives[drv.d], disk[drv.d])'
    <3>1. Place(drv', drives'[drv'.d], disk'[drv'.d])  BY <1>1, <1>15, <1>19, <1>20
    <3>2. QED  BY <3>1
  <2>2. Request(drv)'  BY <1>1, <1>19 DEF Request
  <2>3. Received(drv, disk[drv.d])'
    <3>1. drv.op \notin ReadOps  BY DEF ReadOps, WriteOps
    <3>2. QED  BY <1>18, <1>19, <3>1 DEF Received
  <2>4. irq' => drv'.pc = "wait"
    <3>1. ~irq  BY DEF DInv
    <3>2. QED  BY <1>15, <1>20, <3>1
  <2>5. control' = [srst |-> drv'.pc = "reset", nien |-> FALSE]
    <3>1. control = [srst |-> FALSE, nien |-> FALSE]  BY DEF DInv
    <3>2. QED  BY <1>15, <1>19, <3>1
  <2>6. cur' = drv'.d  BY <1>1, <1>15, <1>19
  <2>7. QED
    BY <1>15, <1>18, <1>19, <2>1, <2>2, <2>3, <2>4, <2>5, <2>6 DEF DInv
<1>21. p < drv.n /\ RegsAt(drv, drives[cur], p)  BY <1>1, <1>2 DEF WriteArmed, Request
<1>22. CASE MoreToWrite(drv, drives[cur], disk[cur], p, k, o)
  <2>1. /\ i + k < e /\ ~o.raised /\ WriteArmed(drv, o.s, p) /\ o.m = disk[cur]
        /\ o.s.index = i + k /\ o.s.end = e
    BY <1>7, <1>8, <1>22 DEF MoreToWrite
  <2>2. drv'.pc = "data"  BY <1>9, <1>18, <2>1
  <2>3. WriteArmed(drv', o.s, p)  BY <1>18, <2>1, SamePlaces
  <2>4. Armed(drv', o.s, disk[cur], p)
    BY <1>19, <2>3 DEF Armed, ReadOps, WriteOps
  <2>5. PICK z \in Nat : z = p * SectorBytes  BY Scale
  <2>6. drv'.pos = p * SectorBytes + o.s.index  BY <1>2, <1>7, <1>18, <2>1, <2>5
  <2>7. drv'.left = o.s.end - o.s.index /\ drv'.left > 0
    BY <1>2, <1>7, <1>8, <1>18, <2>1
  <2>8. Moving(drv', o.s, disk[cur])  BY <2>4, <2>6, <2>7 DEF Moving
  <2>9. Place(drv', o.s, o.m)  BY <2>1, <2>2, <2>8 DEF Place
  <2>10. DInv'  BY <1>20, <2>1, <2>9
  <2>11. RegsAt(drv, drives'[cur], p)  BY <1>15, <2>1 DEF WriteArmed
  <2>12. QED  BY <1>16, <1>17, <1>18, <1>19, <1>21, <2>1, <2>10, <2>11
<1>23. CASE drives[cur].index + k = drives[cur].end
            /\ StoreOutcome(drv, drives[cur], disk[cur], p, o)
  <2>1. drv.left = k /\ drv'.pc = "wait"  BY <1>7, <1>8, <1>9, <1>18, <1>23
  <2>2. drv'.pos = (p + b) * SectorBytes  BY <1>5, <1>18, <2>1 DEF InBlock
  <2>3. ASSUME Asked(drv', o.s, o.m) PROVE DInv'
    <3>1. Place(drv', o.s, o.m)  BY <2>1, <2>3 DEF Place
    <3>2. QED  BY <1>20, <2>1, <3>1
  <2>4. CASE NotStored(drv, disk[cur], p, o)
    <3>1. /\ o.m = disk[cur] /\ o.s.status = {"READY", "ERR"} /\ RegsAt(drv, o.s, p)
      BY <2>4 DEF NotStored
    <3>2. RegsAt(drv', o.s, p)  BY <1>18, <3>1, SamePlaces
    <3>3. Asked(drv', o.s, o.m)  BY <3>1, <3>2 DEF Asked, Failed
    <3>4. QED  BY <1>15, <1>16, <1>17, <1>18, <1>19, <1>21, <2>3, <3>1, <3>3
  <2>5. ASSUME o.m = BlockStored(drv, disk[cur], p, b), RegsAt(drv, o.s, p + b), DInv'
        PROVE  /\ disk' = [disk EXCEPT ![cur] =
                             BlockStored(drv, disk[cur], p, BlockAt(drv, p))]
               /\ RegsAt(drv, drives'[cur], p + BlockAt(drv, p))
               /\ BlockAt(drv, p) \in 1 .. MaxMult /\ p + BlockAt(drv, p) <= drv.n
    <3>1. disk' = [disk EXCEPT ![cur] = o.m]  BY <1>10 DEF Came
    <3>2. QED  BY <1>3, <1>15, <2>5, <3>1
  <2>6. CASE /\ o.m = BlockStored(drv, disk[cur], p, b)
             /\ NextToWrite(drv, p, b, o)
    <3>1. WriteArmed(drv, o.s, p + b) /\ o.s.index = 0  BY <2>6 DEF NextToWrite
    <3>2. WriteArmed(drv', o.s, p + b)  BY <1>18, <3>1, SamePlaces
    <3>3. Armed(drv', o.s, o.m, p + b)
      BY <1>19, <3>2 DEF Armed, ReadOps, WriteOps
    <3>4. p + b \in Nat  BY <1>4
    <3>5. Ready(drv', o.s, o.m)  BY <2>2, <3>1, <3>3, <3>4 DEF Ready
    <3>6. DInv'  BY <2>3, <3>5 DEF Asked
    <3>7. RegsAt(drv, o.s, p + b)  BY <3>1 DEF WriteArmed
    <3>8. QED  BY <1>17, <1>18, <1>19, <1>21, <2>5, <2>6, <3>6, <3>7
  <2>7. CASE /\ o.m = BlockStored(drv, disk[cur], p, b)
             /\ AllWritten(drv, p, b, o)
    <3>1. p + b = drv.n /\ RegsAt(drv, o.s, drv.n) /\ o.s.status = {"READY", "SEEK"}
      BY <2>7 DEF AllWritten
    <3>2. RegsAt(drv', o.s, drv'.n)  BY <1>18, <1>19, <3>1, SamePlaces
    <3>3. drv'.pos = drv'.n * SectorBytes  BY <1>19, <2>2, <3>1
    <3>4. Stored(drv', o.s)  BY <1>19, <3>1, <3>2, <3>3 DEF Stored
    <3>5. DInv'  BY <2>3, <3>4 DEF Asked
    <3>6. RegsAt(drv, o.s, p + b)  BY <3>1
    <3>7. QED  BY <1>17, <1>18, <1>19, <1>21, <2>5, <2>7, <3>5, <3>6
  <2>8. QED  BY <1>3, <1>23, <2>4, <2>6, <2>7 DEF StoreOutcome
<1>24. QED  BY <1>13, <1>22, <1>23 DEF WriteOutcome

\* Both edges of SRST leave the block size of WIN_SETMULT alone.
LEMMA ResetKeepsMult ==
  ASSUME DInv, NEW srst \in BOOLEAN, DeviceControl(srst, FALSE)
  PROVE  /\ \A d \in Drive : drives'[d].mult = MaxMult
         /\ control' = [srst |-> srst, nien |-> FALSE] /\ irq' = irq /\ disk' = disk
<1>1. drives \in [Drive -> DriveType] /\ \A d \in Drive : drives[d].mult = MaxMult
  BY DEF DInv, IInv, TypeOK
<1>2. control' = [srst |-> srst, nien |-> FALSE] /\ irq' = irq /\ disk' = disk
  BY DEF DeviceControl
<1>3. ASSUME NEW d \in Drive PROVE drives'[d].mult = MaxMult
  <2>1. drives[d] \in DriveType /\ drives[d].mult = MaxMult  BY <1>1
  <2>2. CASE ~control.srst /\ srst
    <3>1. drives'[d] = [drives[d] EXCEPT !.status = {"BUSY", "SEEK"}, !.error = "diag"]
      BY <2>2 DEF DeviceControl
    <3>2. QED  BY <2>1, <3>1 DEF DriveType
  <2>3. CASE control.srst /\ ~srst
    <3>1. drives'[d] = SetSignature([drives[d] EXCEPT !.status = {"READY", "SEEK"}])
      BY <2>3 DEF DeviceControl
    <3>2. QED  BY <2>1, <3>1 DEF DriveType, SetSignature
  <2>4. CASE ~(~control.srst /\ srst) /\ ~(control.srst /\ ~srst)
    BY <2>1, <2>4 DEF DeviceControl
  <2>5. QED  BY <2>2, <2>3, <2>4
<1>4. QED  BY <1>2, <1>3

LEMMA ResetHolds ==
  ASSUME DInv, IInv', GiveUp \/ Release \/ Settle
  PROVE  DInv' /\ disk' = disk /\ ~Active'
<1>1. drv \in DriverType /\ drv.pos <= drv.n * SectorBytes  BY DEF DInv
<1>2. CASE GiveUp
  <2>1. /\ DeviceControl(TRUE, FALSE) /\ drv.resets < Resets
        /\ drv' = [drv EXCEPT !.pc = "reset", !.result = "error", !.resets = drv.resets + 1]
    BY <1>2 DEF GiveUp
  <2>2. PICK x \in 0 .. Resets : x = drv.resets + 1
    BY <1>1, <2>1, DriverSizes DEF DriverType
  <2>3. drv' = [drv EXCEPT !.pc = "reset", !.result = "error", !.resets = x]
    BY <2>1, <2>2
  <2>4. /\ drv' \in DriverType /\ drv'.pc = "reset" /\ drv'.pos = drv.pos /\ drv'.n = drv.n
    BY <1>1, <2>3 DEF DriverType
  <2>5. /\ \A d \in Drive : drives'[d].mult = MaxMult
        /\ control' = [srst |-> TRUE, nien |-> FALSE] /\ disk' = disk
    BY <2>1, ResetKeepsMult
  <2>6. ~Active'  BY <2>4 DEF Active
  <2>7. QED  BY <1>1, <2>4, <2>5, <2>6 DEF DInv
<1>3. CASE Release
  <2>1. DeviceControl(FALSE, FALSE) /\ drv' = [drv EXCEPT !.pc = "settle"]
    BY <1>3 DEF Release
  <2>2. drv' \in DriverType /\ drv'.pc = "settle" /\ drv'.pos <= drv'.n * SectorBytes
    BY <2>1, PcStep
  <2>3. /\ \A d \in Drive : drives'[d].mult = MaxMult
        /\ control' = [srst |-> FALSE, nien |-> FALSE] /\ disk' = disk
    BY <2>1, ResetKeepsMult
  <2>4. ~Active'  BY <2>2 DEF Active
  <2>5. QED  BY <2>2, <2>3, <2>4 DEF DInv
<1>4. CASE Settle
  <2>1. /\ ReadStatus /\ drv' = [drv EXCEPT !.pc = "idle"] /\ drv.pc = "settle"
    BY <1>4 DEF Settle
  <2>2. drv' \in DriverType /\ drv'.pc = "idle" /\ drv'.pos <= drv'.n * SectorBytes
    BY <2>1, PcStep
  <2>3. ~irq' /\ UNCHANGED <<drives, cur, control, disk>>  BY <2>1 DEF ReadStatus
  <2>4. control' = [srst |-> FALSE, nien |-> FALSE]  BY <2>1, <2>3 DEF DInv
  <2>5. ~Active'  BY <2>2 DEF Active
  <2>6. QED  BY <2>2, <2>3, <2>4, <2>5 DEF DInv
<1>5. QED  BY <1>2, <1>3, <1>4

-------------------------------------------------------------------------------
(* The invariant holds. *)

LEMMA DriverInitHolds == DriverInit => DInv
<1> SUFFICES ASSUME DriverInit PROVE DInv  OBVIOUS
<1>1. Init /\ drv = [pc |-> "idle", op |-> "READ", d |-> 0, l |-> 0, n |-> 0, r |-> 0,
                     resets |-> 0, pos |-> 0, left |-> 0, data |-> <<>>, result |-> "none"]
  BY DEF DriverInit
<1>2. IInv  BY <1>1, InitHolds
<1>3. /\ control = [srst |-> FALSE, nien |-> FALSE] /\ irq = FALSE
      /\ \A d \in Drive : drives[d].mult = MaxMult
  BY <1>1 DEF Init, InitDrive
<1>4. drv \in DriverType
  <2>1. 0 \in 0 .. Requests /\ 0 \in 0 .. Resets  BY DriverSizes
  <2>2. <<>> \in Seq(Cell)  OBVIOUS
  <2>3. QED  BY <1>1, <2>1, <2>2 DEF DriverType, ReadOps, WriteOps
<1>5. drv.pos <= drv.n * SectorBytes  BY <1>1, Scale
<1>6. drv.pc = "idle" /\ ~Active  BY <1>1 DEF Active
<1>7. QED  BY <1>2, <1>3, <1>4, <1>5, <1>6 DEF DInv

LEMMA DriverNextHolds ==
  ASSUME DInv, [DriverNext]_allVars
  PROVE  DInv'
<1>1. IInv'  BY ChannelStep
<1>2. CASE UNCHANGED allVars
  <2>1. /\ drv' = drv /\ drives' = drives /\ cur' = cur /\ control' = control
        /\ irq' = irq /\ disk' = disk
    BY <1>2 DEF allVars
  <2>2. QED  BY <1>1, <2>1 DEF DInv, Active
<1>3. CASE \E op \in ReadOps \cup WriteOps, d \in Drive, l \in 0 .. Sectors - 1, n \in 1 .. NMod :
              BeginRequest(op, d, l, n)
  BY <1>1, <1>3, BeginHolds
<1>4. CASE GiveUp \/ Release \/ Settle  BY <1>1, <1>4, ResetHolds
<1>5. CASE Select  BY <1>1, <1>5, SelectHolds
<1>6. CASE Count  BY <1>1, <1>6, CountHolds
<1>7. CASE Command  BY <1>1, <1>7, CommandHolds
<1>8. CASE Interrupt \/ Poll  BY <1>1, <1>8, JudgeHolds DEF Interrupt, Poll
<1>9. CASE MoveIn
  <2>1. drv.pc = "data" /\ drv.op \in ReadOps  BY <1>9 DEF MoveIn
  <2>2. PICK k \in Nat : MovesIn(k)  BY <1>9, MoveInIs
  <2>3. QED  BY <1>1, <2>1, <2>2, MoveInHolds
<1>10. CASE MoveOut
  <2>1. drv.pc = "data" /\ drv.op \in WriteOps  BY <1>10 DEF MoveOut
  <2>2. PICK k \in Nat : MovesOut(k)  BY <1>10, MoveOutIs
  <2>3. QED  BY <1>1, <2>1, <2>2, MoveOutHolds
<1>11. QED
  BY <1>2, <1>3, <1>4, <1>5, <1>6, <1>7, <1>8, <1>9, <1>10 DEF DriverNext, Proceed

\* Wherever a command is under way, the registers stand at a sector of it.
LEMMA Stands ==
  ASSUME DInv, Issued
  PROVE  /\ drv.d \in Drive /\ Request(drv)
         /\ \E p \in Nat : RegsAt(drv, drives[drv.d], p)
<1>1. drv.pc \in {"poll", "wait", "data"}  BY DEF Issued
<1>2. /\ Request(drv) /\ cur = drv.d /\ cur \in Drive /\ drives[cur] \in DriveType
      /\ drv \in DriverType /\ Place(drv, drives[cur], disk[cur])
  BY <1>1, InHand
<1>3. PICK s : s = drives[cur]  OBVIOUS
<1>4. ASSUME NEW p \in Nat, Armed(drv, s, disk[cur], p)
      PROVE  \E q \in Nat : RegsAt(drv, s, q)
  <2>1. CASE drv.op \in ReadOps
    <3>1. RegsAt(drv, s, p + s.io)  BY <1>4, <2>1 DEF Armed, ReadArmed
    <3>2. p + s.io \in Nat  BY <1>2, <1>3, SizesAre DEF DriveType
    <3>3. QED  BY <3>1, <3>2
  <2>2. CASE drv.op \in WriteOps  BY <1>4, <2>2 DEF Armed, WriteArmed
  <2>3. QED  BY <1>2, <2>1, <2>2 DEF DriverType
<1>5. CASE drv.pc = "data"
  <2>1. Moving(drv, s, disk[cur])  BY <1>2, <1>3, <1>5 DEF Place
  <2>2. PICK p \in Nat : Armed(drv, s, disk[cur], p)  BY <2>1 DEF Moving
  <2>3. QED  BY <1>2, <1>3, <1>4, <2>2
<1>6. CASE drv.pc \in {"poll", "wait"}
  <2>1. Asked(drv, s, disk[cur])  BY <1>2, <1>3, <1>6 DEF Place
  <2>2. CASE Failed(drv, s)  BY <1>2, <1>3, <2>2 DEF Failed
  <2>3. CASE Stored(drv, s)
    <3>1. RegsAt(drv, s, drv.n) /\ drv.n \in Nat  BY <1>2, <2>3 DEF Stored, DriverType
    <3>2. QED  BY <1>2, <1>3, <3>1
  <2>4. CASE Ready(drv, s, disk[cur])
    <3>1. PICK p \in Nat : Armed(drv, s, disk[cur], p)  BY <2>4 DEF Ready
    <3>2. QED  BY <1>2, <1>3, <1>4, <3>1
  <2>5. QED  BY <2>1, <2>2, <2>3, <2>4 DEF Asked
<1>7. QED  BY <1>1, <1>5, <1>6

LEMMA ResumeHolds == DInv => Resume
<1> SUFFICES ASSUME DInv, Issued
             PROVE  (drives[drv.d].nsector - (drv.n + drv.l - drives[drv.d].lba)) % NMod = 0
  BY DEF Resume
<1>1. Request(drv)  BY Stands
<1>2. PICK p \in Nat : RegsAt(drv, drives[drv.d], p)  BY Stands
<1>3. PICK n \in 1 .. NMod : n = drv.n  BY <1>1 DEF Request
<1>4. PICK l \in Nat : l = drv.l  BY <1>1, SizesAre DEF Request
<1>5. PICK a \in 0 .. NMod : a = n - p  BY <1>2, <1>3, SizesAre DEF RegsAt
<1>6. drives[drv.d].lba = l + p /\ drives[drv.d].nsector = a % NMod
  BY <1>2, <1>3, <1>4, <1>5 DEF RegsAt
<1>7. drv.n + drv.l - drives[drv.d].lba = a  BY <1>3, <1>4, <1>5, <1>6
<1>8. PICK N \in Nat \ {0} : N = NMod  BY SizesAre
<1>9. ((a % N) - a) % N = 0
  <2>1. CASE a < N
    <3>1. a % N = a  BY <1>5, <1>8, <2>1
    <3>2. (a % N) - a = 0  BY <1>5, <1>8, <3>1
    <3>3. 0 % N = 0  BY <1>8
    <3>4. QED  BY <3>2, <3>3
  <2>2. CASE a = N
    <3>1. a % N = 0  BY <1>5, <1>8, <2>2
    <3>2. (a % N) - a = -N  BY <1>8, <2>2, <3>1
    <3>3. (-N) % N = 0  BY <1>8
    <3>4. QED  BY <3>2, <3>3
  <2>3. QED  BY <1>5, <1>8, <2>1, <2>2
<1>10. QED  BY <1>6, <1>7, <1>8, <1>9

\* Driver and channel agree on how much was moved and how much is left, in the
\* registers, in the status and in the interrupt, whatever the blocks, access
\* widths, media errors and resets: no status is a surprise and no interrupt comes
\* unasked.
THEOREM DriverInStep ==
  DriverSpec => []InStep
<1>1. DriverInit => DInv  BY DriverInitHolds
<1>2. DInv /\ [DriverNext]_allVars => DInv'  BY DriverNextHolds
<1>3. DInv => InStep
  <2> SUFFICES ASSUME DInv PROVE InStep  OBVIOUS
  <2>1. TypeOK /\ drv \in DriverType /\ drv.pos <= drv.n * SectorBytes
    BY DEF DInv, IInv
  <2>2. drv.n * SectorBytes \in Nat /\ drv.pos \in Nat  BY <2>1, Scale DEF DriverType
  <2>3. drv.pos \in 0 .. drv.n * SectorBytes  BY <2>1, <2>2
  <2>4. DriverTypeOK  BY <2>1, <2>3 DEF DriverTypeOK, DriverType
  <2>5. NeverLost  BY <2>1 DEF NeverLost, DriverType
  <2>6. NoSpuriousInterrupt  BY DEF DInv, NoSpuriousInterrupt
  <2>7. QED  BY <2>4, <2>5, <2>6, ResumeHolds DEF InStep
<1>4. QED  BY <1>1, <1>2, <1>3, PTL DEF DriverSpec

-------------------------------------------------------------------------------
(* The channel with its driver is a BlockDisk: its state, seen from a driver r *)
(* and drives ds, as the substitutions of D have it.                         *)

Pending(r) == r.pc \notin {"idle", "reset", "settle"}
AReq(r) ==
  IF Pending(r) THEN [op |-> IF r.op \in ReadOps THEN "read" ELSE "write",
                      d |-> r.d, l |-> r.l, n |-> r.n]
                ELSE [op |-> "none", d |-> 0, l |-> 0, n |-> 0]
AData(r) ==
  IF Pending(r) /\ r.op \in WriteOps
    THEN [i \in 0 .. r.n * SectorBytes - 1 |-> NewByte(r.r, r.d, i)]
    ELSE [i \in 0 .. -1 |-> 0]
AMoved(r, ds) ==
  IF r.pc \in {"poll", "wait", "data"} /\ r.op \in WriteOps
    THEN (ds[r.d].lba - r.l) % LbaMod ELSE 0
AGot(r) ==
  IF r.result = "ok" /\ r.op \in ReadOps
    THEN [i \in 0 .. Len(r.data) - 1 |-> r.data[i + 1]] ELSE [i \in 0 .. -1 |-> 0]

LEMMA NoBytes == D!Bytes(0) = 0 .. -1
<1>1. 0 * SectorBytes = 0  BY SizesAre
<1>2. QED  BY <1>1 DEF D!Bytes

LEMMA AStutter ==
  ASSUME disk' = disk, AReq(drv') = AReq(drv), AData(drv') = AData(drv),
         AMoved(drv', drives') = AMoved(drv, drives), drv'.result = drv.result,
         AGot(drv') = AGot(drv)
  PROVE  UNCHANGED D!dvars
BY DEF D!dvars, AReq, AData, AMoved, AGot, Pending, Active, Issued

LEMMA ABegin ==
  ASSUME ~Pending(drv), NEW op \in {"read", "write"}, NEW d \in Drive,
         NEW l \in 0 .. Sectors - 1, NEW n \in 1 .. Sectors, l + n <= Sectors,
         AReq(drv') = [op |-> op, d |-> d, l |-> l, n |-> n],
         AData(drv') \in [D!Bytes(IF op = "write" THEN n ELSE 0) -> Cell],
         AMoved(drv', drives') = 0, drv'.result = "none",
         AGot(drv') = [i \in 0 .. -1 |-> 0], disk' = disk
  PROVE  D!Begin
<1>1. AReq(drv) = D!NoRequest  BY DEF AReq, D!NoRequest
<1>2. AGot(drv') = [i \in D!Bytes(0) |-> 0]  BY NoBytes
<1>3. \E x \in {"read", "write"}, y \in Drive, z \in 0 .. Sectors - 1, v \in 1 .. Sectors :
         /\ z + v <= Sectors
         /\ AReq(drv') = [op |-> x, d |-> y, l |-> z, n |-> v]
         /\ AData(drv') \in [D!Bytes(IF x = "write" THEN v ELSE 0) -> Cell]
  OBVIOUS
<1>4. QED
  BY <1>1, <1>2, <1>3, Zenon
  DEF D!Begin, AReq, AData, AMoved, AGot, Pending, Active, Issued

LEMMA AStore ==
  ASSUME NEW k, AReq(drv).op = "write", AMoved(drv, drives) + k <= AReq(drv).n,
         AMoved(drv', drives') = AMoved(drv, drives) + k,
         disk' = [disk EXCEPT ![AReq(drv).d] =
           [l \in DOMAIN @ |->
              IF l \in AReq(drv).l + AMoved(drv, drives)
                       .. AReq(drv).l + AMoved(drv, drives) + k - 1
                THEN [o \in 0 .. SectorBytes - 1 |->
                        AData(drv)[(l - AReq(drv).l) * SectorBytes + o]]
                ELSE @[l]]],
         AReq(drv') = AReq(drv), AData(drv') = AData(drv), drv'.result = drv.result,
         AGot(drv') = AGot(drv)
  PROVE  D!StoreBlock(k)
BY Zenon DEF D!StoreBlock, AReq, AData, AMoved, AGot, Pending, Active, Issued

LEMMA AFinish ==
  ASSUME Pending(drv), ~Pending(drv'), drv'.result = "ok", disk' = disk,
         AReq(drv).op = "write" => AMoved(drv, drives) = AReq(drv).n,
         AGot(drv') = [i \in D!Bytes(IF AReq(drv).op = "read" THEN AReq(drv).n ELSE 0) |->
           disk[AReq(drv).d][AReq(drv).l + (i \div SectorBytes)][i % SectorBytes]]
  PROVE  D!Finish
<1>1. AReq(drv) # D!NoRequest
  <2>1. AReq(drv).op \in {"read", "write"}  BY DEF AReq
  <2>2. D!NoRequest.op = "none"  BY DEF D!NoRequest
  <2>3. QED  BY <2>1, <2>2
<1>2. AReq(drv') = D!NoRequest  BY DEF AReq, D!NoRequest
<1>3. AMoved(drv', drives') = 0  BY DEF AMoved, Pending
<1>4. AData(drv') = [i \in D!Bytes(0) |-> 0]  BY NoBytes DEF AData
<1>5. QED
  BY <1>1, <1>2, <1>3, <1>4, Zenon
  DEF D!Finish, AReq, AData, AMoved, AGot, Pending, Active, Issued

LEMMA AFail ==
  ASSUME Pending(drv), ~Pending(drv'), drv'.result = "error", disk' = disk,
         AGot(drv') = AGot(drv)
  PROVE  D!Fail
<1>1. AReq(drv) # D!NoRequest
  <2>1. AReq(drv).op \in {"read", "write"}  BY DEF AReq
  <2>2. D!NoRequest.op = "none"  BY DEF D!NoRequest
  <2>3. QED  BY <2>1, <2>2
<1>2. AReq(drv') = D!NoRequest  BY DEF AReq, D!NoRequest
<1>3. AMoved(drv', drives') = 0  BY DEF AMoved, Pending
<1>4. AData(drv') = [i \in D!Bytes(0) |-> 0]  BY NoBytes DEF AData
<1>5. QED
  BY <1>1, <1>2, <1>3, <1>4, Zenon
  DEF D!Fail, AReq, AData, AMoved, AGot, Pending, Active, Issued

\* What a write has stored is read off the address registers.
LEMMA MovedIs ==
  ASSUME NEW r, Request(r), r.pc \in {"poll", "wait", "data"}, r.op \in WriteOps,
         NEW ds, NEW p \in Nat, RegsAt(r, ds[r.d], p)
  PROVE  AMoved(r, ds) = p
<1>1. PICK l \in Nat : l = r.l  BY SizesAre DEF Request
<1>2. p < LbaMod  BY SizesAre DEF RegsAt, Request
<1>3. ds[r.d].lba - r.l = p  BY <1>1 DEF RegsAt
<1>4. p % LbaMod = p  BY <1>2, SizesAre
<1>5. QED  BY <1>3, <1>4 DEF AMoved

\* A step within a request that moves nothing to a medium.
LEMMA WithinRequest ==
  ASSUME disk' = disk, Pending(drv), Pending(drv'), SameRequest(drv, drv'),
         drv.result = "none", drv'.result = "none",
         AMoved(drv', drives') = AMoved(drv, drives)
  PROVE  UNCHANGED D!dvars
<1>1. AReq(drv') = AReq(drv)  BY DEF SameRequest, AReq
<1>2. AData(drv') = AData(drv)  BY DEF SameRequest, AData
<1>3. AGot(drv') = AGot(drv)  BY DEF AGot
<1>4. QED  BY <1>1, <1>2, <1>3, AStutter

StoredAs(r, m, p, b) ==
  [l \in DOMAIN m |->
     IF l \in r.l + p .. r.l + p + b - 1
       THEN [o \in 0 .. SectorBytes - 1 |-> AData(r)[(l - r.l) * SectorBytes + o]]
       ELSE m[l]]

LEMMA StoredIs ==
  ASSUME NEW r, Request(r), Pending(r), r.op \in WriteOps, NEW m \in Medium,
         NEW p \in Nat, NEW b \in Nat, p + b <= r.n
  PROVE  BlockStored(r, m, p, b) = StoredAs(r, m, p, b)
<1>1. ASSUME NEW x \in DOMAIN m, x \in r.l + p .. r.l + p + b - 1,
             NEW o \in 0 .. SectorBytes - 1
      PROVE  AData(r)[(x - r.l) * SectorBytes + o]
               = NewByte(r.r, r.d, (x - r.l) * SectorBytes + o)
  <2>1. PICK l \in Nat : l = r.l  BY SizesAre DEF Request
  <2>2. PICK n \in Nat : n = r.n  BY SizesAre DEF Request
  <2>3. x \in Int /\ x \in l + p .. l + p + b - 1  BY <1>1, <2>1 DEF Medium
  <2>4. PICK i \in Nat : i = x - l /\ i + 1 <= n  BY <2>2, <2>3
  <2>5. (i + 1) * SectorBytes <= n * SectorBytes /\ n * SectorBytes \in Nat
    BY <2>4, Scale
  <2>6. (i + 1) * SectorBytes = i * SectorBytes + SectorBytes /\ i * SectorBytes \in Nat
    <3>1. (i + 1) * SectorBytes = i * SectorBytes + SectorBytes * 1 /\ i * SectorBytes \in Nat
      BY Scale
    <3>2. QED  BY <3>1, SizesAre
  <2>7. i * SectorBytes + o \in 0 .. n * SectorBytes - 1
    <3>1. PICK y \in Nat : y = i * SectorBytes  BY <2>6
    <3>2. PICK z \in Nat : z = n * SectorBytes  BY <2>5
    <3>3. QED  BY <2>5, <2>6, <3>1, <3>2, SizesAre
  <2>8. PICK j \in 0 .. r.n * SectorBytes - 1 : j = (x - r.l) * SectorBytes + o
    BY <2>1, <2>2, <2>4, <2>7
  <2>9. AData(r)[j] = NewByte(r.r, r.d, j)  BY <2>8 DEF AData
  <2>10. QED  BY <2>8, <2>9
<1>2. QED  BY <1>1 DEF BlockStored, StoredAs, Offset

LEMMA DriverStepRefines ==
  ASSUME DInv, [DriverNext]_allVars
  PROVE  [D!DiskNext]_(D!dvars)
<1>0. DInv' /\ IInv'  BY DriverNextHolds, ChannelStep
<1>1. Pending(drv) => Request(drv) /\ drv.result = "none" /\ AGot(drv) = [i \in 0 .. -1 |-> 0]
  <2>1. Pending(drv) => Request(drv)  BY DEF DInv, Active, Pending
  <2>2. QED  BY <2>1 DEF Request, AGot
<1>2. drv \in DriverType  BY DEF DInv
<1>3. CASE UNCHANGED allVars
  <2>1. drv' = drv /\ drives' = drives /\ disk' = disk  BY <1>3 DEF allVars
  <2>2. QED  BY <2>1, AStutter
<1>4. ASSUME NEW op \in ReadOps \cup WriteOps, NEW d \in Drive, NEW l \in 0 .. Sectors - 1,
             NEW n \in 1 .. NMod, BeginRequest(op, d, l, n)
      PROVE  D!Begin
  <2>1. ~Pending(drv) /\ disk' = disk /\ l + n <= Sectors
    BY <1>4 DEF BeginRequest, Pending, vars
  <2>2. Request(drv')  BY <1>0, <1>4, BeginHolds
  <2>3. /\ drv'.pc = "select" /\ drv'.op = op /\ drv'.d = d /\ drv'.l = l /\ drv'.n = n
        /\ drv'.result = "none"
    BY <1>2, <1>4 DEF BeginRequest, DriverType
  <2>4. PICK a \in {"read", "write"} : a = (IF op \in ReadOps THEN "read" ELSE "write")
    OBVIOUS
  <2>5. AReq(drv') = [op |-> a, d |-> d, l |-> l, n |-> n]
    BY <2>3, <2>4 DEF AReq, Pending
  <2>6. n \in 1 .. Sectors  BY <2>1, SizesAre
  <2>7. AMoved(drv', drives') = 0 /\ AGot(drv') = [i \in 0 .. -1 |-> 0]
    BY <2>3 DEF AMoved, AGot
  <2>8. AData(drv') \in [D!Bytes(IF a = "write" THEN n ELSE 0) -> Cell]
    <3>1. CASE op \in ReadOps
      <4>1. a = "read" /\ op \notin WriteOps  BY <2>4, <3>1 DEF ReadOps, WriteOps
      <4>2. AData(drv') = [i \in 0 .. -1 |-> 0]  BY <2>3, <4>1 DEF AData
      <4>3. [i \in 0 .. -1 |-> 0] \in [0 .. -1 -> Cell]  OBVIOUS
      <4>4. QED  BY <4>1, <4>2, <4>3, NoBytes
    <3>2. CASE op \notin ReadOps
      <4>1. a = "write" /\ op \in WriteOps  BY <2>4, <3>2
      <4>2. AData(drv') = [i \in D!Bytes(n) |-> NewByte(drv'.r, d, i)]
        BY <2>3, <4>1 DEF AData, Pending, D!Bytes
      <4>3. ASSUME NEW i \in D!Bytes(n) PROVE NewByte(drv'.r, d, i) \in Cell
        <5>1. n \in Nat /\ n <= Sectors  BY <2>6, SizesAre
        <5>2. n * SectorBytes <= Sectors * SectorBytes /\ n * SectorBytes \in Nat
          BY <5>1, Scale, SizesAre
        <5>3. PICK y \in Nat : y = n * SectorBytes  BY <5>2
        <5>4. PICK z \in Nat : z = Sectors * SectorBytes  BY Scale, SizesAre
        <5>5. i \in 0 .. z - 1  BY <4>3, <5>2, <5>3, <5>4 DEF D!Bytes
        <5>6. drv'.r \in 1 .. Requests  BY <2>2 DEF Request
        <5>7. QED  BY <5>4, <5>5, <5>6, DriverSizes
      <4>4. QED  BY <4>1, <4>2, <4>3
    <3>3. QED  BY <3>1, <3>2
  <2>9. QED  BY <2>1, <2>3, <2>5, <2>6, <2>7, <2>8, ABegin
<1>5. CASE Select \/ Count
  <2>1. DInv' /\ disk' = disk  BY <1>0, <1>5, SelectHolds, CountHolds
  <2>2. PICK pc \in {"count", "command"} : drv' = [drv EXCEPT !.pc = pc]
    BY <1>5 DEF Select, Count
  <2>3. SameRequest(drv, drv') /\ drv'.pc = pc /\ drv'.result = drv.result
    BY <2>2, PcStep
  <2>4. Pending(drv) /\ Pending(drv')  BY <1>5, <2>3 DEF Select, Count, Pending
  <2>5. AMoved(drv, drives) = 0 /\ AMoved(drv', drives') = 0
    BY <1>5, <2>3 DEF Select, Count, AMoved
  <2>6. QED  BY <1>1, <2>1, <2>3, <2>4, <2>5, WithinRequest
<1>6. CASE Command
  <2>1. disk' = disk /\ (drv'.op \in WriteOps => RegsAt(drv', drives'[drv.d], 0))
    BY <1>0, <1>6, CommandHolds
  <2>2. PICK pc \in {"poll", "wait"} : drv' = [drv EXCEPT !.pc = pc]
    BY <1>6 DEF Command
  <2>3. /\ SameRequest(drv, drv') /\ drv'.pc = pc /\ drv'.result = drv.result
        /\ Request(drv) => Request(drv')
    BY <2>2, PcStep
  <2>4. Pending(drv) /\ Pending(drv')  BY <1>6, <2>3 DEF Command, Pending
  <2>5. AMoved(drv, drives) = 0  BY <1>6 DEF Command, AMoved
  <2>6. AMoved(drv', drives') = 0
    <3>1. CASE drv'.op \in WriteOps
      <4>1. drv'.d = drv.d  BY <2>3 DEF SameRequest
      <4>2. Request(drv') /\ RegsAt(drv', drives'[drv'.d], 0)
        BY <1>1, <2>1, <2>3, <2>4, <3>1, <4>1
      <4>3. QED  BY <2>2, <2>3, <3>1, <4>2, MovedIs
    <3>2. CASE drv'.op \notin WriteOps  BY <3>2 DEF AMoved
    <3>3. QED  BY <3>1, <3>2
  <2>7. QED  BY <1>1, <2>1, <2>3, <2>4, <2>5, <2>6, WithinRequest
<1>7. CASE Interrupt \/ Poll
  <2>1. /\ drv.pc \in {"wait", "poll"} /\ ReadStatus
        /\ drv' = Judge(drives[cur].status)
    BY <1>7 DEF Interrupt, Poll
  <2>2. Pending(drv) /\ cur = drv.d /\ drv.op \in ReadOps \cup WriteOps
    BY <1>2, <2>1, InHand DEF Pending, DriverType
  <2>3. /\ UNCHANGED <<drives, disk>>
        /\ \/ Ends("error")
           \/ drv'.pc = "data" /\ SameRequest(drv, drv') /\ drv'.result = drv.result
           \/ Ends("ok") /\ Stored(drv, drives[cur])
    BY <1>0, <2>1, JudgeHolds
  <2>4. CASE Ends("error")
    <3>1. drv'.pc = "idle" /\ drv'.result = "error"  BY <2>4, EndsIs
    <3>2. ~Pending(drv') /\ AGot(drv') = [i \in 0 .. -1 |-> 0]
      BY <3>1 DEF Pending, AGot
    <3>3. D!Fail  BY <1>1, <2>2, <2>3, <3>1, <3>2, AFail
    <3>4. QED  BY <3>3 DEF D!DiskNext
  <2>5. CASE drv'.pc = "data" /\ SameRequest(drv, drv') /\ drv'.result = drv.result
    <3>1. Pending(drv') /\ AMoved(drv', drives') = AMoved(drv, drives)
      BY <2>1, <2>3, <2>5 DEF Pending, AMoved, SameRequest
    <3>2. QED  BY <1>1, <2>2, <2>3, <2>5, <3>1, WithinRequest
  <2>6. CASE Ends("ok") /\ Stored(drv, drives[cur])
    <3>1. drv'.pc = "idle" /\ drv'.result = "ok" /\ drv'.op = drv.op
      BY <2>6, EndsIs
    <3>2. drv.op \in WriteOps /\ drv.op \notin ReadOps
      BY <2>6 DEF Stored, ReadOps, WriteOps
    <3>3. ~Pending(drv') /\ AGot(drv') = [i \in 0 .. -1 |-> 0]
      BY <3>1, <3>2 DEF Pending, AGot
    <3>4. AReq(drv).op = "write" /\ AReq(drv).n = drv.n
      BY <2>2, <3>2 DEF AReq
    <3>5. AMoved(drv, drives) = drv.n
      <4>1. RegsAt(drv, drives[drv.d], drv.n) /\ drv.n \in Nat
        BY <1>2, <2>2, <2>6 DEF Stored, DriverType
      <4>2. QED  BY <1>1, <2>1, <2>2, <3>2, <4>1, MovedIs
    <3>6. AGot(drv') = [i \in D!Bytes(IF AReq(drv).op = "read" THEN AReq(drv).n ELSE 0) |->
            disk[AReq(drv).d][AReq(drv).l + (i \div SectorBytes)][i % SectorBytes]]
      <4>1. AReq(drv).op # "read"  BY <3>4
      <4>2. D!Bytes(IF AReq(drv).op = "read" THEN AReq(drv).n ELSE 0) = 0 .. -1
        BY <4>1, NoBytes
      <4>3. QED  BY <3>3, <4>2
    <3>7. D!Finish  BY <2>2, <2>3, <3>1, <3>3, <3>4, <3>5, <3>6, AFinish
    <3>8. QED  BY <3>7 DEF D!DiskNext
  <2>7. QED  BY <2>3, <2>4, <2>5, <2>6
<1>8. CASE MoveIn
  <2>1. drv.pc = "data" /\ drv.op \in ReadOps  BY <1>8 DEF MoveIn
  <2>2. PICK k \in Nat : MovesIn(k)  BY <1>8, MoveInIs
  <2>3. /\ disk' = disk /\ SameRequest(drv, drv')
        /\ \/ drv'.pc \in {"data", "wait"} /\ drv'.result = drv.result
           \/ /\ drv'.pc = "idle" /\ drv'.result = "ok"
              /\ drv'.pos = drv'.n * SectorBytes /\ Received(drv', disk[cur])
    BY <1>0, <2>1, <2>2, MoveInHolds
  <2>4. /\ Pending(drv) /\ cur = drv.d /\ drv'.op = drv.op /\ drv'.l = drv.l
        /\ drv'.n = drv.n /\ drv.op \notin WriteOps
    BY <2>1, <2>3, InHand DEF Pending, SameRequest, ReadOps, WriteOps
  <2>5. CASE drv'.pc \in {"data", "wait"} /\ drv'.result = drv.result
    <3>1. Pending(drv')  BY <2>5 DEF Pending
    <3>2. AMoved(drv', drives') = 0 /\ AMoved(drv, drives) = 0  BY <2>4 DEF AMoved
    <3>3. QED  BY <1>1, <2>3, <2>4, <2>5, <3>1, <3>2, WithinRequest
  <2>6. CASE /\ drv'.pc = "idle" /\ drv'.result = "ok"
             /\ drv'.pos = drv'.n * SectorBytes /\ Received(drv', disk[cur])
    <3>1. ~Pending(drv')  BY <2>6 DEF Pending
    <3>2. AReq(drv) = [op |-> "read", d |-> drv.d, l |-> drv.l, n |-> drv.n]
      BY <2>1, <2>4 DEF AReq
    <3>3. /\ Len(drv'.data) = drv.n * SectorBytes
          /\ \A i \in 0 .. drv.n * SectorBytes - 1 :
               drv'.data[i + 1] = ByteOf(disk[cur], drv.l, i)
      BY <2>1, <2>4, <2>6 DEF Received
    <3>4. AGot(drv') = [i \in D!Bytes(drv.n) |->
            disk[drv.d][drv.l + (i \div SectorBytes)][i % SectorBytes]]
      <4>1. AGot(drv') = [i \in 0 .. drv.n * SectorBytes - 1 |-> drv'.data[i + 1]]
        BY <2>1, <2>4, <2>6, <3>3 DEF AGot
      <4>2. \A i \in 0 .. drv.n * SectorBytes - 1 :
              drv'.data[i + 1] = disk[drv.d][drv.l + (i \div SectorBytes)][i % SectorBytes]
        BY <2>4, <3>3 DEF ByteOf
      <4>3. QED  BY <4>1, <4>2 DEF D!Bytes
    <3>5. D!Finish
      <4>1. AReq(drv).op = "read" /\ AReq(drv).d = drv.d /\ AReq(drv).l = drv.l
            /\ AReq(drv).n = drv.n
        BY <3>2
      <4>2. QED  BY <2>3, <2>4, <2>6, <3>1, <3>4, <4>1, AFinish
    <3>6. QED  BY <3>5 DEF D!DiskNext
  <2>7. QED  BY <2>3, <2>5, <2>6
<1>9. CASE MoveOut
  <2>1. drv.pc = "data" /\ drv.op \in WriteOps  BY <1>9 DEF MoveOut
  <2>2. PICK k \in Nat : MovesOut(k)  BY <1>9, MoveOutIs
  <2>3. /\ SameRequest(drv, drv')
        /\ drv'.pc \in {"data", "wait"} /\ drv'.result = drv.result /\ drv'.data = drv.data
    BY <1>0, <2>1, <2>2, MoveOutHolds
  <2>4. PICK p \in Nat :
          /\ p < drv.n /\ RegsAt(drv, drives[cur], p)
          /\ \/ disk' = disk /\ RegsAt(drv, drives'[cur], p)
             \/ /\ disk' = [disk EXCEPT ![cur] =
                              BlockStored(drv, disk[cur], p, BlockAt(drv, p))]
                /\ RegsAt(drv, drives'[cur], p + BlockAt(drv, p))
                /\ BlockAt(drv, p) \in 1 .. MaxMult /\ p + BlockAt(drv, p) <= drv.n
    BY <1>0, <2>1, <2>2, MoveOutHolds
  <2>5. /\ Pending(drv) /\ Pending(drv') /\ cur = drv.d /\ drv'.d = drv.d /\ drv'.op = drv.op
        /\ drv'.l = drv.l /\ drv'.n = drv.n /\ drv.op \notin ReadOps /\ disk[cur] \in Medium
    BY <2>1, <2>3, InHand DEF Pending, SameRequest, ReadOps, WriteOps
  <2>6. Request(drv) /\ drv.result = "none"  BY <1>1, <2>5
  <2>7. Request(drv')  BY <2>3, <2>6 DEF Request, SameRequest
  <2>8. AMoved(drv, drives) = p  BY <2>1, <2>4, <2>5, <2>6, MovedIs
  <2>9. ASSUME NEW q \in Nat, RegsAt(drv, drives'[cur], q)
        PROVE  AMoved(drv', drives') = q
    <3>1. RegsAt(drv', drives'[drv'.d], q)  BY <2>3, <2>5, <2>9, SamePlaces
    <3>2. QED  BY <2>1, <2>3, <2>5, <2>7, <3>1, MovedIs
  <2>10. CASE disk' = disk /\ RegsAt(drv, drives'[cur], p)
    <3>1. AMoved(drv', drives') = p  BY <2>9, <2>10
    <3>2. QED  BY <2>3, <2>5, <2>6, <2>8, <2>10, <3>1, WithinRequest
  <2>11. CASE /\ disk' = [disk EXCEPT ![cur] =
                            BlockStored(drv, disk[cur], p, BlockAt(drv, p))]
              /\ RegsAt(drv, drives'[cur], p + BlockAt(drv, p))
              /\ BlockAt(drv, p) \in 1 .. MaxMult /\ p + BlockAt(drv, p) <= drv.n
    <3>1. PICK b \in Nat : b = BlockAt(drv, p) /\ b >= 1 /\ p + b <= drv.n
      BY <2>11, SizesAre
    <3>2. AMoved(drv', drives') = p + b  BY <2>9, <2>11, <3>1
    <3>3. AReq(drv) = [op |-> "write", d |-> drv.d, l |-> drv.l, n |-> drv.n]
      BY <2>5 DEF AReq
    <3>4. PICK f : f = BlockStored(drv, disk[cur], p, b)  OBVIOUS
    <3>5. f = StoredAs(drv, disk[cur], p, b)
      <4>1. disk[cur] \in Medium /\ Request(drv) /\ Pending(drv) /\ p + b <= drv.n
        BY <2>5, <2>6, <3>1
      <4>2. p \in Nat /\ b \in Nat  BY <2>4, <3>1
      <4>3. QED  BY <2>1, <3>4, <4>1, <4>2, StoredIs, Zenon
    <3>6. disk' = [disk EXCEPT ![drv.d] = f]  BY <2>5, <2>11, <3>1, <3>4
    <3>7. disk' = [disk EXCEPT ![drv.d] =
            [l \in DOMAIN @ |->
               IF l \in drv.l + p .. drv.l + p + b - 1
                 THEN [o \in 0 .. SectorBytes - 1 |->
                         AData(drv)[(l - drv.l) * SectorBytes + o]]
                 ELSE @[l]]]
      BY <2>5, <3>5, <3>6 DEF StoredAs
    <3>8. /\ AReq(drv).op = "write" /\ AReq(drv).d = drv.d /\ AReq(drv).l = drv.l
          /\ AReq(drv).n = drv.n
      BY <3>3
    <3>9. AReq(drv') = AReq(drv) /\ AData(drv') = AData(drv) /\ AGot(drv') = AGot(drv)
      BY <2>3, <2>5, <2>6 DEF AReq, AData, AGot, SameRequest
    <3>10. D!StoreBlock(b)
      BY <2>3, <2>8, <3>1, <3>2, <3>7, <3>8, <3>9, AStore
    <3>11. b \in 1 .. Sectors  BY <2>6, <3>1, SizesAre DEF Request
    <3>12. QED  BY <3>10, <3>11 DEF D!DiskNext
  <2>12. QED  BY <2>4, <2>10, <2>11
<1>10. CASE GiveUp
  <2>1. disk' = disk  BY <1>0, <1>10, ResetHolds
  <2>2. Pending(drv) /\ drv'.pc = "reset" /\ drv'.result = "error"
    BY <1>2, <1>10 DEF GiveUp, Pending, DriverType
  <2>3. ~Pending(drv') /\ AGot(drv') = [i \in 0 .. -1 |-> 0]  BY <2>2 DEF Pending, AGot
  <2>4. D!Fail  BY <1>1, <2>1, <2>2, <2>3, AFail
  <2>5. QED  BY <2>4 DEF D!DiskNext
<1>11. CASE Release \/ Settle
  <2>1. disk' = disk  BY <1>0, <1>11, ResetHolds
  <2>2. PICK pc \in {"settle", "idle"} : drv' = [drv EXCEPT !.pc = pc]
    BY <1>11 DEF Release, Settle
  <2>3. /\ drv'.pc = pc /\ drv'.result = drv.result /\ drv'.data = drv.data
        /\ SameRequest(drv, drv')
    BY <2>2, PcStep
  <2>4. ~Pending(drv) /\ ~Pending(drv')  BY <1>11, <2>3 DEF Release, Settle, Pending
  <2>5. AReq(drv') = AReq(drv) /\ AData(drv') = AData(drv)  BY <2>4 DEF AReq, AData
  <2>6. AMoved(drv', drives') = AMoved(drv, drives)  BY <2>4 DEF AMoved, Pending
  <2>7. AGot(drv') = AGot(drv)  BY <2>3 DEF AGot, SameRequest
  <2>8. QED  BY <2>1, <2>3, <2>5, <2>6, <2>7, AStutter
<1>12. QED
  BY <1>3, <1>4, <1>5, <1>6, <1>7, <1>8, <1>9, <1>10, <1>11
  DEF DriverNext, Proceed, D!DiskNext

LEMMA DriverInitRefines == DriverInit => D!DiskInit
<1> SUFFICES ASSUME DriverInit PROVE D!DiskInit  OBVIOUS
<1>1. /\ drv.pc = "idle" /\ drv.result = "none" /\ disk = Image
  BY DEF DriverInit, Init
<1>2. [i \in D!Bytes(0) |-> 0] = [i \in 0 .. -1 |-> 0]  BY NoBytes
<1>3. AReq(drv) = D!NoRequest /\ AMoved(drv, drives) = 0
      /\ AData(drv) = [i \in D!Bytes(0) |-> 0] /\ AGot(drv) = AData(drv)
  BY <1>1, <1>2 DEF AReq, AMoved, AData, AGot, Pending, D!NoRequest
<1>4. QED
  BY <1>1, <1>3, Zenon
  DEF D!DiskInit, AReq, AData, AMoved, AGot, Pending, Active, Issued

\* With this driver the channel is a BlockDisk: a read that succeeds returned the
\* sectors asked for, a write stores its own bytes front to back and nothing else,
\* and the address registers always say how far it got.
THEOREM DriverRefines ==
  DriverSpec => ImplementsDisk
<1>1. DriverInit => DInv /\ D!DiskInit  BY DriverInitHolds, DriverInitRefines
<1>2. DInv /\ [DriverNext]_allVars => DInv'  BY DriverNextHolds
<1>3. DInv /\ [DriverNext]_allVars => [D!DiskNext]_(D!dvars)  BY DriverStepRefines
<1>4. QED  BY <1>1, <1>2, <1>3, PTL DEF DriverSpec, ImplementsDisk, D!DiskSpec

===============================================================================
