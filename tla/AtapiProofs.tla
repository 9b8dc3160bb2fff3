------------------------------ MODULE AtapiProofs ------------------------------
(***************************************************************************)
(* Proofs about the ATAPI CD-ROM, for every sector size, packet, byte count *)
(* limit and access: the data port stays inside io_buffer, a guest that    *)
(* keeps to the protocol gets its bytes in the bursts announced, and the   *)
(* change of a disc is reported.                                           *)
(*                                                                         *)
(* Two invariants carry them.  Phase says what the data phase and the      *)
(* counters of a reply owe each other, whatever the guest does; Delivery   *)
(* says, for a guest that has kept to the protocol, which of the bytes it  *)
(* asked for lie in the buffer and how many are still to come.             *)
(***************************************************************************)
EXTENDS Atapi, TLAPS

\* The last packet, none before the first.
Held == Packets \cup {<<>>}
Bits == {"READY", "SEEK", "ERR", "DRQ"}
Reasons == {"cd", "io", "cdio", "none"}
Senses == {"none", "attention", "illegal", "notready"}
Funcs == {"stop", "cmd", "reply"}

CdState ==
    [reason : Reasons, limit : Nat, status : SUBSET Bits, sense : Senses, changed : BOOLEAN,
     pts : Int, ets : Int, io : Int, lba : Int, css : Nat, packet : Held,
     func : Funcs, index : Nat, end : Nat]

\* What is left of a READ, by its sectors.
Left(s) ==
    /\ s.packet \in Packets /\ Reads(s.packet) /\ s.packet.lba <= s.lba
    /\ s.pts = (s.packet.lba + s.packet.n - s.lba) * s.css + (s.css - s.io)

\* The counters of a reply, or of a READ that has come to sector -1.
Uncut(s) ==
    /\ s.lba = NoLba /\ s.pts \in Nat /\ s.io \in Nat
    /\ s.ets \in 0..s.pts /\ (s.ets > 0 => s.io <= s.css)
    /\ s.io + s.pts <= BufBytes \/ TakenForNone(s.packet)

\* The counters of a READ.
Sectors(s) ==
    /\ s.lba \in Int /\ s.lba # NoLba /\ s.pts \in Nat /\ s.ets \in 0..s.pts /\ s.io \in 0..s.css
    /\ s.lba < 0 => Left(s)

Counted(s) == Uncut(s) \/ (Sectors(s) /\ s.css = CdBytes)

\* The part of io_buffer the data port moves through.
Window(s) ==
    /\ s.index <= s.end
    /\ s.end <= BufBytes \/ (s.func = "reply" /\ TakenForNone(s.packet))

Phase(s) ==
    /\ s \in CdState /\ Window(s)
    /\ s.func = "reply" => Counted(s) /\ s.end = s.io
    /\ s.func = "cmd" /\ s.index = s.end => s.packet \in Packets

PhaseInv ==
    /\ Phase(cd) /\ DOMAIN buf = 0..BufBytes - 1
    /\ notice => cd.sense = "attention"

\* The bytes asked for are those of a reply, or those of the sectors from l on.
ReplyWanted(w) == \A i \in 1..Len(w) : w[i] = <<"reply", 0, i - 1>>
SectorsWanted(w, l) ==
    \A i \in 1..Len(w) : w[i] = <<"cd", l + (i - 1) \div CdBytes, (i - 1) % CdBytes>>
\* Those of no disc.
NothingWanted(w) == \A i \in 1..Len(w) : \E x \in Int : w[i] = <<"cd", NoLba, x>>

\* k bytes have been given to the port, and the buffer b holds what is next.
Served(s, b, w, k) ==
    /\ k \in Nat /\ k + s.pts = Len(w)
    /\ \/ /\ s.lba = NoLba /\ k = s.io /\ ReplyWanted(w) /\ s.io + s.pts <= BufBytes
          /\ \A i \in 0..Len(w) - 1 : b[i] = <<"reply", 0, i, 0>>
       \/ /\ s.lba \in Nat
          /\ s.packet \in Packets /\ s.packet.lba \in Nat /\ s.lba - s.packet.lba \in Nat
          /\ SectorsWanted(w, s.packet.lba)
          /\ k + CdBytes = (s.lba - s.packet.lba) * CdBytes + s.io
          /\ \A i \in s.io..CdBytes - 1 : SameByte(b[i], <<"cd", s.lba - 1, i>>)
       \/ NothingWanted(w)

\* What lies in the window is what comes after the first n bytes.
Shown(s, b, w, n) == \A i \in s.index..s.end - 1 : SameByte(At(b, i), w[n + 1 + (i - s.index)])

Busy == {"READY", "SEEK", "DRQ"}
Streaming(s, b, w, n, d) ==
    /\ s.func = "reply" /\ s.reason = "io"
    /\ d = s.ets + (s.end - s.index)
    /\ Served(s, b, w, n + (s.end - s.index)) /\ Shown(s, b, w, n)

Kinds == {"cd", "reply", "guest", "none", "any"}
Piece == Kinds \X Int \X Int
Byte == Kinds \X Int \X Int \X Int

DeliveryInv ==
    /\ want \in Seq(Piece) /\ got \in Seq(Byte) /\ \A i \in 0..BufBytes - 1 : buf[i] \in Byte
    /\ Len(got) <= Len(want) /\ \A i \in 1..Len(got) : SameByte(got[i], want[i])
    /\ disc \in Nat /\ backend \in {"file", "ciso"} /\ (backend = "file" => disc # 0)
    /\ polite /\ DRQ(cd) => /\ cd.status = Busy
                            /\ \/ cd.func = "cmd" /\ cd.reason = "cd" /\ want = <<>>
                               \/ Streaming(cd, buf, want, Len(got), due)
    /\ polite /\ ~DRQ(cd) /\ "ERR" \notin cd.status => Len(got) = Len(want)
-----------------------------------------------------------------------------
(* The transfer logic. *)

LEMMA Sizes ==
    /\ CdBytes \in Nat \ {0} /\ BufBytes \in Nat /\ CdBytes <= BufBytes /\ CdSectors \in Nat
    /\ PacketBytes \in 1..BufBytes /\ IdBytes \in 0..BufBytes /\ Limits \subseteq Nat
    /\ NoLba \in Int /\ NoLba \notin Nat
BY AtapiSizes DEF NoLba

\* A burst is no longer than what is left.
LEMMA BurstFits ==
    ASSUME NEW s \in CdState, s.pts \in Nat
    PROVE  Burst(s) \in 0..s.pts
<1>1. PICK l \in Nat : l = s.limit BY DEF CdState
<1>2. PICK top \in Nat : top = MinimumOf(l, 65534) BY DEF MinimumOf
<1>3. top % 2 \in 0..1 /\ (top = 0 => top % 2 = 0) BY <1>2
<1>4. Burst(s) = IF s.pts > top THEN top - (top % 2) ELSE s.pts BY <1>1, <1>2 DEF Burst
<1>5. QED BY <1>2, <1>3, <1>4

\* ide_transfer_start2 and the account of a burst, field by field.
Started(s, off, n, func, r) ==
    /\ r \in CdState /\ r.func = func /\ r.index = off /\ r.end = off + n
    /\ r.status = (IF "ERR" \in s.status THEN s.status ELSE s.status \cup {"DRQ"})
    /\ r.reason = s.reason /\ r.limit = s.limit /\ r.sense = s.sense /\ r.changed = s.changed
    /\ r.pts = s.pts /\ r.ets = s.ets /\ r.io = s.io /\ r.lba = s.lba /\ r.css = s.css /\ r.packet = s.packet
LEMMA StartIs ==
    ASSUME NEW s \in CdState, NEW off \in Nat, NEW n \in Nat, NEW func \in Funcs
    PROVE  Started(s, off, n, func, ide_transfer_start2(s, off, n, func))
<1>1. PICK st : st = IF "ERR" \in s.status THEN s.status ELSE s.status \cup {"DRQ"} OBVIOUS
<1>2. st \in SUBSET Bits BY <1>1 DEF CdState, Bits
<1>3. PICK e \in Nat : e = off + n OBVIOUS
<1>4. ide_transfer_start2(s, off, n, func) = [s EXCEPT !.func = func, !.index = off, !.end = e, !.status = st]
  BY <1>1, <1>3 DEF ide_transfer_start2, CdState
<1>5. QED BY <1>1, <1>2, <1>3, <1>4 DEF Started, CdState

Accounted(s, n, r) ==
    /\ r \in CdState /\ r.func = s.func /\ r.index = s.index /\ r.end = s.end /\ r.status = s.status
    /\ r.reason = s.reason /\ r.limit = s.limit /\ r.sense = s.sense /\ r.lba = s.lba /\ r.css = s.css
    /\ r.packet = s.packet
    /\ r.pts = s.pts - n /\ r.ets = s.ets - n /\ r.io = s.io + n
LEMMA AccountIs ==
    ASSUME NEW s \in CdState, NEW n \in Int
    PROVE  Accounted(s, n, Account(s, n))
<1>1. PICK a \in Int : a = s.pts - n BY DEF CdState
<1>2. PICK b \in Int : b = s.ets - n BY DEF CdState
<1>3. PICK c \in Int : c = s.io + n BY DEF CdState
<1>4. Account(s, n) = [s EXCEPT !.pts = a, !.ets = b, !.io = c] BY <1>1, <1>2, <1>3, Zenon DEF Account
<1>5. Account(s, n) \in CdState BY <1>4 DEF CdState
<1>6. QED BY <1>1, <1>2, <1>3, <1>4, <1>5 DEF Accounted, CdState

\* size bytes of c are offered to the port, from where t has come to.
Offered(t, c, size, o) ==
    /\ o.s \in CdState /\ o.b = c /\ o.error = FALSE
    /\ o.s.func = "reply" /\ o.s.index = t.io /\ o.s.end = t.io + size /\ o.s.io = t.io + size
    /\ o.s.pts = t.pts - size /\ o.s.lba = t.lba /\ o.s.css = t.css
    /\ o.s.packet = t.packet /\ o.s.sense = t.sense
    /\ o.s.status = IF "ERR" \in t.status THEN t.status ELSE t.status \cup {"DRQ"}
BurstBegun(t, c, o) ==
    LET size == Chunk(t, Burst(t))
    IN  /\ Offered(t, c, size, o) /\ size \in 0..Burst(t)
        /\ o.raised = TRUE /\ o.s.ets = Burst(t) - size /\ o.s.limit = Burst(t) /\ o.s.reason = "io"
BurstContinued(t, c, o) ==
    LET size == MinimumOf(t.css - t.io, t.ets)
    IN  /\ Offered(t, c, size, o) /\ size \in 0..t.ets
        /\ o.raised = FALSE /\ o.s.ets = t.ets - size /\ o.s.reason = t.reason

LEMMA NewBurstIs ==
    ASSUME NEW t \in CdState, NEW c, t.pts \in Nat, t.io \in Nat,
           t.lba # NoLba => t.io <= t.css
    PROVE  BurstBegun(t, c, NewBurst(t, c))
<1>1. Burst(t) \in 0..t.pts BY BurstFits
<1>2. Chunk(t, Burst(t)) \in 0..Burst(t) BY <1>1 DEF Chunk, MinimumOf, CdState
<1>3. PICK k \in Nat : k = Burst(t) BY <1>1
<1>4. PICK n \in Nat : n = Chunk(t, Burst(t)) BY <1>1, <1>2
<1>5. PICK x : x = [t EXCEPT !.reason = "io", !.limit = k, !.ets = k] OBVIOUS
<1>6. /\ x \in CdState /\ x.reason = "io" /\ x.limit = k /\ x.ets = k /\ x.status = t.status
      /\ x.sense = t.sense /\ x.pts = t.pts /\ x.io = t.io /\ x.lba = t.lba /\ x.css = t.css /\ x.packet = t.packet
  <2>1. PICK a \in Reasons : a = "io" BY DEF Reasons
  <2>2. x = [t EXCEPT !.reason = a, !.limit = k, !.ets = k] BY <1>5, <2>1
  <2>3. k \in Int BY <1>3
  <2>4. x \in CdState BY <1>3, <2>2, <2>3 DEF CdState
  <2>5. QED BY <2>1, <2>2, <2>4 DEF CdState
<1>7. PICK y : y = ide_transfer_start2(x, t.io, n, "reply") OBVIOUS
<1>8. Started(x, t.io, n, "reply", y) BY <1>4, <1>6, <1>7, StartIs DEF Funcs
<1>9. PICK z : z = Account(y, n) OBVIOUS
<1>10. Accounted(y, n, z) BY <1>4, <1>8, <1>9, AccountIs DEF Started
<1>11. NewBurst(t, c) = Out(z, c, TRUE, FALSE)
  BY <1>3, <1>4, <1>5, <1>7, <1>9, Zenon DEF NewBurst
<1>12. PICK o : o = NewBurst(t, c) OBVIOUS
<1>13. o.s = z /\ o.b = c /\ o.raised = TRUE /\ o.error = FALSE BY <1>11, <1>12 DEF Out
<1>15. Offered(t, c, n, o) /\ o.s.ets = k - n /\ o.s.limit = k /\ o.s.reason = "io"
  BY <1>6, <1>8, <1>10, <1>13 DEF Offered, Started, Accounted
<1>16. QED BY <1>2, <1>3, <1>4, <1>12, <1>13, <1>15 DEF BurstBegun

LEMMA GoOnIs ==
    ASSUME NEW t \in CdState, NEW c, t.io \in 0..t.css, t.ets \in Nat
    PROVE  BurstContinued(t, c, GoOn(t, c))
<1>1. PICK n \in 0..t.ets : n = MinimumOf(t.css - t.io, t.ets) BY DEF MinimumOf, CdState
<1>2. PICK y : y = ide_transfer_start2(t, t.io, n, "reply") OBVIOUS
<1>3. Started(t, t.io, n, "reply", y) BY <1>1, <1>2, StartIs DEF Funcs
<1>4. PICK z : z = Account(y, n) OBVIOUS
<1>5. Accounted(y, n, z) BY <1>1, <1>3, <1>4, AccountIs DEF Started
<1>6. GoOn(t, c) = Out(z, c, FALSE, FALSE) BY <1>1, <1>2, <1>4, Zenon DEF GoOn
<1>7. PICK o : o = GoOn(t, c) OBVIOUS
<1>8. o.s = z /\ o.b = c /\ o.raised = FALSE /\ o.error = FALSE BY <1>6, <1>7 DEF Out
<1>10. Offered(t, c, n, o) /\ o.s.ets = t.ets - n /\ o.s.reason = t.reason
  BY <1>3, <1>5, <1>8 DEF Offered, Started, Accounted
<1>11. QED BY <1>1, <1>7, <1>8, <1>10 DEF BurstContinued

\* What a call of ide_atapi_cmd_reply_end finds.
Prepared(s) ==
    /\ s \in CdState
    /\ \/ s.pts <= 0
       \/ Uncut(s)
       \/ Sectors(s) /\ (s.css = CdBytes \/ s.io = s.css)

\* Its three ends.
Over(s, b, o) ==
    /\ s.pts <= 0 /\ o = Out(o.s, b, TRUE, FALSE)
    /\ o.s \in CdState /\ o.s.status = {"READY", "SEEK"} /\ o.s.func = "stop" /\ o.s.index = 0 /\ o.s.end = 0
    /\ o.s.sense = s.sense /\ o.s.packet = s.packet
Broken(s, b, o) ==
    /\ o.error = TRUE /\ o.raised = TRUE /\ DOMAIN o.b = DOMAIN b /\ o.b = Refilled(s, b)
    /\ o.s \in CdState /\ o.s.status = {"READY", "ERR"} /\ o.s.func = "stop" /\ o.s.index = 0 /\ o.s.end = 0
    /\ o.s.packet = s.packet
GoneOn(s, b, o) ==
    LET t == NextSector(s)  c == Refilled(s, b)
    IN  /\ s.pts > 0 /\ ~(SectorUsed(s) /\ ReadFails(s)) /\ (s.lba = NoLba \/ s.css = CdBytes)
        /\ t \in CdState /\ Prepared(t) /\ t.pts = s.pts /\ t.io \in Nat /\ (t.lba # NoLba => t.io < t.css)
        /\ DOMAIN c = DOMAIN b
        /\ IF t.ets > 0 THEN BurstContinued(t, c, o) /\ t.io \in 0..t.css ELSE BurstBegun(t, c, o)

LEMMA StopIs ==
    ASSUME NEW s \in CdState, NEW y, y = ide_transfer_stop2(s)
    PROVE  /\ y \in CdState /\ y.func = "stop" /\ y.index = 0 /\ y.end = 0
           /\ y.sense = s.sense /\ y.packet = s.packet
<1>1. PICK st \in SUBSET Bits : st = s.status \ {"DRQ"} BY DEF CdState
<1>2. PICK f \in Funcs : f = "stop" BY DEF Funcs
<1>3. PICK z \in Nat : z = 0 OBVIOUS
<1>4. y = [s EXCEPT !.func = f, !.index = z, !.end = z, !.status = st]
  BY <1>1, <1>2, <1>3, Zenon DEF ide_transfer_stop2
<1>5. y \in CdState BY <1>4 DEF CdState
<1>6. QED BY <1>2, <1>3, <1>4, <1>5 DEF CdState

LEMMA ErrorIs ==
    ASSUME NEW s \in CdState, NEW e \in {"illegal", "notready"}, NEW y, y = ide_atapi_cmd_error(s, e)
    PROVE  /\ y \in CdState /\ y.status = {"READY", "ERR"} /\ y.sense = e
           /\ y.func = s.func /\ y.index = s.index /\ y.end = s.end /\ y.packet = s.packet
<1>1. PICK st \in SUBSET Bits : st = {"READY", "ERR"} BY DEF Bits
<1>2. PICK a \in Reasons : a = "cdio" BY DEF Reasons
<1>3. PICK z \in Senses : z = e BY DEF Senses
<1>4. y = [s EXCEPT !.status = st, !.reason = a, !.sense = z] BY <1>1, <1>2, <1>3 DEF ide_atapi_cmd_error
<1>5. y \in CdState BY <1>4 DEF CdState
<1>6. QED BY <1>1, <1>3, <1>4, <1>5 DEF CdState

\* A sector less, and its bytes.
LEMMA OneLess ==
    ASSUME NEW a \in Int, NEW b \in Int, NEW c \in Int
    PROVE  (a - (b + 1)) * c + c = (a - b) * c
<1>1. PICK d \in Int : d = a - (b + 1) OBVIOUS
<1>2. a - b = d + 1 BY <1>1
<1>3. (d + 1) * c = d * c + c OBVIOUS
<1>4. QED BY <1>1, <1>2, <1>3

LEMMA Positive ==
    ASSUME NEW a \in Int, NEW c \in Nat, a * c > 0
    PROVE  a > 0
<1>1. SUFFICES ASSUME a <= 0 PROVE FALSE OBVIOUS
<1>2. PICK d \in Nat : a = 0 - d BY <1>1
<1>3. a * c = 0 - d * c BY <1>2
<1>4. d * c \in Nat OBVIOUS
<1>5. QED BY <1>3, <1>4

\* The next sector of a READ, and what a READ that comes to -1 has left.
LEMMA NextCounted ==
    ASSUME NEW s \in CdState, Sectors(s), s.css = CdBytes, s.pts > 0, SectorUsed(s),
           NEW t \in CdState, t.lba = s.lba + 1, t.io = 0, t.pts = s.pts, t.ets = s.ets, t.css = s.css,
           t.packet = s.packet
    PROVE  /\ t.lba # NoLba => Sectors(t)
           /\ t.lba = NoLba => Uncut(t)
<1>1. PICK c \in Nat : c = s.css /\ c = CdBytes /\ c > 0 /\ c <= BufBytes BY Sizes
<1>2. PICK l \in Int : l = s.lba /\ t.lba = l + 1 BY DEF Sectors
<1>3. /\ s.pts \in Nat /\ s.ets \in 0..s.pts /\ s.io = c /\ NoLba = -1
  BY <1>1 DEF Sectors, SectorUsed, NoLba
<1>4. CASE l >= 0
  BY <1>1, <1>2, <1>3, <1>4 DEF Sectors
<1>5. CASE l < 0
  <2>1. Left(s) BY <1>2, <1>5 DEF Sectors
  <2>2. PICK p \in Packets : p = s.packet /\ p = t.packet /\ Reads(p) BY <2>1 DEF Left
  <2>3. PICK f \in Int : f = p.lba /\ f <= l BY <1>2, <2>1, <2>2, AtapiSizes DEF Left
  <2>4. PICK e \in Int : e = p.lba + p.n BY <2>2, AtapiSizes
  <2>5. s.pts = (e - l) * c
    <3>1. s.pts = (s.packet.lba + s.packet.n - s.lba) * s.css + (s.css - s.io) BY <2>1 DEF Left
    <3>2. s.packet.lba + s.packet.n - s.lba = e - l BY <1>2, <2>2, <2>4, AtapiSizes
    <3>3. PICK x \in Int : x = (e - l) * c OBVIOUS
    <3>4. s.pts = x + (c - c) BY <1>1, <1>3, <3>1, <3>2, <3>3
    <3>5. QED BY <3>3, <3>4
  <2>6. e - l > 0
    <3>1. (e - l) * c > 0 BY <2>5
    <3>2. PICK d \in Int : d = e - l OBVIOUS
    <3>3. d > 0 BY <3>1, <3>2, Positive
    <3>4. QED BY <3>2, <3>3
  <2>7. CASE l = -2
    <3>1. t.lba = NoLba BY <1>2, <1>3, <2>7
    <3>2. CASE e >= 0
      <4>1. TakenForNone(t.packet) BY <2>2, <2>3, <2>4, <2>7, <3>2 DEF TakenForNone
      <4>2. QED BY <1>3, <3>1, <4>1, <1>1 DEF Uncut
    <3>3. CASE e < 0
      <4>1. e - l = 1 BY <2>6, <2>7, <3>3
      <4>2. s.pts = 1 * c BY <2>5, <4>1
      <4>3. t.io + t.pts <= BufBytes BY <1>1, <4>2
      <4>4. QED BY <1>3, <3>1, <4>3, <1>1 DEF Uncut
    <3>4. QED BY <3>2, <3>3
  <2>8. CASE l # -2
    <3>1. t.lba # NoLba BY <1>2, <1>3, <2>8
    <3>2. t.pts = (e - (l + 1)) * c + (c - 0)
      <4>1. (e - (l + 1)) * c + c = (e - l) * c BY OneLess
      <4>2. PICK x \in Int : x = (e - (l + 1)) * c OBVIOUS
      <4>3. QED BY <2>5, <4>1, <4>2
    <3>3. t.packet.lba <= t.lba BY <1>2, <2>2, <2>3
    <3>4. Left(t)
      <4>1. t.packet.lba + t.packet.n - t.lba = e - (l + 1) BY <1>2, <2>2, <2>4, AtapiSizes
      <4>2. t.css = c /\ t.io = 0 BY <1>1
      <4>3. t.pts = (t.packet.lba + t.packet.n - t.lba) * t.css + (t.css - t.io) BY <3>2, <4>1, <4>2
      <4>4. QED BY <2>2, <3>3, <4>3 DEF Left
    <3>5. QED BY <1>1, <1>2, <1>3, <3>1, <3>4 DEF Sectors
  <2>9. QED BY <2>7, <2>8
<1>6. QED BY <1>2, <1>4, <1>5

LEMMA ReplyEndIs ==
    ASSUME NEW s, Prepared(s), NEW b, NEW o, o = ide_atapi_cmd_reply_end(s, b)
    PROVE  Over(s, b, o) \/ Broken(s, b, o) \/ GoneOn(s, b, o)
<1>1. CASE s.pts <= 0
  <2>1. PICK z : z = [ide_transfer_stop2(s) EXCEPT !.status = {"READY", "SEEK"}, !.reason = "cdio"] OBVIOUS
  <2>2. o = Out(z, b, TRUE, FALSE) BY <1>1, <2>1 DEF ide_atapi_cmd_reply_end
  <2>3. PICK y : y = ide_transfer_stop2(s) OBVIOUS
  <2>4. /\ y \in CdState /\ y.func = "stop" /\ y.index = 0 /\ y.end = 0 /\ y.sense = s.sense /\ y.packet = s.packet
    BY <2>3, StopIs DEF Prepared
  <2>5. z \in CdState /\ z.status = {"READY", "SEEK"} /\ z.func = "stop" /\ z.index = 0 /\ z.end = 0
        /\ z.sense = s.sense /\ z.packet = s.packet
    <3>1. PICK st \in SUBSET Bits : st = {"READY", "SEEK"} BY DEF Bits
    <3>2. PICK a \in Reasons : a = "cdio" BY DEF Reasons
    <3>3. z = [y EXCEPT !.status = st, !.reason = a] BY <2>1, <2>3, <3>1, <3>2
    <3>4. z \in CdState BY <2>4, <3>3 DEF CdState
    <3>5. QED BY <2>4, <3>1, <3>3, <3>4 DEF CdState
  <2>6. o.s = z BY <2>2 DEF Out
  <2>7. QED BY <1>1, <2>2, <2>5, <2>6 DEF Over
<1>2. CASE ~(s.pts <= 0)
  <2>1. PICK t : t = NextSector(s) OBVIOUS
  <2>2. PICK c : c = Refilled(s, b) OBVIOUS
  <2>3. s \in CdState /\ s.pts \in Nat /\ s.pts > 0 /\ NoLba \notin Nat
    BY <1>2, Sizes DEF Prepared, CdState
  <2>4. DOMAIN c = DOMAIN b BY <2>2 DEF Refilled, SectorRead
  <2>5. o = IF SectorUsed(s) /\ ReadFails(s) THEN Out(ide_atapi_cmd_error(ide_transfer_stop2(s), "illegal"), c, TRUE, TRUE)
            ELSE IF t.ets > 0 THEN GoOn(t, c) ELSE NewBurst(t, c)
    BY <1>2, <2>1, <2>2, Zenon DEF ide_atapi_cmd_reply_end
  <2>6. CASE SectorUsed(s) /\ ReadFails(s)
    <3>1. o = Out(ide_atapi_cmd_error(ide_transfer_stop2(s), "illegal"), c, TRUE, TRUE) BY <2>5, <2>6
    <3>2. PICK y : y = ide_transfer_stop2(s) OBVIOUS
    <3>3. PICK z : z = ide_atapi_cmd_error(y, "illegal") OBVIOUS
    <3>4. y \in CdState /\ y.func = "stop" /\ y.index = 0 /\ y.end = 0 /\ y.packet = s.packet
      BY <2>3, <3>2, StopIs
    <3>5. z \in CdState /\ z.status = {"READY", "ERR"} /\ z.func = "stop" /\ z.index = 0 /\ z.end = 0 /\ z.packet = s.packet
      BY <3>3, <3>4, ErrorIs
    <3>6. o.s = z /\ o.b = c /\ o.error = TRUE /\ o.raised = TRUE BY <3>1, <3>2, <3>3 DEF Out
    <3>7. QED BY <2>2, <2>4, <3>5, <3>6 DEF Broken
  <2>7. CASE ~(SectorUsed(s) /\ ReadFails(s))
    <3>1. t \in CdState /\ t.pts = s.pts /\ t.ets = s.ets /\ t.css = s.css
      <4>1. CASE SectorUsed(s)
        <5>1. PICK l \in Int : l = s.lba + 1 BY <2>3 DEF CdState
        <5>2. PICK z \in Int : z = 0 OBVIOUS
        <5>3. t = [s EXCEPT !.lba = l, !.io = z] BY <2>1, <4>1, <5>1, <5>2, Zenon DEF NextSector
        <5>4. t \in CdState BY <2>3, <5>3 DEF CdState
        <5>5. QED BY <2>3, <5>3, <5>4 DEF CdState
      <4>2. CASE ~SectorUsed(s) BY <2>1, <2>3, <4>2 DEF NextSector
      <4>3. QED BY <4>1, <4>2
    <3>2. s.lba = NoLba \/ s.css = CdBytes
      BY <2>3, <2>7 DEF Prepared, Sectors, Uncut, SectorUsed, ReadFails, CdState
    <3>3. Prepared(t) /\ t.io \in Nat /\ (t.lba # NoLba => t.io < t.css)
      <4>1. CASE s.lba = NoLba BY <2>1, <2>3, <3>1, <4>1 DEF Prepared, Uncut, Sectors, NextSector, SectorUsed
      <4>2. CASE s.lba # NoLba
        <5>1. Sectors(s) /\ s.css = CdBytes BY <2>3, <3>2, <4>2 DEF Prepared, Uncut
        <5>2. CASE SectorUsed(s)
          <6>1. t.lba = s.lba + 1 /\ t.io = 0 /\ t.packet = s.packet
            <7>1. PICK l \in Int : l = s.lba + 1 BY <2>3 DEF CdState
            <7>2. t = [s EXCEPT !.lba = l, !.io = 0] BY <2>1, <5>2, <7>1, Zenon DEF NextSector
            <7>3. QED BY <2>3, <7>1, <7>2 DEF CdState
          <6>2. (t.lba # NoLba => Sectors(t)) /\ (t.lba = NoLba => Uncut(t))
            BY <2>3, <3>1, <5>1, <5>2, <6>1, NextCounted
          <6>3. QED BY <3>1, <5>1, <6>1, <6>2, Sizes DEF Prepared
        <5>3. CASE ~SectorUsed(s)
          <6>1. t = s BY <2>1, <5>3 DEF NextSector
          <6>2. PICK i \in Int, u \in Int : i = s.io /\ u = s.css BY <2>3 DEF CdState
          <6>4. i \in 0..u BY <5>1, <6>2 DEF Sectors
          <6>5. ~(i >= u) BY <4>2, <5>3, <6>2 DEF SectorUsed
          <6>6. i \in Nat /\ i < u BY <6>2, <6>4, <6>5
          <6>7. t.io \in Nat /\ (t.lba # NoLba => t.io < t.css) BY <6>1, <6>2, <6>6
          <6>8. QED BY <2>3, <5>1, <6>1, <6>7 DEF Prepared
        <5>4. QED BY <5>2, <5>3
      <4>3. QED BY <4>1, <4>2
    <3>4. CASE t.ets > 0
      <4>1. t.io \in 0..t.css /\ t.ets \in Nat
        BY <2>3, <3>1, <3>3, <3>4 DEF Prepared, Uncut, Sectors, CdState
      <4>2. BurstContinued(t, c, o) BY <2>5, <2>7, <3>1, <3>4, <4>1, GoOnIs
      <4>3. QED BY <2>1, <2>2, <2>3, <2>4, <2>7, <3>1, <3>2, <3>3, <3>4, <4>1, <4>2 DEF GoneOn
    <3>5. CASE ~(t.ets > 0)
      <4>1. t.lba # NoLba => t.io <= t.css BY <3>1, <3>3 DEF CdState
      <4>2. BurstBegun(t, c, o) BY <2>3, <2>5, <2>7, <3>1, <3>3, <3>5, <4>1, NewBurstIs
      <4>3. QED BY <2>1, <2>2, <2>3, <2>4, <2>7, <3>1, <3>2, <3>3, <3>5, <4>2 DEF GoneOn
    <3>6. QED BY <3>4, <3>5
  <2>8. QED BY <2>6, <2>7
<1>3. QED BY <1>1, <1>2

LEMMA SameRest ==
    ASSUME NEW s, Prepared(s), NEW t, t = NextSector(s)
    PROVE  t.packet = s.packet /\ t.sense = s.sense /\ t.css = s.css /\ t.reason = s.reason /\ t.status = s.status
<1>1. s \in CdState BY DEF Prepared
<1>2. CASE SectorUsed(s)
  <2>1. t = [s EXCEPT !.lba = @ + 1, !.io = 0] BY <1>2 DEF NextSector
  <2>2. QED BY <1>1, <2>1 DEF CdState
<1>3. CASE ~SectorUsed(s)
  <2>1. t = s BY <1>3 DEF NextSector
  <2>2. QED BY <2>1
<1>4. QED BY <1>2, <1>3

LEMMA OfferedFits ==
    ASSUME NEW s, Prepared(s), NEW b, NEW o, GoneOn(s, b, o)
    PROVE  Phase(o.s)
<1>1. PICK t : t = NextSector(s) OBVIOUS
<1>2. PICK c : c = Refilled(s, b) OBVIOUS
<1>3. /\ t \in CdState /\ Prepared(t) /\ t.pts > 0 /\ t.io \in Nat /\ (t.lba # NoLba => t.io < t.css)
      /\ (s.lba = NoLba \/ s.css = CdBytes)
      /\ IF t.ets > 0 THEN BurstContinued(t, c, o) /\ t.io \in 0..t.css ELSE BurstBegun(t, c, o)
  BY <1>1, <1>2 DEF GoneOn
<1>4. PICK n \in Nat : n = t.pts /\ n > 0 BY <1>3 DEF CdState
<1>5. PICK i \in Nat : i = t.io BY <1>3
<1>6. PICK k \in 0..n : k = Burst(t) BY <1>3, <1>4, BurstFits
<1>7. CASE t.lba = NoLba
  <2>1. /\ t.ets \in 0..n /\ BufBytes \in Nat
        /\ i + n <= BufBytes \/ TakenForNone(t.packet)
    BY <1>3, <1>4, <1>5, <1>7, Sizes DEF Prepared, Uncut, Sectors
  <2>2. ASSUME NEW m \in 0..n, NEW e \in 0..n - m, Offered(t, c, m, o), o.s.ets = e, e > 0 => i + m <= t.css
        PROVE  Phase(o.s)
    <3>1. /\ o.s \in CdState /\ o.s.lba = NoLba /\ o.s.pts = n - m /\ o.s.ets = e /\ o.s.io = i + m
          /\ o.s.index = i /\ o.s.end = i + m /\ o.s.func = "reply" /\ o.s.css = t.css /\ o.s.packet = t.packet
      BY <1>4, <1>5, <1>7, <2>2 DEF Offered
    <3>2. i + m \in Nat /\ n - m \in Nat /\ (i + n <= BufBytes => i + m <= BufBytes /\ i + m + (n - m) <= BufBytes)
      BY <2>1
    <3>3. Uncut(o.s) BY <2>1, <2>2, <3>1, <3>2 DEF Uncut
    <3>4. Window(o.s) BY <2>1, <3>1, <3>2 DEF Window
    <3>5. QED BY <3>1, <3>3, <3>4 DEF Counted, Phase
  <2>3. CASE t.ets > 0
    <3>1. BurstContinued(t, c, o) /\ i \in 0..t.css /\ t.css \in Nat BY <1>3, <1>5, <2>3 DEF CdState
    <3>2. PICK m \in 0..t.ets : m = MinimumOf(t.css - i, t.ets) /\ i + m <= t.css
      BY <1>5, <2>1, <3>1 DEF MinimumOf
    <3>3. Offered(t, c, m, o) /\ o.s.ets = t.ets - m BY <1>5, <3>1, <3>2 DEF BurstContinued
    <3>4. QED BY <2>1, <2>2, <3>2, <3>3
  <2>4. CASE ~(t.ets > 0)
    <3>1. BurstBegun(t, c, o) BY <1>3, <2>4
    <3>2. Chunk(t, Burst(t)) = k BY <1>6, <1>7 DEF Chunk
    <3>3. Offered(t, c, k, o) /\ o.s.ets = 0 BY <1>6, <3>1, <3>2 DEF BurstBegun
    <3>4. QED BY <1>6, <2>2, <3>3
  <2>5. QED BY <2>3, <2>4
<1>8. CASE t.lba # NoLba
  <2>1. Sectors(t) /\ t.ets \in 0..n /\ i < t.css
    BY <1>3, <1>4, <1>5, <1>8 DEF Prepared, Uncut, Sectors
  <2>2. s.lba # NoLba BY <1>1, <1>8, Zenon DEF NextSector, SectorUsed
  <2>3. t.css = CdBytes
    <3>1. s.css = CdBytes BY <1>3, <2>2
    <3>2. QED BY <1>1, <3>1, SameRest
  <2>4. ASSUME NEW m \in 0..n, NEW e \in 0..n - m, Offered(t, c, m, o), o.s.ets = e, i + m <= CdBytes
        PROVE  Phase(o.s)
    <3>1. /\ o.s \in CdState /\ o.s.lba = t.lba /\ o.s.pts = n - m /\ o.s.ets = e /\ o.s.io = i + m
          /\ o.s.index = i /\ o.s.end = i + m /\ o.s.func = "reply" /\ o.s.css = CdBytes /\ o.s.packet = t.packet
      BY <1>4, <1>5, <2>3, <2>4 DEF Offered
    <3>2. i + m \in 0..CdBytes /\ i + m <= BufBytes /\ n - m \in Nat
      BY <2>4, Sizes
    <3>3. t.lba < 0 => Left(o.s)
      <4>1. SUFFICES ASSUME Left(t) PROVE Left(o.s) BY <2>1 DEF Sectors
      <4>2. PICK x : x = (t.packet.lba + t.packet.n - t.lba) * t.css OBVIOUS
      <4>3. x \in Int
        <5>1. t.packet.lba \in Int /\ t.packet.n \in Nat BY <4>1, AtapiSizes DEF Left
        <5>2. QED BY <4>2, <5>1, <2>3, Sizes, <1>3 DEF CdState
      <4>4. n = x + (CdBytes - i) BY <1>4, <1>5, <2>3, <4>1, <4>2 DEF Left
      <4>5. n - m = x + (CdBytes - (i + m)) BY <4>3, <4>4, Sizes
      <4>6. x = (o.s.packet.lba + o.s.packet.n - o.s.lba) * o.s.css BY <2>3, <3>1, <4>2
      <4>7. QED BY <3>1, <4>1, <4>5, <4>6 DEF Left
    <3>4. Sectors(o.s) BY <1>8, <2>1, <2>4, <3>1, <3>2, <3>3 DEF Sectors
    <3>5. QED BY <3>1, <3>2, <3>4 DEF Counted, Window, Phase
  <2>5. CASE t.ets > 0
    <3>1. BurstContinued(t, c, o) BY <1>3, <2>5
    <3>2. PICK m \in 0..t.ets : m = MinimumOf(t.css - i, t.ets) /\ i + m <= CdBytes
      BY <1>5, <2>1, <2>3, Sizes DEF MinimumOf
    <3>3. Offered(t, c, m, o) /\ o.s.ets = t.ets - m BY <1>5, <3>1, <3>2 DEF BurstContinued
    <3>4. QED BY <2>1, <2>4, <3>2, <3>3
  <2>6. CASE ~(t.ets > 0)
    <3>1. BurstBegun(t, c, o) BY <1>3, <2>6
    <3>2. PICK m \in 0..k : m = Chunk(t, k) /\ i + m <= CdBytes
      BY <1>5, <1>6, <1>8, <2>1, <2>3, Sizes DEF Chunk, MinimumOf
    <3>3. Offered(t, c, m, o) /\ o.s.ets = k - m BY <1>6, <3>1, <3>2 DEF BurstBegun
    <3>4. QED BY <1>6, <2>4, <3>2, <3>3
  <2>7. QED BY <2>5, <2>6
<1>9. QED BY <1>7, <1>8

\* An outcome leaves the data phase in order.
Orderly(s, b, o) ==
    /\ Phase(o.s) /\ DOMAIN o.b = DOMAIN b /\ o.error \in BOOLEAN /\ o.s.packet = s.packet
    /\ ~o.error => o.s.sense = s.sense

LEMMA ReplyEndPhase ==
    ASSUME NEW s, Prepared(s), NEW b, NEW o, o = ide_atapi_cmd_reply_end(s, b)
    PROVE  Orderly(s, b, o)
<1>0. ASSUME NEW r \in CdState, r.func = "stop", r.index = 0, r.end = 0 PROVE Phase(r)
  BY <1>0, Sizes DEF Phase, Window
<1>1. CASE Over(s, b, o)
  <2>1. o.b = b /\ o.error = FALSE BY <1>1 DEF Over, Out
  <2>2. Phase(o.s) /\ o.s.packet = s.packet /\ o.s.sense = s.sense BY <1>0, <1>1 DEF Over
  <2>3. QED BY <2>1, <2>2 DEF Orderly
<1>2. CASE Broken(s, b, o)
  <2>1. Phase(o.s) /\ o.s.packet = s.packet /\ o.error = TRUE /\ DOMAIN o.b = DOMAIN b BY <1>0, <1>2 DEF Broken
  <2>2. QED BY <2>1 DEF Orderly
<1>3. CASE GoneOn(s, b, o)
  <2>1. Phase(o.s) BY <1>3, OfferedFits
  <2>2. PICK t : t = NextSector(s) OBVIOUS
  <2>3. PICK c : c = Refilled(s, b) OBVIOUS
  <2>4. t.packet = s.packet /\ t.sense = s.sense BY <2>2, SameRest DEF Prepared
  <2>5. \E n : Offered(t, c, n, o) BY <1>3, <2>2, <2>3 DEF GoneOn, BurstContinued, BurstBegun
  <2>6. o.b = c /\ o.error = FALSE /\ o.s.packet = t.packet /\ o.s.sense = t.sense BY <2>5 DEF Offered
  <2>7. DOMAIN c = DOMAIN b BY <1>3, <2>3 DEF GoneOn
  <2>8. QED BY <2>1, <2>4, <2>6, <2>7 DEF Orderly
<1>4. QED BY <1>1, <1>2, <1>3, ReplyEndIs

-----------------------------------------------------------------------------
(* Commands. *)

\* s is about to execute packet p.
Loaded(s, p) ==
    /\ s \in CdState /\ p \in Packets /\ s.packet = p /\ s.func = "cmd" /\ Window(s)

LEMMA PacketIs ==
    ASSUME NEW p \in Packets
    PROVE  p.op \in Ops /\ p.lba \in Int /\ p.n \in Nat /\ p.size \in 0..BufBytes /\ p.max \in Nat
BY AtapiSizes

\* What ide_atapi_cmd_reply and ide_atapi_cmd_read hand over.
ForReply(n, r) ==
    /\ r \in CdState /\ r.lba = NoLba /\ r.pts = n /\ r.ets = 0 /\ r.io = 0 /\ r.status = {"READY", "SEEK"}
ForRead(lba, n, size, r) ==
    /\ r \in CdState /\ r.lba = lba /\ r.pts = n * size /\ r.ets = 0 /\ r.io = size /\ r.css = size
    /\ r.status = {"READY", "SEEK"}
Labelled(size, b) == [i \in DOMAIN b |-> IF i < size THEN <<"reply", 0, i, 0>> ELSE b[i]]

LEMMA ReplyCall ==
    ASSUME NEW s \in CdState, NEW size \in 0..BufBytes, NEW max \in Nat
    PROVE  \E r : /\ ForReply(MinimumOf(size, max), r) /\ Prepared(r)
                  /\ r.packet = s.packet /\ r.sense = s.sense
                  /\ ide_atapi_cmd_reply(s, size, max) = ide_atapi_cmd_reply_end(r, Labelled(size, buf))
<1>1. PICK n \in Nat : n = MinimumOf(size, max) /\ n <= size /\ n <= BufBytes BY Sizes DEF MinimumOf
<1>2. PICK st \in SUBSET Bits : st = {"READY", "SEEK"} BY DEF Bits
<1>3. PICK l \in Int : l = NoLba BY Sizes
<1>4. PICK z \in Int : z = 0 OBVIOUS
<1>5. n \in Int BY <1>1
<1>6. PICK r : r = [s EXCEPT !.lba = l, !.pts = n, !.ets = z, !.io = z, !.status = st] OBVIOUS
<1>7. r \in CdState BY <1>5, <1>6 DEF CdState
<1>8. ForReply(n, r) /\ r.packet = s.packet /\ r.sense = s.sense BY <1>2, <1>3, <1>4, <1>6, <1>7 DEF ForReply, CdState
<1>9. Prepared(r) BY <1>1, <1>8 DEF ForReply, Prepared, Uncut
<1>10. ide_atapi_cmd_reply(s, size, max) = ide_atapi_cmd_reply_end(r, Labelled(size, buf))
  BY <1>1, <1>2, <1>3, <1>4, <1>6, Zenon DEF ide_atapi_cmd_reply, Labelled
<1>11. QED BY <1>1, <1>8, <1>9, <1>10

LEMMA ReadCall ==
    ASSUME NEW s \in CdState, NEW p \in Packets, s.packet = p, Reads(p), p.n # 0
    PROVE  \E r : /\ ForRead(p.lba, p.n, Frame(p), r) /\ Prepared(r)
                  /\ r.packet = s.packet /\ r.sense = s.sense
                  /\ ide_atapi_cmd_read(s, p.lba, p.n, Frame(p)) = ide_atapi_cmd_reply_end(r, buf)
<1>0. PICK lba \in Int, n \in Nat \ {0}, size \in Nat : lba = p.lba /\ n = p.n /\ size = Frame(p)
  BY PacketIs, Sizes DEF Frame
<1>1. PICK k \in Nat : k = n * size OBVIOUS
<1>2. PICK st \in SUBSET Bits : st = {"READY", "SEEK"} BY DEF Bits
<1>3. PICK z \in Int : z = 0 OBVIOUS
<1>4. lba \in Int /\ k \in Int /\ size \in Int BY <1>1
<1>5. PICK r : r = [s EXCEPT !.lba = lba, !.pts = k, !.ets = z, !.io = size, !.css = size, !.status = st] OBVIOUS
<1>6. r \in CdState BY <1>4, <1>5 DEF CdState
<1>7. r.lba = lba /\ r.pts = k /\ r.ets = 0 /\ r.io = size /\ r.css = size /\ r.status = {"READY", "SEEK"}
      /\ r.packet = s.packet /\ r.sense = s.sense
  BY <1>2, <1>3, <1>5, <1>6 DEF CdState
<1>8. ForRead(p.lba, p.n, Frame(p), r) BY <1>0, <1>1, <1>6, <1>7 DEF ForRead
<1>9. Prepared(r)
  <2>1. CASE lba = NoLba
    <3>1. TakenForNone(r.packet) BY <1>0, <1>7, <2>1 DEF TakenForNone, NoLba
    <3>2. QED BY <1>1, <1>6, <1>7, <2>1, <3>1 DEF Prepared, Uncut
  <2>2. CASE lba # NoLba
    <3>1. (lba + n - lba) * size + (size - size) = k
      <4>1. lba + n - lba = n OBVIOUS
      <4>2. QED BY <1>1, <4>1
    <3>2. Left(r) BY <1>0, <1>7, <3>1 DEF Left
    <3>3. QED BY <1>1, <1>6, <1>7, <2>2, <3>2 DEF Prepared, Sectors
  <2>3. QED BY <2>1, <2>2
<1>10. ide_atapi_cmd_read(s, p.lba, p.n, Frame(p)) = ide_atapi_cmd_reply_end(r, buf)
  BY <1>0, <1>1, <1>2, <1>3, <1>5, Zenon DEF ide_atapi_cmd_read
<1>11. QED BY <1>7, <1>8, <1>9, <1>10

LEMMA OkIs ==
    ASSUME NEW s \in CdState, NEW y, y = ide_atapi_cmd_ok(s)
    PROVE  /\ y \in CdState /\ y.status = {"READY", "SEEK"} /\ y.sense = s.sense
           /\ y.func = s.func /\ y.index = s.index /\ y.end = s.end /\ y.packet = s.packet
<1>1. PICK st \in SUBSET Bits : st = {"READY", "SEEK"} BY DEF Bits
<1>2. PICK a \in Reasons : a = "cdio" BY DEF Reasons
<1>3. y = [s EXCEPT !.status = st, !.reason = a] BY <1>1, <1>2, Zenon DEF ide_atapi_cmd_ok
<1>4. y \in CdState BY <1>3 DEF CdState
<1>5. QED BY <1>1, <1>3, <1>4 DEF CdState

LEMMA CheckIs ==
    ASSUME NEW s \in CdState, NEW y, y = ide_atapi_cmd_check_status(s)
    PROVE  /\ y \in CdState /\ y.status = {"ERR"} /\ y.sense = s.sense
           /\ y.func = s.func /\ y.index = s.index /\ y.end = s.end /\ y.packet = s.packet
<1>1. PICK st \in SUBSET Bits : st = {"ERR"} BY DEF Bits
<1>2. PICK a \in Reasons : a = "none" BY DEF Reasons
<1>3. y = [s EXCEPT !.status = st, !.reason = a] BY <1>1, <1>2, Zenon DEF ide_atapi_cmd_check_status
<1>4. y \in CdState BY <1>3 DEF CdState
<1>5. QED BY <1>1, <1>3, <1>4 DEF CdState

\* The ends of ide_atapi_cmd: an error, done without data, a reply, a read.
Refused(p, o) ==
    /\ Phase(o.s) /\ o.error = TRUE /\ o.b = buf /\ o.s.packet = p
    /\ "ERR" \in o.s.status /\ "DRQ" \notin o.s.status
Plain(s, p, o) ==
    /\ Phase(o.s) /\ o.error = FALSE /\ o.b = buf /\ o.s.packet = p /\ o.s.sense = s.sense
    /\ o.s.status = {"READY", "SEEK"} /\ (p.op \in {"tur", "ok", "seek"} \/ (Reads(p) /\ p.n = 0))
ReplyOps == {"sense", "inquiry", "config", "mode", "toc", "capacity"}
Answered(s, p, o) ==
    \E r : /\ ForReply(MinimumOf(p.size, p.max), r) /\ Prepared(r)
           /\ r.packet = p /\ (p.op # "sense" => r.sense = s.sense) /\ p.op \in ReplyOps
           /\ o = ide_atapi_cmd_reply_end(r, Labelled(p.size, buf))
Reading(s, p, o) ==
    \E r : /\ ForRead(p.lba, p.n, Frame(p), r) /\ Prepared(r)
           /\ r.packet = p /\ r.sense = s.sense /\ p.n # 0 /\ Reads(p) /\ o = ide_atapi_cmd_reply_end(r, buf)
CommandEnd(s, p, o) ==
    /\ Refused(p, o) \/ Plain(s, p, o) \/ Answered(s, p, o) \/ Reading(s, p, o)
    /\ Attention(s, p) => Refused(p, o)

LEMMA FailedIs ==
    ASSUME NEW p, NEW s, Loaded(s, p), NEW e \in {"illegal", "notready"}
    PROVE  Refused(p, Failed(s, e))
<1>1. PICK y : y = ide_atapi_cmd_error(s, e) OBVIOUS
<1>2. PICK o : o = Failed(s, e) OBVIOUS
<1>3. o.s = y /\ o.b = buf /\ o.error = TRUE BY <1>1, <1>2 DEF Failed, Out
<1>4. /\ y \in CdState /\ y.status = {"READY", "ERR"}
      /\ y.func = "cmd" /\ y.index = s.index /\ y.end = s.end /\ y.packet = p
  BY <1>1, ErrorIs DEF Loaded
<1>5. Phase(y) BY <1>4 DEF Phase, Window, Loaded
<1>6. QED BY <1>2, <1>3, <1>4, <1>5 DEF Refused

LEMMA DoneIs ==
    ASSUME NEW p, NEW s, Loaded(s, p),
           p.op \in {"tur", "ok", "seek"} \/ (Reads(p) /\ p.n = 0)
    PROVE  Plain(s, p, Done(s))
<1>1. PICK y : y = ide_atapi_cmd_ok(s) OBVIOUS
<1>2. PICK o : o = Done(s) OBVIOUS
<1>3. o.s = y /\ o.b = buf /\ o.error = FALSE BY <1>1, <1>2 DEF Done, Out
<1>4. /\ y \in CdState /\ y.status = {"READY", "SEEK"} /\ y.sense = s.sense
      /\ y.func = "cmd" /\ y.index = s.index /\ y.end = s.end /\ y.packet = p
  BY <1>1, OkIs DEF Loaded
<1>5. Phase(y) BY <1>4 DEF Phase, Window, Loaded
<1>6. QED BY <1>2, <1>3, <1>4, <1>5 DEF Plain

LEMMA DescribeIs ==
    ASSUME NEW p, NEW s, Loaded(s, p), p.op \in ReplyOps, p.op # "sense"
    PROVE  Answered(s, p, ide_atapi_cmd_reply(s, p.size, p.max))
<1>1. s \in CdState /\ p \in Packets /\ s.packet = p BY DEF Loaded
<1>2. p.size \in 0..BufBytes /\ p.max \in Nat BY <1>1, PacketIs
<1>3. PICK r : /\ ForReply(MinimumOf(p.size, p.max), r) /\ Prepared(r) /\ r.packet = s.packet /\ r.sense = s.sense
              /\ ide_atapi_cmd_reply(s, p.size, p.max) = ide_atapi_cmd_reply_end(r, Labelled(p.size, buf))
  BY <1>1, <1>2, ReplyCall
<1>4. QED BY <1>1, <1>3 DEF Answered

\* REQUEST SENSE takes an attention back.
LEMMA SenseIs ==
    ASSUME NEW p, NEW s, Loaded(s, p), p.op = "sense"
    PROVE  Answered(s, p, RequestSense(s, p))
<1>1. s \in CdState /\ p \in Packets /\ s.packet = p BY DEF Loaded
<1>2. p.size \in 0..BufBytes /\ p.max \in Nat BY <1>1, PacketIs
<1>3. PICK e \in Senses : e = IF s.sense = "attention" THEN "none" ELSE s.sense BY <1>1 DEF CdState, Senses
<1>4. PICK t : t = [s EXCEPT !.sense = e] OBVIOUS
<1>5. t \in CdState /\ t.packet = p BY <1>1, <1>4 DEF CdState
<1>6. RequestSense(s, p) = ide_atapi_cmd_reply(t, p.size, p.max) BY <1>3, <1>4, Zenon DEF RequestSense
<1>7. PICK r : /\ ForReply(MinimumOf(p.size, p.max), r) /\ Prepared(r) /\ r.packet = t.packet
              /\ ide_atapi_cmd_reply(t, p.size, p.max) = ide_atapi_cmd_reply_end(r, Labelled(p.size, buf))
  BY <1>2, <1>5, ReplyCall
<1>8. QED BY <1>5, <1>6, <1>7 DEF Answered, ReplyOps

LEMMA ReadIs ==
    ASSUME NEW p, NEW s, Loaded(s, p), Reads(p)
    PROVE  Plain(s, p, ReadCommand(s, p)) \/ Reading(s, p, ReadCommand(s, p))
<1>1. s \in CdState /\ p \in Packets /\ s.packet = p BY DEF Loaded
<1>2. CASE p.n = 0 BY <1>2, DoneIs DEF ReadCommand
<1>3. CASE p.n # 0
  <2>1. PICK r : /\ ForRead(p.lba, p.n, Frame(p), r) /\ Prepared(r) /\ r.packet = s.packet /\ r.sense = s.sense
                /\ ide_atapi_cmd_read(s, p.lba, p.n, Frame(p)) = ide_atapi_cmd_reply_end(r, buf)
    BY <1>1, <1>3, ReadCall
  <2>2. ReadCommand(s, p) = ide_atapi_cmd_reply_end(r, buf) BY <1>3, <2>1 DEF ReadCommand
  <2>3. QED BY <1>1, <1>3, <2>1, <2>2 DEF Reading
<1>4. QED BY <1>2, <1>3

LEMMA CommandIs ==
    ASSUME NEW p, NEW s, Loaded(s, p), NEW o, o = ide_atapi_cmd(s, p)
    PROVE  CommandEnd(s, p, o)
<1>1. s \in CdState /\ p \in Packets /\ s.packet = p BY DEF Loaded
<1>2. p.op \in Ops BY <1>1, PacketIs
<1>3. CASE Attention(s, p)
  <2>1. PICK y : y = ide_atapi_cmd_check_status(s) OBVIOUS
  <2>2. o = Out(y, buf, TRUE, TRUE) BY <1>3, <2>1 DEF ide_atapi_cmd
  <2>3. o.s = y /\ o.b = buf /\ o.error = TRUE BY <2>2 DEF Out
  <2>4. y \in CdState /\ y.status = {"ERR"} /\ y.func = "cmd" /\ y.index = s.index /\ y.end = s.end /\ y.packet = p
    BY <2>1, CheckIs DEF Loaded
  <2>5. Phase(y) BY <2>4 DEF Phase, Window, Loaded
  <2>6. QED BY <2>3, <2>4, <2>5 DEF CommandEnd, Refused
<1>4. CASE ~Attention(s, p)
  <2>1. SUFFICES Refused(p, o) \/ Plain(s, p, o) \/ Answered(s, p, o) \/ Reading(s, p, o)
    BY <1>4 DEF CommandEnd
  <2>2. CASE p.op = "tur"
    <3>1. o = TestUnitReady(s) BY <1>4, <2>2 DEF ide_atapi_cmd, Reads
    <3>2. CASE s.changed
      <4>1. PICK t : t = [s EXCEPT !.changed = FALSE] OBVIOUS
      <4>2. t \in CdState /\ t.packet = p /\ t.func = "cmd" /\ t.index = s.index /\ t.end = s.end
        BY <1>1, <4>1 DEF CdState, Loaded
      <4>3. Loaded(t, p) BY <4>2 DEF Loaded, Window
      <4>4. o = Failed(t, "notready") BY <3>1, <3>2, <4>1, Zenon DEF TestUnitReady
      <4>5. QED BY <4>3, <4>4, FailedIs
    <3>3. CASE ~s.changed
      <4>1. o = Done(s) BY <3>1, <3>3 DEF TestUnitReady
      <4>2. QED BY <2>2, <4>1, DoneIs
    <3>4. QED BY <3>2, <3>3
  <2>3. CASE p.op = "sense"
    <3>1. o = RequestSense(s, p) BY <1>4, <2>3 DEF ide_atapi_cmd, Reads
    <3>2. QED BY <2>3, <3>1, SenseIs
  <2>4. CASE p.op = "ok"
    <3>1. o = Done(s) BY <1>4, <2>4 DEF ide_atapi_cmd, Reads
    <3>2. QED BY <2>4, <3>1, DoneIs
  <2>5. CASE p.op = "opcode"
    <3>1. o = Failed(s, "illegal") BY <1>4, <2>5 DEF ide_atapi_cmd, Reads
    <3>2. QED BY <3>1, FailedIs
  <2>6. CASE p.op = "field"
    <3>1. o = Failed(s, "illegal") BY <1>4, <2>6 DEF ide_atapi_cmd, ModeSense, Reads
    <3>2. QED BY <3>1, FailedIs
  <2>7. CASE p.op \in {"mode", "inquiry", "config"}
    <3>1. o = ide_atapi_cmd_reply(s, p.size, p.max) BY <1>4, <2>7 DEF ide_atapi_cmd, ModeSense, Describe, Reads
    <3>2. QED BY <2>7, <3>1, DescribeIs DEF ReplyOps
  <2>8. CASE p.op \in {"toc", "capacity"}
    <3>1. o = Failed(s, "notready") \/ o = ide_atapi_cmd_reply(s, p.size, p.max)
      BY <1>4, <2>8 DEF ide_atapi_cmd, AskMedium, Reads
    <3>2. QED BY <2>8, <3>1, FailedIs, DescribeIs DEF ReplyOps
  <2>9. CASE p.op = "seek"
    <3>1. o = Failed(s, "notready") \/ o = Failed(s, "illegal") \/ o = Done(s)
      BY <1>4, <2>9 DEF ide_atapi_cmd, Seek, Reads
    <3>2. QED BY <2>9, <3>1, FailedIs, DoneIs
  <2>10. CASE p.op \in {"read", "raw"}
    <3>0. Reads(p) BY <2>10 DEF Reads
    <3>1. o = ReadCommand(s, p) BY <1>4, <2>10, <3>0 DEF ide_atapi_cmd, Reads
    <3>2. QED BY <3>0, <3>1, ReadIs
  <2>11. QED BY <1>2, <2>2, <2>3, <2>4, <2>5, <2>6, <2>7, <2>8, <2>9, <2>10 DEF Ops
<1>5. QED BY <1>3, <1>4

\* What every command leaves behind.
LEMMA CommandPhase ==
    ASSUME NEW p, NEW s, Loaded(s, p), NEW o, o = ide_atapi_cmd(s, p)
    PROVE  /\ Phase(o.s) /\ DOMAIN o.b = DOMAIN buf /\ o.error \in BOOLEAN /\ o.s.packet = p
           /\ ~o.error /\ p.op # "sense" => o.s.sense = s.sense
<1>1. CommandEnd(s, p, o) BY CommandIs
<1>2. CASE Refused(p, o) BY <1>2 DEF Refused
<1>3. CASE Plain(s, p, o) BY <1>3 DEF Plain
<1>4. CASE Answered(s, p, o)
  <2>1. PICK r : /\ Prepared(r) /\ r.packet = p /\ (p.op # "sense" => r.sense = s.sense)
                /\ o = ide_atapi_cmd_reply_end(r, Labelled(p.size, buf))
    BY <1>4 DEF Answered
  <2>2. Orderly(r, Labelled(p.size, buf), o) BY <2>1, ReplyEndPhase
  <2>3. DOMAIN Labelled(p.size, buf) = DOMAIN buf BY DEF Labelled
  <2>4. QED BY <2>1, <2>2, <2>3 DEF Orderly
<1>5. CASE Reading(s, p, o)
  <2>1. PICK r : /\ Prepared(r) /\ r.packet = p /\ r.sense = s.sense /\ o = ide_atapi_cmd_reply_end(r, buf)
    BY <1>5 DEF Reading
  <2>2. Orderly(r, buf, o) BY <2>1, ReplyEndPhase
  <2>3. QED BY <2>1, <2>2 DEF Orderly
<1>6. QED BY <1>1, <1>2, <1>3, <1>4, <1>5 DEF CommandEnd

-----------------------------------------------------------------------------
(* Phase is kept by every access. *)

\* n bytes have gone through the port.
LEMMA MovedIs ==
    ASSUME NEW s \in CdState, NEW n \in Nat, NEW t, t = [s EXCEPT !.index = @ + n]
    PROVE  /\ t \in CdState /\ t.index = s.index + n /\ t.end = s.end /\ t.func = s.func
           /\ t.pts = s.pts /\ t.ets = s.ets /\ t.io = s.io /\ t.lba = s.lba /\ t.css = s.css
           /\ t.packet = s.packet /\ t.sense = s.sense /\ t.status = s.status /\ t.reason = s.reason
           /\ t.limit = s.limit
<1>1. PICK i \in Nat : i = s.index + n BY DEF CdState
<1>2. t = [s EXCEPT !.index = i] BY <1>1
<1>3. t \in CdState BY <1>2 DEF CdState
<1>4. QED BY <1>1, <1>2, <1>3 DEF CdState

\* A data phase that goes on, and one that ends.
LEMMA MovedPhase ==
    ASSUME NEW s, Phase(s), NEW n \in Nat, NEW t, t = [s EXCEPT !.index = @ + n], t.index < t.end
    PROVE  Phase(t) /\ t.sense = s.sense
<1>1. s \in CdState BY DEF Phase
<1>2. QED BY <1>1, MovedIs DEF Phase, Window, Counted, Uncut, Sectors, Left, CdState

LEMMA EndPhase ==
    ASSUME NEW s, Phase(s), NEW n \in Nat, NEW t, t = [s EXCEPT !.index = @ + n],
           s.func # "cmd", NEW b, NEW o \in EndTransfer(t, b)
    PROVE  /\ Phase(o.s) /\ DOMAIN o.b = DOMAIN b /\ o.error \in BOOLEAN
           /\ ~o.error => o.s.sense = s.sense
<1>1. /\ s \in CdState /\ t \in CdState /\ t.func = s.func /\ t.sense = s.sense /\ t.pts = s.pts
      /\ t.ets = s.ets /\ t.io = s.io /\ t.lba = s.lba /\ t.css = s.css /\ t.packet = s.packet
  BY MovedIs DEF Phase
<1>2. CASE s.func = "stop"
  <2>1. PICK y : y = ide_transfer_stop2(t) OBVIOUS
  <2>2. o = Out(y, b, FALSE, FALSE) BY <1>1, <1>2, <2>1 DEF EndTransfer
  <2>3. o.s = y /\ o.b = b /\ o.error = FALSE BY <2>2 DEF Out
  <2>4. y \in CdState /\ y.func = "stop" /\ y.index = 0 /\ y.end = 0 /\ y.sense = t.sense
    BY <1>1, <2>1, StopIs
  <2>5. Phase(y) BY <2>4, Sizes DEF Phase, Window
  <2>6. QED BY <1>1, <2>3, <2>4, <2>5
<1>3. CASE s.func = "reply"
  <2>1. o = ide_atapi_cmd_reply_end(t, b) BY <1>1, <1>3 DEF EndTransfer
  <2>2. Counted(s) BY <1>3 DEF Phase
  <2>3. Prepared(t) BY <1>1, <2>2 DEF Counted, Uncut, Sectors, Left, Prepared
  <2>4. Orderly(t, b, o) BY <2>1, <2>3, ReplyEndPhase
  <2>5. QED BY <1>1, <2>4 DEF Orderly
<1>4. s.func \in Funcs BY <1>1 DEF CdState
<1>5. QED BY <1>2, <1>3, <1>4 DEF Funcs

\* The packet phase: its last byte runs a command.
Executed(n, p, o) ==
    \E s : /\ Loaded(s, p) /\ s.sense = cd.sense /\ o = ide_atapi_cmd(s, p)
           /\ s.index = cd.index + n /\ s.status = cd.status
           /\ cd' = o.s /\ buf' = o.b
           /\ notice' = (notice /\ ~o.error /\ p.op # "sense")
           /\ due' = Announced(o, n)
           /\ want' = (IF o.error THEN <<>> ELSE Asked(p)) /\ got' = <<>>
LEMMA PacketEnd ==
    ASSUME Phase(cd), cd.func = "cmd", NEW n \in Nat, cd.index + n <= cd.end, NEW polite1,
           PacketAccess(n, polite1)
    PROVE  \/ /\ Phase(cd') /\ cd'.sense = cd.sense /\ cd' = [cd EXCEPT !.index = @ + n]
              /\ UNCHANGED <<buf, want, got, due, notice>>
           \/ \E p \in Packets : \E o : Executed(n, p, o)
<1>1. PICK s : s = [cd EXCEPT !.index = @ + n] OBVIOUS
<1>2. /\ cd \in CdState /\ s \in CdState /\ s.index = cd.index + n /\ s.end = cd.end /\ s.func = "cmd"
      /\ s.sense = cd.sense /\ s.status = cd.status
  BY <1>1, MovedIs DEF Phase
<1>3. CASE s.index < s.end
  <2>1. cd' = s /\ UNCHANGED <<buf, want, got, due, notice>> BY <1>1, <1>3 DEF PacketAccess
  <2>2. Phase(s) /\ s.sense = cd.sense BY <1>1, <1>3, MovedPhase
  <2>3. QED BY <1>1, <2>1, <2>2
<1>4. CASE ~(s.index < s.end)
  <2>1. PICK p \in IF n = 0 THEN {cd.packet} ELSE Packets :
          LET o == ide_atapi_cmd([s EXCEPT !.packet = p], p)
          IN  /\ cd' = o.s /\ buf' = o.b
              /\ notice' = (notice /\ ~o.error /\ p.op # "sense")
              /\ due' = Announced(o, n)
              /\ want' = (IF o.error THEN <<>> ELSE Asked(p)) /\ got' = <<>>
    BY <1>1, <1>4, Zenon DEF PacketAccess
  <2>2. p \in Packets
    <3>1. n = 0 => cd.index = cd.end BY <1>2, <1>4 DEF CdState
    <3>2. QED BY <2>1, <3>1 DEF Phase
  <2>3. PICK t : t = [s EXCEPT !.packet = p] OBVIOUS
  <2>4. p \in Held BY <2>2 DEF Held
  <2>5. t \in CdState BY <1>2, <2>3, <2>4 DEF CdState
  <2>6. /\ t.packet = p /\ t.index = s.index /\ t.end = s.end /\ t.func = "cmd" /\ t.sense = cd.sense
        /\ t.status = cd.status
    BY <1>2, <2>3, <2>5 DEF CdState
  <2>7. Window(t) BY <1>2, <2>6 DEF Phase, Window
  <2>8. Loaded(t, p) BY <2>2, <2>5, <2>6, <2>7 DEF Loaded
  <2>9. Executed(n, p, ide_atapi_cmd(t, p)) BY <1>2, <2>1, <2>3, <2>6, <2>8, Zenon DEF Executed
  <2>10. QED BY <2>2, <2>9
<1>5. QED BY <1>3, <1>4

\* A string access moves whole units of what there is.
LEMMA Units ==
    ASSUME NEW s \in CdState, s.index <= s.end, NEW k \in Nat \ {0}, NEW count \in Nat, NEW n,
           n = MinimumOf(k * count, s.end - s.index) - (MinimumOf(k * count, s.end - s.index) % k)
    PROVE  n \in Nat /\ s.index + n <= s.end
<1>1. PICK a \in Nat : a = k * count OBVIOUS
<1>2. PICK m \in Nat : m = MinimumOf(a, s.end - s.index) /\ s.index + m <= s.end
  BY <1>1 DEF MinimumOf, CdState
<1>3. m % k \in Nat /\ m % k <= m
  <2>1. m = k * (m \div k) + (m % k) /\ m % k \in 0..k - 1 /\ m \div k \in Nat OBVIOUS
  <2>2. k * (m \div k) \in Nat BY <2>1
  <2>3. QED BY <2>1, <2>2
<1>4. n = m - (m % k) BY <1>1, <1>2
<1>5. QED BY <1>2, <1>3, <1>4 DEF CdState

\* Every way through the packet phase, and through a data phase.
PacketPhase == cd.func = "cmd" /\ \E n \in Nat : \E polite1 : cd.index + n <= cd.end /\ PacketAccess(n, polite1)
DataPhase == cd.func # "cmd" /\ \E n \in Nat : cd.index + n <= cd.end /\ Read(n)
LEMMA Accesses ==
    ASSUME PhaseInv, ANext
    PROVE  \/ PacketPhase \/ DataPhase \/ StrayWrite(2) \/ SoftReset \/ ide_change_cd
           \/ \E l \in Limits : WriteLimit(l)
           \/ \E c \in {"PACKET", "IDENTIFY_PACKET", "DEVICE_RESET", "IDENTIFY", "OTHER"} : Command(c)
<1>1. cd \in CdState /\ cd.index <= cd.end BY DEF PhaseInv, Phase, Window
<1>2. \A k \in {2, 4} : k \in Nat OBVIOUS
<1>3. ASSUME NEW k \in {2, 4}, PacketWrite(k) PROVE PacketPhase BY <1>2, <1>3 DEF PacketWrite, PacketPhase
<1>4. ASSUME NEW k \in {2, 4}, ReadData(k) PROVE DataPhase BY <1>2, <1>4 DEF ReadData, DataPhase
<1>5. ASSUME PacketRead(2) PROVE PacketPhase BY <1>5 DEF PacketRead, PacketPhase
<1>6. ASSUME NEW u \in Strings, ReadString(u[1], u[2]) PROVE DataPhase
  <2>1. u[1] \in Nat \ {0} /\ u[2] \in Nat BY AtapiSizes
  <2>2. PICK n : n = MinimumOf(u[1] * u[2], cd.end - cd.index) - (MinimumOf(u[1] * u[2], cd.end - cd.index) % u[1])
    OBVIOUS
  <2>3. cd.func # "cmd" /\ Read(n) BY <1>6, <2>2, Zenon DEF ReadString
  <2>4. n \in Nat /\ cd.index + n <= cd.end BY <1>1, <2>1, <2>2, Units
  <2>5. QED BY <2>3, <2>4 DEF DataPhase
<1>7. ASSUME NEW u \in Strings, PacketString(u[1], u[2]) PROVE PacketPhase
  <2>1. u[1] \in Nat \ {0} /\ u[2] \in Nat BY AtapiSizes
  <2>2. PICK n : n = MinimumOf(u[1] * u[2], cd.end - cd.index) - (MinimumOf(u[1] * u[2], cd.end - cd.index) % u[1])
    OBVIOUS
  <2>3. cd.func = "cmd" /\ \E x : PacketAccess(n, x) BY <1>7, <2>2, Zenon DEF PacketString
  <2>4. n \in Nat /\ cd.index + n <= cd.end BY <1>1, <2>1, <2>2, Units
  <2>5. QED BY <2>3, <2>4 DEF PacketPhase
<1>8. QED BY <1>3, <1>4, <1>5, <1>6, <1>7 DEF ANext

\* Writing a register, giving a command, resetting: the port is restarted or left
\* where it is.
LEMMA LimitPhase ==
    ASSUME PhaseInv, NEW l \in Limits, WriteLimit(l)
    PROVE  PhaseInv'
<1>1. cd \in CdState /\ l \in Nat BY Sizes DEF PhaseInv, Phase
<1>2. cd' = [cd EXCEPT !.limit = l] BY DEF WriteLimit
<1>3. cd' \in CdState BY <1>1, <1>2 DEF CdState
<1>4. Phase(cd') /\ cd'.sense = cd.sense BY <1>1, <1>2, <1>3 DEF PhaseInv, Phase, Window, Counted, Uncut, Sectors, Left, CdState
<1>5. UNCHANGED <<buf, notice>> BY DEF WriteLimit
<1>6. QED BY <1>4, <1>5 DEF PhaseInv

\* A part of the state the data phase does not look at.
Untouched(s, t) ==
    /\ t \in CdState /\ t.func = s.func /\ t.index = s.index /\ t.end = s.end /\ t.packet = s.packet
    /\ t.pts = s.pts /\ t.ets = s.ets /\ t.io = s.io /\ t.lba = s.lba /\ t.css = s.css
LEMMA UntouchedPhase ==
    ASSUME NEW s, Phase(s), NEW t, Untouched(s, t)
    PROVE  Phase(t)
BY DEF Phase, Window, Counted, Uncut, Sectors, Left, Untouched

LEMMA SignatureIs ==
    ASSUME NEW s \in CdState, NEW st \in SUBSET Bits,
           NEW t, t = [s EXCEPT !.reason = "cd", !.limit = 2 * BufBytes, !.status = st]
    PROVE  Untouched(s, t) /\ t.sense = s.sense /\ t.status = st
<1>1. PICK a \in Reasons : a = "cd" BY DEF Reasons
<1>2. PICK l \in Nat : l = 2 * BufBytes BY Sizes
<1>3. t = [s EXCEPT !.reason = a, !.limit = l, !.status = st] BY <1>1, <1>2
<1>4. t \in CdState BY <1>3 DEF CdState
<1>5. QED BY <1>3, <1>4 DEF Untouched, CdState

LEMMA StatusIs ==
    ASSUME NEW s \in CdState, NEW st \in SUBSET Bits, NEW t, t = [s EXCEPT !.status = st]
    PROVE  Untouched(s, t) /\ t.sense = s.sense /\ t.status = st /\ t.reason = s.reason
<1>1. t \in CdState BY DEF CdState
<1>2. QED BY <1>1 DEF Untouched, CdState

\* What the guest's commands do to the port.
Restarted(n, func) ==
    /\ cd' \in CdState /\ cd'.func = func /\ cd'.index = 0 /\ cd'.end = n /\ cd'.status = Busy
    /\ cd'.sense = cd.sense
LEMMA PacketStart ==
    ASSUME cd \in CdState, Command("PACKET")
    PROVE  Restarted(PacketBytes, "cmd") /\ cd'.reason = "cd" /\ polite' = TRUE /\ UNCHANGED buf
<1>1. PICK st \in SUBSET Bits : st = {"READY", "SEEK"} BY DEF Bits
<1>2. PICK a \in Reasons : a = "cd" BY DEF Reasons
<1>3. PICK t : t = [cd EXCEPT !.status = st, !.reason = a] OBVIOUS
<1>4. t \in CdState BY <1>3 DEF CdState
<1>5. t.status = {"READY", "SEEK"} /\ t.reason = "cd" /\ t.sense = cd.sense BY <1>1, <1>2, <1>3, <1>4 DEF CdState
<1>6. cd' = ide_transfer_start2(t, 0, PacketBytes, "cmd") /\ polite' = TRUE /\ UNCHANGED buf
  BY <1>1, <1>2, <1>3, Zenon DEF Command
<1>7. Started(t, 0, PacketBytes, "cmd", cd') BY <1>4, <1>6, StartIs, Sizes DEF Funcs
<1>8. cd'.status = Busy BY <1>5, <1>7 DEF Started, Busy
<1>9. QED BY <1>5, <1>6, <1>7, <1>8, Sizes DEF Started, Restarted

LEMMA IdentifyStart ==
    ASSUME cd \in CdState, Command("IDENTIFY_PACKET")
    PROVE  /\ Restarted(IdBytes, "stop") /\ polite' = FALSE
           /\ buf' = [i \in DOMAIN buf |-> IF i < IdBytes THEN <<"reply", 0, i, 0>> ELSE buf[i]]
<1>1. PICK st \in SUBSET Bits : st = {"READY", "SEEK"} BY DEF Bits
<1>2. PICK t : t = [cd EXCEPT !.status = st] OBVIOUS
<1>3. t \in CdState /\ t.status = {"READY", "SEEK"} /\ t.sense = cd.sense BY <1>1, <1>2, StatusIs DEF Untouched
<1>4. /\ cd' = ide_transfer_start2(t, 0, IdBytes, "stop") /\ polite' = FALSE
      /\ buf' = [i \in DOMAIN buf |-> IF i < IdBytes THEN <<"reply", 0, i, 0>> ELSE buf[i]]
  BY <1>1, <1>2 DEF Command
<1>5. Started(t, 0, IdBytes, "stop", cd') BY <1>3, <1>4, StartIs, Sizes DEF Funcs
<1>6. cd'.status = Busy BY <1>3, <1>5 DEF Started, Busy
<1>7. QED BY <1>3, <1>4, <1>5, <1>6, Sizes DEF Started, Restarted

LEMMA CommandRefused ==
    ASSUME cd \in CdState, NEW c \in {"DEVICE_RESET", "IDENTIFY", "OTHER"}, Command(c)
    PROVE  Untouched(cd, cd') /\ cd'.sense = cd.sense /\ polite' = FALSE /\ UNCHANGED buf
<1>1. CASE c = "DEVICE_RESET"
  <2>1. PICK st \in SUBSET Bits : st = {} OBVIOUS
  <2>2. cd' = [ide_set_signature(cd) EXCEPT !.status = st] /\ polite' = FALSE /\ UNCHANGED buf
    BY <1>1, <2>1 DEF Command
  <2>3. cd' = [cd EXCEPT !.reason = "cd", !.limit = 2 * BufBytes, !.status = st]
    BY <2>2 DEF ide_set_signature, CdState
  <2>4. Untouched(cd, cd') /\ cd'.sense = cd.sense BY <2>3, SignatureIs, Zenon
  <2>5. QED BY <2>2, <2>4
<1>2. CASE c = "IDENTIFY"
  <2>1. PICK st \in SUBSET Bits : st = {"READY", "ERR"} BY DEF Bits
  <2>2. cd' = [ide_set_signature(cd) EXCEPT !.status = st] /\ polite' = FALSE /\ UNCHANGED buf
    BY <1>2, <2>1 DEF Command
  <2>3. cd' = [cd EXCEPT !.reason = "cd", !.limit = 2 * BufBytes, !.status = st]
    BY <2>2 DEF ide_set_signature, CdState
  <2>4. Untouched(cd, cd') /\ cd'.sense = cd.sense BY <2>3, SignatureIs, Zenon
  <2>5. QED BY <2>2, <2>4
<1>3. CASE c = "OTHER"
  <2>1. PICK st \in SUBSET Bits : st = {"READY", "ERR"} BY DEF Bits
  <2>2. cd' = [cd EXCEPT !.status = st] /\ polite' = FALSE /\ UNCHANGED buf
    BY <1>3, <2>1 DEF Command
  <2>3. Untouched(cd, cd') /\ cd'.sense = cd.sense BY <2>2, StatusIs
  <2>4. QED BY <2>2, <2>3
<1>4. QED BY <1>1, <1>2, <1>3

LEMMA CommandKeeps ==
    ASSUME PhaseInv, NEW c \in {"PACKET", "IDENTIFY_PACKET", "DEVICE_RESET", "IDENTIFY", "OTHER"}, Command(c)
    PROVE  PhaseInv'
<1>1. cd \in CdState /\ Phase(cd) BY DEF PhaseInv, Phase
<1>2. notice' = notice BY DEF Command
<1>3. CASE c = "PACKET"
  <2>1. Restarted(PacketBytes, "cmd") /\ UNCHANGED buf BY <1>1, <1>3, PacketStart
  <2>2. Phase(cd') BY <2>1, Sizes DEF Restarted, Phase, Window
  <2>3. QED BY <1>2, <2>1, <2>2 DEF PhaseInv, Restarted
<1>4. CASE c = "IDENTIFY_PACKET"
  <2>1. Restarted(IdBytes, "stop") /\ DOMAIN buf' = DOMAIN buf BY <1>1, <1>4, IdentifyStart
  <2>2. Phase(cd') BY <2>1, Sizes DEF Restarted, Phase, Window
  <2>3. QED BY <1>2, <2>1, <2>2 DEF PhaseInv, Restarted
<1>5. CASE c \in {"DEVICE_RESET", "IDENTIFY", "OTHER"}
  <2>1. Phase(cd') /\ cd'.sense = cd.sense /\ UNCHANGED buf BY <1>1, <1>5, CommandRefused, UntouchedPhase
  <2>2. QED BY <1>2, <2>1 DEF PhaseInv
<1>6. QED BY <1>3, <1>4, <1>5

LEMMA ResetIs ==
    ASSUME cd \in CdState, SoftReset
    PROVE  Untouched(cd, cd') /\ cd'.sense = cd.sense
<1>1. PICK st \in SUBSET Bits : st = {"READY", "SEEK"} BY DEF Bits
<1>2. cd' = ide_set_signature([cd EXCEPT !.status = st]) BY <1>1 DEF SoftReset
<1>3. cd' = [cd EXCEPT !.reason = "cd", !.limit = 2 * BufBytes, !.status = st]
  BY <1>2 DEF ide_set_signature, CdState
<1>4. QED BY <1>3, SignatureIs, Zenon

LEMMA ChangeIs ==
    ASSUME cd \in CdState, ide_change_cd
    PROVE  Untouched(cd, cd') /\ cd'.sense = "attention" /\ cd'.status = cd.status /\ cd'.reason = cd.reason
<1>1. PICK e \in Senses : e = "attention" BY DEF Senses
<1>2. cd' = [cd EXCEPT !.sense = e, !.changed = TRUE] BY <1>1 DEF ide_change_cd
<1>3. cd' \in CdState BY <1>2 DEF CdState
<1>4. QED BY <1>1, <1>2, <1>3 DEF Untouched, CdState

LEMMA PacketKeeps ==
    ASSUME PhaseInv, PacketPhase
    PROVE  PhaseInv'
<1>1. PICK n, polite1 : n \in Nat /\ cd.index + n <= cd.end /\ PacketAccess(n, polite1) BY DEF PacketPhase
<1>2. Phase(cd) /\ cd.func = "cmd" BY DEF PhaseInv, PacketPhase
<1>3. CASE Phase(cd') /\ cd'.sense = cd.sense /\ UNCHANGED <<buf, want, got, due, notice>>
  BY <1>3 DEF PhaseInv
<1>4. ASSUME NEW p \in Packets, NEW o, Executed(n, p, o) PROVE PhaseInv'
  <2>1. PICK s : /\ Loaded(s, p) /\ s.sense = cd.sense /\ o = ide_atapi_cmd(s, p)
                /\ cd' = o.s /\ buf' = o.b /\ notice' = (notice /\ ~o.error /\ p.op # "sense")
    BY <1>4 DEF Executed
  <2>2. /\ Phase(o.s) /\ DOMAIN o.b = DOMAIN buf /\ (~o.error /\ p.op # "sense" => o.s.sense = s.sense)
    BY <2>1, CommandPhase
  <2>3. QED BY <2>1, <2>2 DEF PhaseInv
<1>5. QED BY <1>1, <1>2, <1>3, <1>4, PacketEnd

LEMMA DataKeeps ==
    ASSUME PhaseInv, DataPhase
    PROVE  PhaseInv'
<1>1. PICK n \in Nat : cd.index + n <= cd.end /\ Read(n) BY DEF DataPhase
<1>2. Phase(cd) /\ cd.func # "cmd" BY DEF PhaseInv, DataPhase
<1>3. PICK s : s = [cd EXCEPT !.index = @ + n] OBVIOUS
<1>4. PICK o \in IF s.index < s.end THEN {Out(s, buf, FALSE, FALSE)} ELSE EndTransfer(s, buf) : Apply(o)
  BY <1>1, <1>3 DEF Read
<1>5. Phase(o.s) /\ DOMAIN o.b = DOMAIN buf /\ (~o.error => o.s.sense = cd.sense)
  <2>1. CASE s.index < s.end
    <3>1. o.s = s /\ o.b = buf BY <1>4, <2>1 DEF Out
    <3>2. Phase(s) /\ s.sense = cd.sense BY <1>1, <1>2, <1>3, <2>1, MovedPhase
    <3>3. QED BY <3>1, <3>2
  <2>2. CASE ~(s.index < s.end)
    <3>1. o \in EndTransfer(s, buf) BY <1>4, <2>2
    <3>2. QED BY <1>2, <1>3, <3>1, EndPhase
  <2>3. QED BY <2>1, <2>2
<1>6. QED BY <1>4, <1>5 DEF Apply, PhaseInv

LEMMA StrayKeeps ==
    ASSUME PhaseInv, StrayWrite(2)
    PROVE  PhaseInv'
<1>1. Phase(cd) /\ cd.func # "cmd" BY DEF PhaseInv, StrayWrite
<1>2. PICK s : s = [cd EXCEPT !.index = @ + 2] OBVIOUS
<1>3. PICK b : b = [i \in DOMAIN buf |-> IF i \in cd.index..s.index - 1 THEN <<"guest", 0, 0, 0>> ELSE buf[i]] OBVIOUS
<1>4. IF s.index < s.end THEN Apply(Out(s, b, FALSE, FALSE)) ELSE \E o \in EndTransfer(s, b) : Apply(o)
  BY <1>2, <1>3, Zenon DEF StrayWrite
<1>5. PICK o : /\ Apply(o) /\ Phase(o.s) /\ DOMAIN o.b = DOMAIN b /\ (~o.error => o.s.sense = cd.sense)
  <2>1. CASE s.index < s.end
    <3>1. PICK o : o = Out(s, b, FALSE, FALSE) OBVIOUS
    <3>2. Apply(o) /\ o.s = s /\ o.b = b BY <1>4, <2>1, <3>1 DEF Out
    <3>3. Phase(s) /\ s.sense = cd.sense BY <1>1, <1>2, <2>1, MovedPhase
    <3>4. QED BY <3>2, <3>3
  <2>2. CASE ~(s.index < s.end)
    <3>1. PICK o \in EndTransfer(s, b) : Apply(o) BY <1>4, <2>2
    <3>2. QED BY <1>1, <1>2, <3>1, EndPhase
  <2>3. QED BY <2>1, <2>2
<1>6. DOMAIN b = DOMAIN buf BY <1>3
<1>7. QED BY <1>5, <1>6 DEF Apply, PhaseInv

LEMMA PhaseStep ==
    ASSUME PhaseInv, [ANext]_avars
    PROVE  PhaseInv'
<1>1. CASE UNCHANGED avars BY <1>1 DEF avars, PhaseInv, Phase, Window, Counted
<1>2. CASE ANext
  <2>1. Phase(cd) /\ cd \in CdState BY DEF PhaseInv, Phase
  <2>2. CASE PacketPhase BY <2>2, PacketKeeps
  <2>3. CASE DataPhase BY <2>3, DataKeeps
  <2>4. CASE StrayWrite(2) BY <2>4, StrayKeeps
  <2>5. CASE SoftReset
    <3>1. Phase(cd') /\ cd'.sense = cd.sense BY <2>1, <2>5, ResetIs, UntouchedPhase
    <3>2. UNCHANGED <<buf, notice>> BY <2>5 DEF SoftReset
    <3>3. QED BY <3>1, <3>2 DEF PhaseInv
  <2>6. CASE ide_change_cd
    <3>1. Phase(cd') /\ cd'.sense = "attention" BY <2>1, <2>6, ChangeIs, UntouchedPhase
    <3>2. UNCHANGED buf BY <2>6 DEF ide_change_cd
    <3>3. QED BY <3>1, <3>2 DEF PhaseInv
  <2>7. ASSUME NEW l \in Limits, WriteLimit(l) PROVE PhaseInv' BY <2>7, LimitPhase
  <2>8. ASSUME NEW c \in {"PACKET", "IDENTIFY_PACKET", "DEVICE_RESET", "IDENTIFY", "OTHER"}, Command(c) PROVE PhaseInv'
    BY <2>8, CommandKeeps
  <2>9. QED BY <1>2, <2>2, <2>3, <2>4, <2>5, <2>6, <2>7, <2>8, Accesses
<1>3. QED BY <1>1, <1>2

LEMMA PhaseInit ==
    ASSUME AInit
    PROVE  PhaseInv
<1>a. PICK a \in Reasons : a = "cd" BY DEF Reasons
<1>b. PICK st \in SUBSET Bits : st = {"READY", "SEEK"} BY DEF Bits
<1>c. PICK e \in Senses : e = "none" BY DEF Senses
<1>d. PICK f \in Funcs : f = "stop" BY DEF Funcs
<1>e. PICK h \in Held : h = <<>> BY DEF Held
<1>f. PICK l \in Nat : l = 2 * BufBytes BY Sizes
<1>1. a = "cd" /\ st = {"READY", "SEEK"} /\ e = "none" /\ f = "stop" /\ h = <<>> /\ l = 2 * BufBytes
  BY <1>a, <1>b, <1>c, <1>d, <1>e, <1>f
<1>2. PICK z \in Nat : z = 0 OBVIOUS
<1>3. z \in Int OBVIOUS
<1>4. cd = [reason |-> a, limit |-> l, status |-> st, sense |-> e, changed |-> FALSE, pts |-> z, ets |-> z, io |-> z,
            lba |-> z, css |-> z, packet |-> h, func |-> f, index |-> z, end |-> z]
  BY <1>1, <1>2 DEF AInit
<1>5. cd \in CdState BY <1>3, <1>4 DEF CdState
<1>6. cd.func = "stop" /\ cd.index = 0 /\ cd.end = 0 BY <1>1, <1>2, <1>4
<1>7. Phase(cd) BY <1>5, <1>6, Sizes DEF Phase, Window
<1>8. QED BY <1>7 DEF AInit, PhaseInv

THEOREM PhaseSafe == ASpec => []PhaseInv
<1>1. AInit => PhaseInv BY PhaseInit
<1>2. PhaseInv /\ [ANext]_avars => PhaseInv' BY PhaseStep
<1>3. QED BY <1>1, <1>2, PTL DEF ASpec

\* The data port never leaves io_buffer, whatever the guest does.
THEOREM CdSafe == ASpec => []CdWithinBuffer
<1>1. PhaseInv => CdWithinBuffer BY DEF PhaseInv, Phase, Window, CdWithinBuffer
<1>2. QED BY <1>1, PhaseSafe, PTL

\* While a change of the disc is unreported, a step that changes what a command
\* asked for drops it or is INQUIRY.
LEMMA ReportStep ==
    ASSUME PhaseInv, ANext, notice, notice', want' # want
    PROVE  want' = <<>> \/ cd'.packet.op = "inquiry"
<1>1. cd.sense = "attention" /\ Phase(cd) BY DEF PhaseInv
<1>2. CASE PacketPhase
  <2>1. PICK n, polite1 : n \in Nat /\ cd.index + n <= cd.end /\ PacketAccess(n, polite1) BY <1>2 DEF PacketPhase
  <2>2. cd.func = "cmd" BY <1>2 DEF PacketPhase
  <2>3. PICK p, o : p \in Packets /\ Executed(n, p, o) BY <1>1, <2>1, <2>2, PacketEnd
  <2>4. PICK s : Loaded(s, p) /\ s.sense = cd.sense /\ o = ide_atapi_cmd(s, p) /\ cd' = o.s
                /\ notice' = (notice /\ ~o.error /\ p.op # "sense")
    BY <2>3 DEF Executed
  <2>5. CommandEnd(s, p, o) BY <2>4, CommandIs
  <2>6. ~o.error /\ p.op # "sense" BY <2>4
  <2>7. ~Attention(s, p) BY <2>5, <2>6 DEF CommandEnd, Refused
  <2>8. p.op = "inquiry" BY <1>1, <2>4, <2>6, <2>7 DEF Attention
  <2>9. cd'.packet = p BY <2>4, CommandPhase
  <2>10. QED BY <2>8, <2>9
<1>3. CASE DataPhase BY <1>3 DEF DataPhase, Read
<1>4. CASE StrayWrite(2) BY <1>4 DEF StrayWrite
<1>5. CASE SoftReset BY <1>5 DEF SoftReset
<1>6. CASE ide_change_cd BY <1>6 DEF ide_change_cd
<1>7. ASSUME NEW l \in Limits, WriteLimit(l) PROVE want' = <<>> BY <1>7 DEF WriteLimit
<1>8. ASSUME NEW c \in {"PACKET", "IDENTIFY_PACKET", "DEVICE_RESET", "IDENTIFY", "OTHER"}, Command(c) PROVE want' = <<>>
  BY <1>8 DEF Command
<1>9. QED BY <1>2, <1>3, <1>4, <1>5, <1>6, <1>7, <1>8, Accesses

\* A change of the disc, also one in the middle of a transfer, is reported before
\* any command but INQUIRY gives data (ide_atapi_cmd, ide_change_cd).
THEOREM ChangeSafe == ASpec => ChangeReported
<1>1. PhaseInv /\ [ANext]_avars
      => [notice /\ notice' /\ want' # want => want' = <<>> \/ cd'.packet.op = "inquiry"]_avars
  BY ReportStep
<1>2. QED BY <1>1, PhaseSafe, PTL DEF ASpec, ChangeReported

-----------------------------------------------------------------------------
(* Delivery: the bytes of io_buffer. *)

AllBytes(b) == \A i \in 0..BufBytes - 1 : b[i] \in Byte

\* The sector in the buffer is one of the disc, or what was there before.
LEMMA RefilledBytes ==
    ASSUME NEW s \in CdState, NEW b, DOMAIN b = 0..BufBytes - 1, AllBytes(b), disc \in Nat
    PROVE  DOMAIN Refilled(s, b) = 0..BufBytes - 1 /\ AllBytes(Refilled(s, b))
<1>1. CASE ~SectorUsed(s) BY <1>1 DEF Refilled
<1>2. CASE SectorUsed(s)
  <2>1. PICK c : c = SectorRead(s, b) OBVIOUS
  <2>2. c = [i \in 0..BufBytes - 1 |-> IF i >= CdBytes THEN b[i]
                                      ELSE IF OnDisc(s.lba) THEN <<"cd", s.lba, i, disc>> ELSE <<"any", 0, 0, 0>>]
    BY <2>1 DEF SectorRead
  <2>3. ASSUME NEW i \in 0..BufBytes - 1 PROVE c[i] \in Byte
    <3>1. i \in Int /\ s.lba \in Int /\ disc \in Int BY Sizes DEF CdState
    <3>2. <<"cd", s.lba, i, disc>> \in Byte /\ <<"any", 0, 0, 0>> \in Byte BY <3>1 DEF Byte, Kinds
    <3>3. b[i] \in Byte BY DEF AllBytes
    <3>4. QED BY <2>2, <3>2, <3>3
  <2>4. Refilled(s, b) = c BY <1>2, <2>1 DEF Refilled
  <2>5. QED BY <2>2, <2>3, <2>4 DEF AllBytes
<1>3. QED BY <1>1, <1>2

LEMMA ReplyEndBytes ==
    ASSUME NEW s, Prepared(s), NEW b, DOMAIN b = 0..BufBytes - 1, AllBytes(b), disc \in Nat,
           NEW o, o = ide_atapi_cmd_reply_end(s, b)
    PROVE  AllBytes(o.b)
<1>1. s \in CdState BY DEF Prepared
<1>2. AllBytes(Refilled(s, b)) BY <1>1, RefilledBytes
<1>3. CASE Over(s, b, o)
  <2>1. o.b = b BY <1>3 DEF Over, Out
  <2>2. QED BY <2>1
<1>4. CASE Broken(s, b, o) BY <1>2, <1>4 DEF Broken
<1>5. CASE GoneOn(s, b, o)
  <2>1. o.b = Refilled(s, b) BY <1>5 DEF GoneOn, BurstContinued, BurstBegun, Offered
  <2>2. QED BY <1>2, <2>1
<1>6. QED BY <1>3, <1>4, <1>5, ReplyEndIs

LEMMA LabelledBytes ==
    ASSUME DOMAIN buf = 0..BufBytes - 1, AllBytes(buf), NEW size \in Nat
    PROVE  /\ DOMAIN Labelled(size, buf) = 0..BufBytes - 1 /\ AllBytes(Labelled(size, buf))
           /\ \A i \in 0..BufBytes - 1 : i < size => Labelled(size, buf)[i] = <<"reply", 0, i, 0>>
<1>1. PICK c : c = Labelled(size, buf) OBVIOUS
<1>2. c = [i \in 0..BufBytes - 1 |-> IF i < size THEN <<"reply", 0, i, 0>> ELSE buf[i]] BY <1>1 DEF Labelled
<1>3. ASSUME NEW i \in 0..BufBytes - 1 PROVE c[i] \in Byte
  <2>1. i \in Int BY Sizes
  <2>2. <<"reply", 0, i, 0>> \in Byte BY <2>1 DEF Byte, Kinds
  <2>3. buf[i] \in Byte BY DEF AllBytes
  <2>4. QED BY <1>2, <2>2, <2>3
<1>4. QED BY <1>1, <1>2, <1>3 DEF AllBytes

\* Where a byte of a sector read comes from.
LEMMA SectorByte ==
    ASSUME NEW q \in Nat, NEW r \in 0..CdBytes - 1
    PROVE  /\ q * CdBytes \in Nat /\ (q * CdBytes + r) \div CdBytes = q /\ (q * CdBytes + r) % CdBytes = r
<1> DEFINE a == q * CdBytes + r
           x == a \div CdBytes
           y == a % CdBytes
<1>1. CdBytes \in Nat \ {0} BY Sizes
<1>2. q * CdBytes \in Nat /\ a \in Nat BY <1>1
<1>3. x \in Nat /\ y \in 0..CdBytes - 1 /\ a = CdBytes * x + y BY <1>1, <1>2
<1>4. CdBytes * (q - x) = y - r BY <1>1, <1>3
<1>5. y - r < CdBytes /\ r - y < CdBytes BY <1>1, <1>3
<1>6. q - x < 1 /\ x - q < 1
  <2>1. ASSUME q - x >= 1 PROVE FALSE
    <3>1. CdBytes * (q - x) >= CdBytes BY <1>1, <1>3, <2>1
    <3>2. QED BY <1>1, <1>3, <1>4, <1>5, <3>1
  <2>2. ASSUME x - q >= 1 PROVE FALSE
    <3>1. CdBytes * (x - q) >= CdBytes BY <1>1, <1>3, <2>2
    <3>2. CdBytes * (x - q) = r - y BY <1>1, <1>3, <1>4
    <3>3. QED BY <1>1, <1>3, <1>5, <3>1, <3>2
  <2>3. QED BY <1>3, <2>1, <2>2
<1>7. x = q BY <1>3, <1>6
<1>8. QED BY <1>1, <1>2, <1>3, <1>7

-----------------------------------------------------------------------------
(* Delivery: a reply goes on. *)

\* The next sector brings the next bytes.
LEMMA NextServed ==
    ASSUME NEW s, Prepared(s), NEW b, DOMAIN b = 0..BufBytes - 1, NEW w \in Seq(Piece), NEW k, Served(s, b, w, k),
           disc \in Nat, backend \in {"file", "ciso"}, backend = "file" => disc # 0,
           ~(SectorUsed(s) /\ ReadFails(s)), s.lba # NoLba => s.css = CdBytes,
           s.pts > 0
    PROVE  Served(NextSector(s), Refilled(s, b), w, k)
<1>1. PICK t : t = NextSector(s) OBVIOUS
<1>2. PICK c : c = Refilled(s, b) OBVIOUS
<1>3. s \in CdState /\ NoLba \notin Nat BY Sizes DEF Prepared
<1>4. CASE ~SectorUsed(s)
  <2>1. t = s /\ c = b BY <1>1, <1>2, <1>4 DEF NextSector, Refilled
  <2>2. QED BY <1>1, <1>2, <2>1
<1>5. ASSUME SectorUsed(s), NothingWanted(w) PROVE Served(NextSector(s), Refilled(s, b), w, k)
  <2>1. t.pts = s.pts
    <3>1. PICK l \in Int : l = s.lba + 1 BY <1>3 DEF CdState
    <3>2. t = [s EXCEPT !.lba = l, !.io = 0] BY <1>1, <1>5, <3>1, Zenon DEF NextSector
    <3>3. QED BY <1>3, <3>2 DEF CdState
  <2>2. k \in Nat /\ k + t.pts = Len(w) BY <2>1 DEF Served
  <2>3. QED BY <1>1, <1>5, <2>2 DEF Served
<1>6. CASE SectorUsed(s) /\ ~NothingWanted(w)
  <2>1. s.lba # NoLba /\ s.io >= s.css BY <1>6 DEF SectorUsed
  <2>2. s.css = CdBytes /\ s.io = CdBytes BY <1>3, <2>1 DEF Prepared, Uncut, Sectors, CdState
  <2>3. PICK p \in Nat : p = s.packet.lba /\ s.packet \in Packets BY <1>6, <2>1 DEF Served
  <2>4. PICK q \in Nat : q = s.lba - p BY <1>6, <2>1, <2>3 DEF Served
  <2>5. s.lba \in Nat /\ s.lba = p + q /\ SectorsWanted(w, p) /\ k + CdBytes = q * CdBytes + CdBytes /\ k \in Nat /\ k + s.pts = Len(w)
    BY <1>3, <1>6, <2>1, <2>2, <2>3, <2>4 DEF Served, CdState
  <2>6. t.lba = s.lba + 1 /\ t.io = 0 /\ t.packet = s.packet /\ t.pts = s.pts
    <3>1. PICK l \in Int : l = s.lba + 1 BY <1>3 DEF CdState
    <3>2. t = [s EXCEPT !.lba = l, !.io = 0] BY <1>1, <1>6, <3>1, Zenon DEF NextSector
    <3>3. QED BY <1>3, <3>1, <3>2 DEF CdState
  <2>7. t.lba - p = q + 1 BY <2>5, <2>6
  <2>8. k + CdBytes = (q + 1) * CdBytes + 0 BY <2>5, Sizes
  <2>9. c = SectorRead(s, b) BY <1>2, <1>6 DEF Refilled
  <2>10. ~ReadFails(s) BY <1>6
  <2>11. Capacity = CdSectors
    <3>1. CASE backend = "file" BY <3>1 DEF Capacity
    <3>2. CASE backend = "ciso"
      <4>1. OnDisc(s.lba) BY <2>2, <2>10, <3>2 DEF ReadFails
      <4>2. Capacity # 0 BY <4>1 DEF OnDisc
      <4>3. disc = 0 => Capacity = 0 BY DEF Capacity
      <4>4. disc # 0 BY <4>1, <4>2, <4>3
      <4>5. QED BY <4>4 DEF Capacity
    <3>3. QED BY <3>1, <3>2
  <2>12. ASSUME NEW i \in 0..CdBytes - 1 PROVE SameByte(c[i], <<"cd", t.lba - 1, i>>)
    <3>1. i \in 0..BufBytes - 1 /\ i < CdBytes BY Sizes
    <3>2. t.lba - 1 = s.lba BY <2>5, <2>6
    <3>3. CASE OnDisc(s.lba)
      <4>1. c[i] = <<"cd", s.lba, i, disc>> BY <2>9, <3>1, <3>3, Sizes DEF SectorRead
      <4>2. QED BY <3>2, <4>1 DEF SameByte
    <3>4. CASE ~OnDisc(s.lba) BY <2>11, <3>2, <3>4 DEF SameByte, OnDisc
    <3>5. QED BY <3>3, <3>4
  <2>13. t.lba \in Nat /\ t.lba - p \in Nat BY <2>5, <2>6, <2>7
  <2>14. QED BY <1>1, <1>2, <2>3, <2>5, <2>6, <2>7, <2>8, <2>12, <2>13 DEF Served
<1>7. QED BY <1>4, <1>5, <1>6

\* Of no sector any byte will do.
LEMMA NothingSame ==
    ASSUME NEW w, NothingWanted(w), NEW j \in 1..Len(w), NEW a
    PROVE  SameByte(a, w[j])
<1>1. PICK x \in Int : w[j] = <<"cd", NoLba, x>> BY DEF NothingWanted
<1>2. w[j][1] = "cd" /\ w[j][2] = -1 BY <1>1 DEF NoLba
<1>3. -1 \notin 0..CdSectors - 1 BY Sizes
<1>4. QED BY <1>2, <1>3 DEF SameByte

\* What is offered to the port is what comes next.
LEMMA OfferServed ==
    ASSUME NEW t \in CdState, NEW c, NEW size \in Nat, NEW o, Offered(t, c, size, o),
           NEW w \in Seq(Piece), NEW k \in Nat, Served(t, c, w, k),
           DOMAIN c = 0..BufBytes - 1,
           t.io \in Nat, t.lba # NoLba => t.io + size <= CdBytes /\ t.io < CdBytes, size <= t.pts
    PROVE  /\ Served(o.s, c, w, k + size) /\ Shown(o.s, c, w, k)
           /\ o.s.end - o.s.index = size
<1>1. /\ o.s.index = t.io /\ o.s.end = t.io + size /\ o.s.io = t.io + size /\ o.s.pts = t.pts - size
      /\ o.s.lba = t.lba /\ o.s.packet = t.packet /\ t.pts \in Int
  BY DEF Offered, CdState
<1>2. PICK e \in Nat : e = t.io BY DEF CdState
<1>3. Len(w) \in Nat /\ k + t.pts = Len(w) /\ k + size <= Len(w) BY <1>1 DEF Served
<1>4. k + size \in Nat /\ (k + size) + o.s.pts = Len(w)
  <2>1. PICK u \in Int, v \in Nat : u = t.pts /\ v = Len(w) BY <1>1, <1>3
  <2>2. k + u = v /\ o.s.pts = u - size BY <1>1, <1>3, <2>1
  <2>3. (k + size) + (u - size) = v BY <2>2
  <2>4. QED BY <2>1, <2>2, <2>3
<1>5. CASE t.lba = NoLba /\ ~NothingWanted(w)
  <2>1. /\ k = e /\ ReplyWanted(w) /\ t.io + t.pts <= BufBytes
        /\ \A i \in 0..Len(w) - 1 : c[i] = <<"reply", 0, i, 0>>
    BY <1>2, <1>5, Sizes DEF Served
  <2>0. o.s.io + o.s.pts <= BufBytes BY <1>1, <1>2, <2>1, Sizes
  <2>2. Served(o.s, c, w, k + size) BY <1>1, <1>2, <1>4, <1>5, <2>0, <2>1 DEF Served
  <2>3. ASSUME NEW i \in e..(e + size) - 1 PROVE SameByte(At(c, i), w[k + 1 + (i - e)])
    <3>1. PICK j \in Nat : j = i + 1 /\ j - 1 = i OBVIOUS
    <3>2. i \in 0..Len(w) - 1 /\ k + 1 + (i - e) = j /\ j \in 1..Len(w) BY <1>3, <2>1, <3>1
    <3>7. i \in 0..BufBytes - 1 BY <1>1, <1>2, <1>3, <2>1, Sizes
    <3>3. At(c, i) = <<"reply", 0, i, 0>> BY <2>1, <3>2, <3>7 DEF At
    <3>4. w[j] = <<"reply", 0, i>> BY <2>1, <3>1, <3>2 DEF ReplyWanted
    <3>5. SameByte(At(c, i), w[j]) BY <3>3, <3>4 DEF SameByte
    <3>6. QED BY <3>2, <3>5
  <2>4. Shown(o.s, c, w, k) BY <1>1, <1>2, <2>3 DEF Shown
  <2>5. (t.io + size) - t.io = size BY <1>2
  <2>6. QED BY <1>1, <2>2, <2>4, <2>5
<1>6. CASE t.lba # NoLba /\ ~NothingWanted(w)
  <2>1. /\ t.lba \in Nat /\ t.packet \in Packets /\ t.lba - t.packet.lba \in Nat
        /\ SectorsWanted(w, t.packet.lba) /\ k + CdBytes = (t.lba - t.packet.lba) * CdBytes + t.io
        /\ \A i \in t.io..CdBytes - 1 : SameByte(c[i], <<"cd", t.lba - 1, i>>)
    BY <1>6 DEF Served
  <2>2. PICK p \in Nat : p = t.packet.lba BY <1>6 DEF Served
  <2>3. PICK q \in Nat : q = t.lba - p BY <2>1, <2>2
  <2>4. t.lba = p + q /\ k + CdBytes = q * CdBytes + e /\ e + size <= CdBytes /\ e < CdBytes
    <3>1. t.lba # NoLba BY <1>6
    <3>2. e + size <= CdBytes /\ e < CdBytes BY <1>2, <3>1
    <3>3. t.lba - t.packet.lba = q BY <2>2, <2>3
    <3>4. k + CdBytes = q * CdBytes + e BY <1>2, <2>1, <3>3
    <3>5. t.lba = p + q
      <4>1. PICK u \in Nat : u = t.lba BY <2>1
      <4>2. q = u - p BY <2>3, <4>1
      <4>3. u = p + q BY <4>2
      <4>4. QED BY <4>1, <4>3
    <3>6. QED BY <3>2, <3>4, <3>5
  <2>5. (k + size) + CdBytes = q * CdBytes + (e + size) BY <2>4, Sizes
  <2>6. \A i \in (e + size)..CdBytes - 1 : SameByte(c[i], <<"cd", t.lba - 1, i>>)
    <3>1. \A i \in (e + size)..CdBytes - 1 : i \in e..CdBytes - 1 BY Sizes
    <3>2. QED BY <1>2, <2>1, <3>1
  <2>7. Served(o.s, c, w, k + size) BY <1>1, <1>2, <1>4, <2>1, <2>2, <2>3, <2>5, <2>6 DEF Served
  <2>8. q >= 1
    <3>1. CASE q = 0
      <4>1. q * CdBytes = 0 BY <3>1, Sizes
      <4>2. QED BY <2>4, <4>1, Sizes
    <3>2. QED BY <3>1
  <2>9. PICK r \in Nat : r = q - 1 BY <2>8
  <2>10. k = r * CdBytes + e
    <3>1. q * CdBytes = r * CdBytes + CdBytes BY <2>9, Sizes
    <3>2. r * CdBytes \in Nat BY Sizes
    <3>3. QED BY <2>4, <3>1, <3>2, Sizes
  <2>11. ASSUME NEW i \in e..(e + size) - 1 PROVE SameByte(At(c, i), w[k + 1 + (i - e)])
    <3>1. i \in 0..CdBytes - 1 /\ i \in e..CdBytes - 1 BY <2>4, Sizes
    <3>2. PICK j \in Nat : j = k + 1 + (i - e) BY <3>1
    <3>3. j \in 1..Len(w) BY <1>3, <3>2
    <3>4. j - 1 = r * CdBytes + i
      <4>1. PICK x \in Nat : x = r * CdBytes BY Sizes
      <4>2. k = x + e /\ i \in Nat BY <2>10, <3>1, <4>1
      <4>3. j - 1 = x + i BY <3>2, <4>2
      <4>4. QED BY <4>1, <4>3
    <3>5. (j - 1) \div CdBytes = r /\ (j - 1) % CdBytes = i BY <3>1, <3>4, SectorByte
    <3>6. w[j] = <<"cd", p + (j - 1) \div CdBytes, (j - 1) % CdBytes>> BY <2>1, <2>2, <3>3 DEF SectorsWanted
    <3>7. p + r = t.lba - 1 BY <2>4, <2>9
    <3>8. w[j] = <<"cd", t.lba - 1, i>> BY <3>5, <3>6, <3>7
    <3>9. SameByte(At(c, i), <<"cd", t.lba - 1, i>>)
      <4>1. SameByte(c[i], <<"cd", t.lba - 1, i>>) BY <1>2, <2>1, <3>1
      <4>2. i \in 0..BufBytes - 1 BY <3>1, Sizes
      <4>3. At(c, i) = c[i] BY <4>2 DEF At
      <4>4. QED BY <4>1, <4>3
    <3>10. QED BY <3>2, <3>8, <3>9
  <2>12. QED BY <1>1, <1>2, <2>7, <2>11 DEF Shown
<1>7. CASE NothingWanted(w)
  <2>1. Served(o.s, c, w, k + size) BY <1>4, <1>7 DEF Served
  <2>2. ASSUME NEW i \in e..(e + size) - 1 PROVE SameByte(At(c, i), w[k + 1 + (i - e)])
    <3>1. k + 1 + (i - e) \in 1..Len(w) BY <1>3
    <3>2. QED BY <1>7, <3>1, NothingSame
  <2>3. Shown(o.s, c, w, k) BY <1>1, <1>2, <2>2 DEF Shown
  <2>4. (t.io + size) - t.io = size BY <1>2
  <2>5. QED BY <1>1, <2>1, <2>3, <2>4
<1>8. QED BY <1>5, <1>6, <1>7

\* After ide_atapi_cmd_reply_end a transfer that goes on streams: d is what was
\* announced and has not been moved.
LEMMA Streams ==
    ASSUME NEW s, Prepared(s), NEW b, DOMAIN b = 0..BufBytes - 1, NEW w \in Seq(Piece), NEW k \in Nat, Served(s, b, w, k),
           disc \in Nat, backend \in {"file", "ciso"}, backend = "file" => disc # 0,
           s.status \in {Busy, {"READY", "SEEK"}}, s.ets > 0 => s.reason = "io",
           NEW o, GoneOn(s, b, o),
           NEW d \in Int, d = IF o.raised THEN o.s.limit ELSE s.ets
    PROVE  Streaming(o.s, o.b, w, k, d) /\ o.s.status = Busy
<1>1. PICK t : t = NextSector(s) OBVIOUS
<1>2. PICK c : c = Refilled(s, b) OBVIOUS
<1>3. /\ s.pts > 0 /\ ~(SectorUsed(s) /\ ReadFails(s)) /\ (s.lba = NoLba \/ s.css = CdBytes)
      /\ t \in CdState /\ Prepared(t) /\ t.pts = s.pts /\ t.io \in Nat /\ (t.lba # NoLba => t.io < t.css)
      /\ IF t.ets > 0 THEN BurstContinued(t, c, o) /\ t.io \in 0..t.css ELSE BurstBegun(t, c, o)
  BY <1>1, <1>2 DEF GoneOn
<1>4. Served(t, c, w, k) BY <1>1, <1>2, <1>3, NextServed
<1>5. t.reason = s.reason /\ t.status = s.status /\ t.css = s.css BY <1>1, SameRest
<1>6. t.ets = s.ets
  <2>1. s \in CdState BY DEF Prepared
  <2>2. QED BY <1>1, <2>1 DEF NextSector, CdState
<1>7. Phase(o.s) BY OfferedFits
<1>8. PICK size \in Nat :
        /\ Offered(t, c, size, o) /\ size <= t.pts /\ o.s.reason = "io"
        /\ d = o.s.ets + size /\ o.s.ets \in Int
  <2>1. t.pts \in Nat /\ t.ets \in Int BY <1>3 DEF Prepared, Uncut, Sectors, CdState
  <2>2. CASE t.ets > 0
    <3>1. PICK size \in 0..t.ets : Offered(t, c, size, o) /\ o.raised = FALSE /\ o.s.ets = t.ets - size /\ o.s.reason = t.reason
      BY <1>3, <2>2 DEF BurstContinued
    <3>2. t.ets \in 0..t.pts BY <1>3, <2>1, <2>2 DEF Prepared, Uncut, Sectors
    <3>3. size \in Nat /\ size <= t.pts BY <2>1, <3>1, <3>2
    <3>4. d = t.ets BY <1>6, <3>1
    <3>5. d = o.s.ets + size /\ o.s.ets \in Int BY <2>1, <3>1, <3>4
    <3>6. QED BY <1>5, <1>6, <2>2, <3>1, <3>3, <3>5
  <2>3. CASE ~(t.ets > 0)
    <3>1. BurstBegun(t, c, o) BY <1>3, <2>3
    <3>2. PICK m \in 0..t.pts : m = Burst(t) BY <1>3, <2>1, BurstFits
    <3>3. PICK size \in 0..m : Offered(t, c, size, o) /\ o.raised = TRUE /\ o.s.ets = m - size /\ o.s.limit = m /\ o.s.reason = "io"
      BY <3>1, <3>2 DEF BurstBegun
    <3>4. d = m BY <3>3
    <3>5. QED BY <2>1, <3>2, <3>3, <3>4
  <2>4. QED BY <2>2, <2>3
<1>9. /\ o.s.io = t.io + size /\ o.s.css = t.css /\ o.s.lba = t.lba /\ o.s.func = "reply" /\ o.b = c
      /\ o.s.status = IF "ERR" \in t.status THEN t.status ELSE t.status \cup {"DRQ"}
  BY <1>8 DEF Offered
<1>10. t.lba # NoLba => t.io + size <= CdBytes /\ t.io < CdBytes
  <2>1. SUFFICES ASSUME t.lba # NoLba PROVE t.io + size <= CdBytes /\ t.io < CdBytes OBVIOUS
  <2>2. Counted(o.s) BY <1>7, <1>9 DEF Phase
  <2>3. o.s.io \in 0..o.s.css /\ o.s.css = CdBytes BY <1>9, <2>1, <2>2 DEF Counted, Uncut, Sectors
  <2>4. QED BY <1>3, <1>9, <2>1, <2>3, Sizes
<1>14. DOMAIN c = 0..BufBytes - 1 BY <1>2 DEF GoneOn
<1>11. Served(o.s, c, w, k + size) /\ Shown(o.s, c, w, k) /\ o.s.end - o.s.index = size
  BY <1>3, <1>4, <1>8, <1>10, <1>14, OfferServed
<1>12. o.s.status = Busy BY <1>5, <1>9 DEF Busy
<1>13. QED BY <1>8, <1>9, <1>11, <1>12 DEF Streaming

-----------------------------------------------------------------------------
(* Delivery: commands. *)

LEMMA Empty == Len(<<>>) = 0 /\ <<>> \in Seq(Piece) /\ <<>> \in Seq(Byte)
OBVIOUS

\* A guest that is not polite is owed nothing.
LEMMA Silent ==
    ASSUME DeliveryInv, want' = <<>>, got' = <<>>, polite' = FALSE, AllBytes(buf'), UNCHANGED <<backend, disc>>
    PROVE  DeliveryInv'
<1>1. Len(got') <= Len(want') /\ \A i \in 1..Len(got') : SameByte(got'[i], want'[i]) BY Empty
<1>2. QED BY <1>1, Empty DEF DeliveryInv, AllBytes

LEMMA AskedIs ==
    ASSUME NEW p \in Packets
    PROVE  /\ Asked(p) \in Seq(Piece)
           /\ p.op \in ReplyOps => Len(Asked(p)) = MinimumOf(p.size, p.max) /\ ReplyWanted(Asked(p))
           /\ Reads(p) => /\ Len(Asked(p)) = p.n * Frame(p)
                          /\ p.lba < 0 => NothingWanted(Asked(p))
                          /\ p.op = "read" /\ p.lba >= 0 => SectorsWanted(Asked(p), p.lba)
           /\ p.op \notin ReplyOps \cup {"read", "raw"} => Len(Asked(p)) = 0
<1>1. CASE Reads(p)
  <2>0. PICK f \in Nat \ {0} : f = Frame(p) /\ (p.op = "read" => f = CdBytes) BY Sizes DEF Frame
  <2>1. PICK n \in Nat : n = p.n * f
    <3>1. p.n \in Nat BY PacketIs
    <3>2. QED BY <3>1
  <2>2. PICK l \in Int : l = p.lba BY PacketIs
  <2>3. PICK w : w = [i \in 1..n |-> <<"cd", IF l < 0 THEN NoLba ELSE l + (i - 1) \div f, (i - 1) % f>>] OBVIOUS
  <2>4. Asked(p) = w
    <3>1. p.op \in {"read", "raw"} BY <1>1 DEF Reads
    <3>2. Asked(p) = [i \in 1..(p.n * Frame(p)) |->
                        <<"cd", IF p.lba < 0 THEN NoLba ELSE p.lba + (i - 1) \div Frame(p), (i - 1) % Frame(p)>>]
      BY <1>1, <3>1 DEF Asked
    <3>3. QED BY <2>0, <2>1, <2>2, <2>3, <3>2, Zenon
  <2>5. \A i \in 1..n : /\ (i - 1) % f \in Int
                        /\ <<"cd", IF l < 0 THEN NoLba ELSE l + (i - 1) \div f, (i - 1) % f>> \in Piece
    <3>1. SUFFICES ASSUME NEW i \in 1..n
                   PROVE  /\ (i - 1) % f \in Int
                          /\ <<"cd", IF l < 0 THEN NoLba ELSE l + (i - 1) \div f, (i - 1) % f>> \in Piece
      OBVIOUS
    <3>2. PICK j \in Nat : j = i - 1 OBVIOUS
    <3>3. PICK x \in Int : x = j \div f OBVIOUS
    <3>4. PICK y \in Int : y = j % f OBVIOUS
    <3>5. PICK z \in Int : z = IF l < 0 THEN NoLba ELSE l + x BY Sizes
    <3>6. <<"cd", z, y>> \in Piece BY DEF Piece, Kinds
    <3>7. QED BY <3>2, <3>3, <3>4, <3>5, <3>6
  <2>6. w \in [1..n -> Piece]
    <3>1. \A i \in 1..n : w[i] \in Piece BY <2>3, <2>5, Zenon
    <3>2. QED BY <2>3, <3>1
  <2>7. w \in Seq(Piece) /\ Len(w) = n BY <2>6
  <2>8. l < 0 => NothingWanted(w)
    <3>1. SUFFICES ASSUME l < 0, NEW i \in 1..n PROVE \E x \in Int : w[i] = <<"cd", NoLba, x>>
      BY <2>7 DEF NothingWanted
    <3>2. w[i] = <<"cd", NoLba, (i - 1) % f>> BY <2>3, <3>1
    <3>3. (i - 1) % f \in Int BY <2>5
    <3>4. QED BY <3>2, <3>3
  <2>9. p.op = "read" /\ l >= 0 => SectorsWanted(w, l)
    <3>1. SUFFICES ASSUME p.op = "read", l >= 0, NEW i \in 1..n
                   PROVE  w[i] = <<"cd", l + (i - 1) \div CdBytes, (i - 1) % CdBytes>>
      BY <2>7 DEF SectorsWanted
    <3>2. f = CdBytes /\ ~(l < 0) BY <2>0, <3>1
    <3>3. QED BY <2>3, <3>2
  <2>10. p.op \notin ReplyOps BY <1>1 DEF Reads, ReplyOps
  <2>11. p.op \in {"read", "raw"} BY <1>1 DEF Reads
  <2>12. QED BY <1>1, <2>0, <2>1, <2>2, <2>4, <2>7, <2>8, <2>9, <2>10, <2>11
<1>2. CASE p.op \in ReplyOps
  <2>1. PICK n \in Nat : n = MinimumOf(p.size, p.max)
    <3>1. p.size \in Nat /\ p.max \in Nat BY PacketIs, Sizes
    <3>2. QED BY <3>1 DEF MinimumOf
  <2>2. PICK w : w = [i \in 1..n |-> <<"reply", 0, i - 1>>] OBVIOUS
  <2>3. Asked(p) = w BY <1>2, <2>1, <2>2, Zenon DEF Asked, ReplyOps, Reads
  <2>4. \A i \in 1..n : <<"reply", 0, i - 1>> \in Piece BY DEF Piece, Kinds
  <2>5. w \in Seq(Piece) /\ Len(w) = n BY <2>2, <2>4
  <2>6. ReplyWanted(w)
    <3>1. SUFFICES ASSUME NEW i \in 1..n PROVE w[i] = <<"reply", 0, i - 1>> BY <2>5 DEF ReplyWanted
    <3>2. QED BY <2>2
  <2>7. QED BY <1>2, <2>1, <2>3, <2>5, <2>6 DEF ReplyOps, Reads
<1>3. CASE p.op \notin ReplyOps \cup {"read", "raw"}
  <2>1. Asked(p) = <<>> BY <1>3 DEF Asked, ReplyOps, Reads
  <2>2. QED BY <1>3, <2>1, Empty DEF Reads
<1>4. QED BY <1>1, <1>2, <1>3 DEF Reads

\* A reply that is begun has announced what it offers.
LEMMA BegunRaises ==
    ASSUME NEW s, Prepared(s), s.ets = 0, NEW b, NEW o, GoneOn(s, b, o)
    PROVE  o.raised = TRUE
<1>1. NextSector(s).ets = 0
  <2>1. s \in CdState BY DEF Prepared
  <2>2. QED BY <2>1 DEF NextSector, CdState
<1>2. BurstBegun(NextSector(s), Refilled(s, b), o) BY <1>1 DEF GoneOn
<1>3. QED BY <1>2 DEF BurstBegun

\* The end of a command that was not refused, for a guest that asked for w.
Fresh(o, w) ==
    \/ "ERR" \in o.s.status /\ "DRQ" \notin o.s.status /\ o.error = TRUE
    \/ "DRQ" \notin o.s.status /\ o.error = FALSE /\ Len(w) = 0
    \/ /\ o.s.status = Busy /\ o.error = FALSE /\ o.raised = TRUE
       /\ Streaming(o.s, o.b, w, 0, o.s.limit)

Media == disc \in Nat /\ backend \in {"file", "ciso"} /\ (backend = "file" => disc # 0)

LEMMA FreshReply ==
    ASSUME Media, NEW r, Prepared(r), r.status = {"READY", "SEEK"}, r.ets = 0,
           NEW b, DOMAIN b = 0..BufBytes - 1, NEW w \in Seq(Piece),
           Served(r, b, w, 0), NEW o, o = ide_atapi_cmd_reply_end(r, b)
    PROVE  Fresh(o, w)
<1>1. CASE Over(r, b, o)
  <2>1. o.s.status = {"READY", "SEEK"} /\ o.error = FALSE /\ r.pts <= 0 BY <1>1 DEF Over, Out
  <2>2. 0 + r.pts = Len(w) /\ Len(w) \in Nat /\ r.pts \in Int BY DEF Served, Prepared, CdState
  <2>3. Len(w) = 0 BY <2>1, <2>2
  <2>4. QED BY <2>1, <2>3 DEF Fresh
<1>2. CASE Broken(r, b, o) BY <1>2 DEF Broken, Fresh
<1>3. CASE GoneOn(r, b, o)
  <2>1. o.raised = TRUE BY <1>3, BegunRaises
  <2>2. o.s \in CdState /\ o.error = FALSE BY <1>3 DEF GoneOn, BurstContinued, BurstBegun, Offered
  <2>3. o.s.limit \in Int BY <2>2 DEF CdState
  <2>4. PICK d \in Int : d = IF o.raised THEN o.s.limit ELSE r.ets BY <2>1, <2>3
  <2>5. Streaming(o.s, o.b, w, 0, d) /\ o.s.status = Busy BY <1>3, <2>4, Streams DEF Media
  <2>6. d = o.s.limit BY <2>1, <2>4
  <2>7. QED BY <2>1, <2>2, <2>5, <2>6 DEF Fresh
<1>4. QED BY <1>1, <1>2, <1>3, ReplyEndIs

LEMMA CommandFresh ==
    ASSUME Media, DOMAIN buf = 0..BufBytes - 1, AllBytes(buf), NEW p, NEW s, Loaded(s, p), NEW o, o = ide_atapi_cmd(s, p)
    PROVE  Fresh(o, Asked(p)) /\ AllBytes(o.b)
<1>1. CommandEnd(s, p, o) BY CommandIs
<1>2. p \in Packets BY DEF Loaded
<1>3. /\ p.op \in Ops /\ p.lba \in Int /\ p.n \in Nat /\ p.size \in 0..BufBytes /\ p.max \in Nat
  BY <1>2, PacketIs
<1>4. Asked(p) \in Seq(Piece) BY <1>2, AskedIs
<1>5. CASE Refused(p, o) BY <1>5 DEF Refused, Fresh
<1>6. CASE Plain(s, p, o)
  <2>1. Len(Asked(p)) = 0
    <3>1. CASE Reads(p)
      <4>1. p.n = 0 BY <1>6, <3>1 DEF Plain, Reads
      <4>2. Len(Asked(p)) = 0 * Frame(p) BY <1>2, <3>1, <4>1, AskedIs
      <4>3. Frame(p) \in Nat BY Sizes DEF Frame
      <4>4. QED BY <4>2, <4>3
    <3>2. CASE ~Reads(p)
      <4>1. p.op \notin ReplyOps \cup {"read", "raw"} BY <1>6, <3>2 DEF Plain, ReplyOps, Reads
      <4>2. QED BY <1>2, <4>1, AskedIs
    <3>3. QED BY <3>1, <3>2
  <2>2. QED BY <1>6, <2>1 DEF Plain, Fresh
<1>7. CASE Answered(s, p, o)
  <2>1. PICK r : /\ ForReply(MinimumOf(p.size, p.max), r) /\ Prepared(r) /\ p.op \in ReplyOps
                /\ o = ide_atapi_cmd_reply_end(r, Labelled(p.size, buf))
    BY <1>7 DEF Answered
  <2>2. PICK n \in Nat : n = MinimumOf(p.size, p.max) /\ n <= p.size BY <1>3, Sizes DEF MinimumOf
  <2>3. PICK b : b = Labelled(p.size, buf) OBVIOUS
  <2>4. p.size \in Nat BY <1>3, Sizes
  <2>5. /\ DOMAIN b = 0..BufBytes - 1 /\ AllBytes(b)
        /\ \A i \in 0..BufBytes - 1 : i < p.size => b[i] = <<"reply", 0, i, 0>>
    BY <2>3, <2>4, LabelledBytes
  <2>6. Len(Asked(p)) = n /\ ReplyWanted(Asked(p)) BY <1>2, <2>1, <2>2, AskedIs
  <2>7. \A i \in 0..n - 1 : b[i] = <<"reply", 0, i, 0>>
    <3>1. \A i \in 0..n - 1 : i \in 0..BufBytes - 1 /\ i < p.size BY <1>3, <2>2, Sizes
    <3>2. QED BY <2>5, <3>1
  <2>8. r.lba = NoLba /\ r.pts = n /\ r.ets = 0 /\ r.io = 0 /\ r.status = {"READY", "SEEK"} BY <2>1, <2>2 DEF ForReply
  <2>13. n <= BufBytes BY <1>3, <2>2, Sizes
  <2>9. Served(r, b, Asked(p), 0) BY <2>6, <2>7, <2>8, <2>13 DEF Served
  <2>10. Fresh(o, Asked(p)) BY <1>4, <2>1, <2>3, <2>5, <2>8, <2>9, FreshReply
  <2>11. AllBytes(o.b) BY <2>1, <2>3, <2>5, ReplyEndBytes DEF Media
  <2>12. QED BY <2>10, <2>11
<1>8. CASE Reading(s, p, o)
  <2>1. PICK r : /\ ForRead(p.lba, p.n, Frame(p), r) /\ Prepared(r)
                /\ r.packet = p /\ p.n # 0 /\ Reads(p) /\ o = ide_atapi_cmd_reply_end(r, buf)
    BY <1>8 DEF Reading
  <2>2. AllBytes(o.b) BY <2>1, ReplyEndBytes DEF Media
  <2>0. CASE p.lba < 0
    <3>1. r.pts = p.n * Frame(p) /\ r.ets = 0 /\ r.status = {"READY", "SEEK"} BY <2>1 DEF ForRead
    <3>2. Len(Asked(p)) = p.n * Frame(p) /\ NothingWanted(Asked(p)) BY <1>2, <2>0, <2>1, AskedIs
    <3>3. PICK f \in Nat : f = Frame(p) BY Sizes DEF Frame
    <3>4. 0 + p.n * f = p.n * f BY <1>3, <3>3
    <3>5. Served(r, buf, Asked(p), 0) BY <3>1, <3>2, <3>3, <3>4 DEF Served
    <3>6. QED BY <1>4, <2>1, <2>2, <3>1, <3>5, FreshReply
  <2>3. CASE p.op = "raw" /\ p.lba >= 0
    <3>1. r.css = CdBytes + 1 /\ r.lba \in Nat /\ r.pts = p.n * (CdBytes + 1) BY <1>3, <2>1, <2>3 DEF ForRead, Frame
    <3>2. r.css # CdBytes /\ r.lba # NoLba BY <3>1, Sizes
    <3>3. ~GoneOn(r, buf, o) BY <3>2 DEF GoneOn
    <3>4. r.pts > 0
      <4>1. PICK m \in Nat : m = p.n /\ m > 0 BY <1>3, <2>1
      <4>2. m * (CdBytes + 1) > 0 BY <4>1, Sizes
      <4>3. QED BY <3>1, <4>1, <4>2
    <3>5. ~Over(r, buf, o)
      <4>1. r.pts \in Int BY <2>1 DEF Prepared, CdState
      <4>2. ~(r.pts <= 0) BY <3>4, <4>1
      <4>3. QED BY <4>2, Zenon DEF Over
    <3>6. Broken(r, buf, o) BY <2>1, <3>3, <3>5, ReplyEndIs
    <3>7. QED BY <2>2, <3>6 DEF Broken, Fresh
  <2>4. CASE p.op = "read" /\ p.lba >= 0
    <3>1. /\ r.lba = p.lba /\ r.pts = p.n * CdBytes /\ r.ets = 0 /\ r.io = CdBytes /\ r.css = CdBytes
          /\ r.status = {"READY", "SEEK"}
      BY <2>1, <2>4 DEF ForRead, Frame
    <3>2. Len(Asked(p)) = p.n * CdBytes /\ SectorsWanted(Asked(p), p.lba) BY <1>2, <2>1, <2>4, AskedIs DEF Frame
    <3>3. r.lba - r.packet.lba = 0 /\ 0 + CdBytes = 0 * CdBytes + CdBytes BY <1>3, <2>1, <3>1, Sizes
    <3>4. \A i \in r.io..CdBytes - 1 : FALSE BY <3>1, Sizes
    <3>5. p.n * CdBytes \in Nat BY <1>3, Sizes
    <3>6. Served(r, buf, Asked(p), 0) BY <1>2, <1>3, <2>1, <2>4, <3>1, <3>2, <3>3, <3>4, <3>5 DEF Served
    <3>7. QED BY <1>4, <2>1, <2>2, <3>1, <3>6, FreshReply
  <2>5. QED BY <1>3, <2>0, <2>1, <2>3, <2>4 DEF Reads
<1>9. QED BY <1>1, <1>5, <1>6, <1>7, <1>8 DEF CommandEnd

LEMMA PacketDelivers ==
    ASSUME PhaseInv, DeliveryInv, PacketPhase
    PROVE  DeliveryInv'
<1>1. PICK n, polite1 : n \in Nat /\ cd.index + n <= cd.end /\ PacketAccess(n, polite1) BY DEF PacketPhase
<1>2. Phase(cd) /\ cd.func = "cmd" /\ cd \in CdState BY DEF PhaseInv, PacketPhase, Phase
<1>3. UNCHANGED <<backend, disc>> /\ (polite' => polite /\ DRQ(cd))
  <2>1. UNCHANGED <<backend, disc, cmds>> /\ polite' = (polite1 /\ polite /\ DRQ(cd)) BY <1>1, Zenon DEF PacketAccess
  <2>2. QED BY <2>1, Zenon
<1>4. Media /\ DOMAIN buf = 0..BufBytes - 1 /\ AllBytes(buf) BY DEF PhaseInv, DeliveryInv, Media, AllBytes
<1>5. CASE cd' = [cd EXCEPT !.index = @ + n] /\ UNCHANGED <<buf, want, got, due, notice>>
  <2>1. cd'.status = cd.status /\ cd'.func = cd.func /\ cd'.reason = cd.reason BY <1>2, <1>5, MovedIs
  <2>2. DRQ(cd') = DRQ(cd) BY <2>1 DEF DRQ
  <2>3. polite' => /\ cd'.status = Busy /\ cd'.func = "cmd" /\ cd'.reason = "cd" /\ want' = <<>> /\ DRQ(cd')
    BY <1>2, <1>3, <1>5, <2>1, <2>2 DEF DeliveryInv, Streaming
  <2>4. QED BY <1>3, <1>5, <2>3 DEF DeliveryInv
<1>6. ASSUME NEW p \in Packets, NEW o, Executed(n, p, o) PROVE DeliveryInv'
  <2>1. PICK s : /\ Loaded(s, p) /\ o = ide_atapi_cmd(s, p) /\ cd' = o.s /\ buf' = o.b /\ due' = Announced(o, n)
                /\ want' = (IF o.error THEN <<>> ELSE Asked(p)) /\ got' = <<>>
    BY <1>6 DEF Executed
  <2>2. Fresh(o, Asked(p)) /\ AllBytes(o.b) BY <1>4, <2>1, CommandFresh
  <2>3. Asked(p) \in Seq(Piece) /\ Len(Asked(p)) \in Nat BY AskedIs
  <2>4. /\ want' \in Seq(Piece) /\ got' \in Seq(Byte) /\ \A i \in 0..BufBytes - 1 : buf'[i] \in Byte
        /\ Len(got') = 0 /\ Len(want') \in Nat
    BY <2>1, <2>2, <2>3, Empty DEF AllBytes
  <2>5. Len(got') <= Len(want') /\ \A i \in 1..Len(got') : SameByte(got'[i], want'[i]) BY <2>4
  <2>6. disc' \in Nat /\ backend' \in {"file", "ciso"} /\ (backend' = "file" => disc' # 0) BY <1>3, <1>4 DEF Media
  <2>7. CASE "ERR" \in o.s.status /\ "DRQ" \notin o.s.status
    BY <2>1, <2>4, <2>5, <2>6, <2>7 DEF DeliveryInv, DRQ
  <2>8. CASE "DRQ" \notin o.s.status /\ o.error = FALSE /\ Len(Asked(p)) = 0
    <3>1. Len(got') = Len(want') BY <2>1, <2>4, <2>8
    <3>2. QED BY <2>1, <2>4, <2>5, <2>6, <2>8, <3>1 DEF DeliveryInv, DRQ
  <2>9. CASE o.s.status = Busy /\ o.error = FALSE /\ o.raised = TRUE /\ Streaming(o.s, o.b, Asked(p), 0, o.s.limit)
    <3>1. DRQ(o.s) BY <2>9 DEF DRQ, Busy
    <3>2. due' = o.s.limit BY <2>1, <2>9, <3>1 DEF Announced
    <3>3. Streaming(cd', buf', want', Len(got'), due') BY <2>1, <2>4, <2>9, <3>2
    <3>4. QED BY <2>1, <2>4, <2>5, <2>6, <2>9, <3>1, <3>3 DEF DeliveryInv
  <2>10. QED BY <2>2, <2>7, <2>8, <2>9 DEF Fresh
<1>7. QED BY <1>1, <1>2, <1>5, <1>6, PacketEnd

-----------------------------------------------------------------------------
(* Delivery: the data port. *)

LEMMA EndBytes ==
    ASSUME NEW s, Phase(s), NEW n \in Nat, NEW t, t = [s EXCEPT !.index = @ + n], s.func # "cmd",
           NEW b, DOMAIN b = 0..BufBytes - 1, AllBytes(b), disc \in Nat, NEW o \in EndTransfer(t, b)
    PROVE  AllBytes(o.b)
<1>1. /\ s \in CdState /\ t \in CdState /\ t.func = s.func /\ t.pts = s.pts
      /\ t.ets = s.ets /\ t.io = s.io /\ t.lba = s.lba /\ t.css = s.css /\ t.packet = s.packet
  BY MovedIs DEF Phase
<1>2. CASE s.func = "stop"
  <2>1. o.b = b BY <1>1, <1>2 DEF EndTransfer, Out
  <2>2. QED BY <2>1
<1>3. CASE s.func = "reply"
  <2>1. o = ide_atapi_cmd_reply_end(t, b) BY <1>1, <1>3 DEF EndTransfer
  <2>2. Prepared(t) BY <1>1, <1>3 DEF Phase, Counted, Uncut, Sectors, Left, Prepared
  <2>3. QED BY <2>1, <2>2, ReplyEndBytes
<1>4. s.func \in Funcs BY <1>1 DEF CdState
<1>5. QED BY <1>2, <1>3, <1>4 DEF Funcs

LEMMA StrayDelivers ==
    ASSUME PhaseInv, DeliveryInv, StrayWrite(2)
    PROVE  DeliveryInv'
<1>1. Phase(cd) /\ cd.func # "cmd" /\ DOMAIN buf = 0..BufBytes - 1 /\ AllBytes(buf) /\ disc \in Nat
  BY DEF PhaseInv, StrayWrite, DeliveryInv, AllBytes
<1>2. PICK s : s = [cd EXCEPT !.index = @ + 2] OBVIOUS
<1>3. PICK b : b = [i \in DOMAIN buf |-> IF i \in cd.index..s.index - 1 THEN <<"guest", 0, 0, 0>> ELSE buf[i]] OBVIOUS
<1>4. IF s.index < s.end THEN Apply(Out(s, b, FALSE, FALSE)) ELSE \E o \in EndTransfer(s, b) : Apply(o)
  BY <1>2, <1>3, Zenon DEF StrayWrite
<1>5. DOMAIN b = 0..BufBytes - 1 /\ AllBytes(b)
  <2>1. <<"guest", 0, 0, 0>> \in Byte BY DEF Byte, Kinds
  <2>2. QED BY <1>1, <1>3, <2>1 DEF AllBytes
<1>6. AllBytes(buf')
  <2>1. CASE s.index < s.end
    <3>1. Apply(Out(s, b, FALSE, FALSE)) BY <1>4, <2>1
    <3>2. buf' = b BY <3>1 DEF Apply, Out
    <3>3. QED BY <1>5, <3>2
  <2>2. CASE ~(s.index < s.end)
    <3>1. PICK o \in EndTransfer(s, b) : Apply(o) BY <1>4, <2>2
    <3>2. AllBytes(o.b) BY <1>1, <1>2, <1>5, <3>1, EndBytes
    <3>3. QED BY <3>1, <3>2 DEF Apply
  <2>3. QED BY <2>1, <2>2
<1>7. want' = <<>> /\ got' = <<>> /\ polite' = FALSE /\ UNCHANGED <<backend, disc>> BY DEF StrayWrite
<1>8. QED BY <1>6, <1>7, Silent

\* j is g and then h.
Joins(S, g, h, j) ==
    /\ j \in Seq(S) /\ Len(j) = Len(g) + Len(h)
    /\ \A i \in 1..Len(g) : j[i] = g[i]
    /\ \A i \in 1..Len(h) : j[Len(g) + i] = h[i]
LEMMA Joined ==
    ASSUME NEW S, NEW g \in Seq(S), NEW h \in Seq(S)
    PROVE  Joins(S, g, h, g \o h)
<1>1. g \o h \in Seq(S) /\ Len(g \o h) = Len(g) + Len(h) OBVIOUS
<1>2. \A i \in 1..Len(g) : (g \o h)[i] = g[i] OBVIOUS
<1>3. \A i \in 1..Len(h) : (g \o h)[Len(g) + i] = h[i] OBVIOUS
<1>4. QED BY <1>1, <1>2, <1>3 DEF Joins

\* n bytes of a transfer reach the guest.
LEMMA Reached ==
    ASSUME PhaseInv, DeliveryInv, Streaming(cd, buf, want, Len(got), due),
           NEW n \in Nat, cd.index + n <= cd.end,
           NEW g, g = got \o [i \in 1..n |-> At(buf, cd.index + i - 1)]
    PROVE  /\ g \in Seq(Byte) /\ Len(g) = Len(got) + n /\ Len(g) <= Len(want)
           /\ \A i \in 1..Len(g) : SameByte(g[i], want[i])
<1>1. cd \in CdState /\ Window(cd) /\ cd.func = "reply" BY DEF PhaseInv, Phase, Streaming
<1>2. PICK x \in Nat : x = cd.index BY <1>1 DEF CdState
<1>3. PICK e \in Nat : e = cd.end /\ x + n <= e BY <1>1, <1>2 DEF CdState, Window
<1>4. PICK h : h = [i \in 1..n |-> At(buf, x + i - 1)] OBVIOUS
<1>5. PICK m \in Nat : m = Len(got) BY DEF DeliveryInv
<1>6. h \in [1..n -> Byte]
  <2>1. ASSUME NEW i \in 1..n PROVE h[i] \in Byte
    <3>1. PICK y \in Int : y = x + i - 1 OBVIOUS
    <3>2. <<"any", 0, 0, 0>> \in Byte BY DEF Byte, Kinds
    <3>3. At(buf, y) \in Byte BY <3>2 DEF At, PhaseInv, DeliveryInv
    <3>4. QED BY <1>4, <3>1, <3>3
  <2>2. QED BY <1>4, <2>1
<1>7. h \in Seq(Byte) /\ Len(h) = n BY <1>6
<1>8. got \in Seq(Byte) /\ Len(want) \in Nat BY DEF DeliveryInv
<1>9. g = got \o h BY <1>2, <1>4
<1>10. /\ g \in Seq(Byte) /\ Len(g) = m + n /\ (\A i \in 1..m : g[i] = got[i])
       /\ (\A i \in 1..n : g[m + i] = h[i])
  <2>1. Joins(Byte, got, h, g) BY <1>7, <1>8, <1>9, Joined, Zenon
  <2>2. QED BY <1>5, <1>7, <2>1 DEF Joins
<1>11. m + (e - x) + cd.pts = Len(want) /\ cd.pts \in Nat
  <2>1. Served(cd, buf, want, m + (e - x)) BY <1>2, <1>3, <1>5 DEF Streaming
  <2>2. Counted(cd) BY <1>1 DEF PhaseInv, Phase
  <2>3. cd.pts \in Nat BY <2>2 DEF Counted, Uncut, Sectors
  <2>4. m + (e - x) + cd.pts = Len(want) BY <2>1, Zenon DEF Served
  <2>5. QED BY <2>3, <2>4
<1>12. m + n <= Len(want)
  <2>1. PICK u \in Nat, v \in Nat : u = cd.pts /\ v = Len(want) BY <1>8, <1>11
  <2>2. m + (e - x) + u = v BY <1>11, <2>1
  <2>5. x + n <= e BY <1>3
  <2>3. PICK y \in Nat : y = e - (x + n) BY <2>5
  <2>6. e - x = n + y BY <2>3
  <2>7. m + (n + y) + u = v BY <2>2, <2>6
  <2>8. m + n <= v BY <2>7
  <2>4. QED BY <2>1, <2>8
<1>13. ASSUME NEW i \in 1..m + n PROVE SameByte(g[i], want[i])
  <2>1. CASE i <= m
    <3>1. i \in 1..m BY <2>1
    <3>2. QED BY <1>5, <1>10, <3>1 DEF DeliveryInv
  <2>2. CASE i > m
    <3>1. PICK j \in 1..n : i = m + j BY <2>2
    <3>2. g[i] = At(buf, x + j - 1) BY <1>4, <1>10, <3>1
    <3>3. PICK y \in Nat : y = x + j - 1 BY <3>1
    <3>4. y \in x..e - 1 BY <1>3, <3>1, <3>3
    <3>5. m + 1 + (y - x) = i BY <3>1, <3>3
    <3>6. SameByte(At(buf, y), want[m + 1 + (y - x)]) BY <1>2, <1>3, <1>5, <3>4 DEF Streaming, Shown
    <3>7. g[i] = At(buf, y) BY <3>2, <3>3
    <3>8. QED BY <3>5, <3>6, <3>7
  <2>3. i <= m \/ i > m BY <1>5
  <2>4. QED BY <2>1, <2>2, <2>3
<1>14. QED BY <1>5, <1>10, <1>12, <1>13

LEMMA Shifted ==
    ASSUME NEW x \in Nat, NEW e \in Nat, NEW m \in Nat, NEW n \in Nat, NEW i \in x + n..e - 1
    PROVE  i \in x..e - 1 /\ (m + n) + 1 + (i - (x + n)) = m + 1 + (i - x)
OBVIOUS

LEMMA DataDelivers ==
    ASSUME PhaseInv, DeliveryInv, DataPhase
    PROVE  DeliveryInv'
<1>1. PICK n \in Nat : cd.index + n <= cd.end /\ Read(n) BY DEF DataPhase
<1>2. Phase(cd) /\ cd.func # "cmd" /\ cd \in CdState /\ cd.index <= cd.end
  BY DEF PhaseInv, DataPhase, Phase, Window
<1>3. Media /\ DOMAIN buf = 0..BufBytes - 1 /\ AllBytes(buf) BY DEF PhaseInv, DeliveryInv, Media, AllBytes
<1>4. PICK s : s = [cd EXCEPT !.index = @ + n] OBVIOUS
<1>5. PICK o \in IF s.index < s.end THEN {Out(s, buf, FALSE, FALSE)} ELSE EndTransfer(s, buf) :
        cd' = o.s /\ buf' = o.b /\ due' = Announced(o, n)
  BY <1>1, <1>4 DEF Read, Apply
<1>6. /\ polite' = (polite /\ DRQ(cd) /\ n > 0)
      /\ got' = (IF polite' THEN got \o [i \in 1..n |-> At(buf, cd.index + i - 1)] ELSE <<>>)
      /\ want' = (IF polite' THEN want ELSE <<>>)
      /\ UNCHANGED <<backend, disc>>
  BY <1>1 DEF Read
<1>7. /\ s \in CdState /\ s.index = cd.index + n /\ s.end = cd.end /\ s.func = cd.func /\ s.pts = cd.pts
      /\ s.ets = cd.ets /\ s.io = cd.io /\ s.lba = cd.lba /\ s.css = cd.css /\ s.packet = cd.packet
      /\ s.status = cd.status /\ s.reason = cd.reason
  BY <1>2, <1>4, MovedIs
<1>8. AllBytes(buf')
  <2>1. CASE s.index < s.end
    <3>1. o.b = buf BY <1>5, <2>1 DEF Out
    <3>2. QED BY <1>3, <1>5, <3>1
  <2>2. CASE ~(s.index < s.end)
    <3>1. o \in EndTransfer(s, buf) BY <1>5, <2>2
    <3>2. AllBytes(o.b) BY <1>2, <1>3, <1>4, <3>1, EndBytes DEF Media
    <3>3. QED BY <1>5, <3>2
  <2>3. QED BY <2>1, <2>2
<1>9. CASE ~polite'
  <2>1. want' = <<>> /\ got' = <<>> /\ polite' = FALSE BY <1>6, <1>9
  <2>2. QED BY <1>6, <1>8, <2>1, Silent
<1>10. CASE polite'
  <2>1. polite /\ DRQ(cd) /\ want' = want /\ got' = got \o [i \in 1..n |-> At(buf, cd.index + i - 1)]
    BY <1>6, <1>10
  <2>2. cd.status = Busy /\ Streaming(cd, buf, want, Len(got), due) BY <1>2, <2>1 DEF DeliveryInv
  <2>3. PICK w : w = want OBVIOUS
  <2>4. PICK k \in Nat : k = Len(got) + n /\ Len(got) \in Nat BY DEF DeliveryInv
  <2>5. /\ got' \in Seq(Byte) /\ Len(got') = k /\ k <= Len(w)
        /\ \A i \in 1..Len(got') : SameByte(got'[i], w[i])
    BY <1>1, <2>1, <2>2, <2>3, <2>4, Reached
  <2>6. w \in Seq(Piece) /\ Len(w) \in Nat BY <2>3 DEF DeliveryInv
  <2>7. /\ want' \in Seq(Piece) /\ got' \in Seq(Byte) /\ (\A i \in 0..BufBytes - 1 : buf'[i] \in Byte)
        /\ Len(got') <= Len(want') /\ (\A i \in 1..Len(got') : SameByte(got'[i], want'[i]))
        /\ disc' \in Nat /\ backend' \in {"file", "ciso"} /\ (backend' = "file" => disc' # 0)
    BY <1>3, <1>6, <1>8, <2>1, <2>3, <2>5, <2>6 DEF AllBytes, Media
  <2>8. cd.func = "reply" /\ cd.reason = "io" /\ due = cd.ets + (cd.end - cd.index)
        /\ Served(cd, buf, w, Len(got) + (cd.end - cd.index)) /\ Shown(cd, buf, w, Len(got))
    BY <2>2, <2>3 DEF Streaming
  <2>9. SUFFICES \/ cd'.status = Busy /\ Streaming(cd', buf', w, k, due')
                 \/ "DRQ" \notin cd'.status /\ ("ERR" \notin cd'.status => k = Len(w))
    BY <2>1, <2>3, <2>5, <2>7 DEF DeliveryInv, DRQ, Busy
  <2>10. CASE s.index < s.end
    <3>1. o = Out(s, buf, FALSE, FALSE) BY <1>5, <2>10
    <3>2. cd' = s /\ buf' = buf /\ due' = due - n BY <1>5, <3>1 DEF Out, Announced
    <3>3. PICK x, e, d, m : /\ x = cd.index /\ e = cd.end /\ d = cd.ets /\ m = Len(got)
                            /\ x \in Nat /\ e \in Nat /\ d \in Int /\ m \in Nat
      BY <1>2, <2>4 DEF CdState
    <3>4. due - n = d + (e - (x + n)) /\ k + (e - (x + n)) = m + (e - x)
      <4>1. k = m + n BY <2>4, <3>3
      <4>2. due = d + (e - x) BY <2>8, <3>3
      <4>3. x \in Nat /\ e \in Nat /\ d \in Int /\ m \in Nat /\ n \in Nat BY <1>1, <3>3
      <4>4. (m + n) + (e - (x + n)) = m + (e - x) BY <4>3
      <4>5. (d + (e - x)) - n = d + (e - (x + n)) BY <4>3
      <4>6. QED BY <4>1, <4>2, <4>4, <4>5
    <3>5. Served(s, buf, w, k + (s.end - s.index))
      <4>1. Served(cd, buf, w, k + (s.end - s.index)) BY <1>7, <2>8, <3>3, <3>4
      <4>2. QED BY <1>7, <4>1 DEF Served
    <3>6. Shown(s, buf, w, k)
      <4>1. ASSUME NEW i \in x + n..e - 1 PROVE SameByte(At(buf, i), w[k + 1 + (i - (x + n))])
        <5>1. i \in x..e - 1 /\ k + 1 + (i - (x + n)) = m + 1 + (i - x)
          <6>1. k = m + n BY <2>4, <3>3
          <6>2. QED BY <3>3, <6>1, Shifted
        <5>2. SameByte(At(buf, i), w[m + 1 + (i - x)]) BY <2>8, <3>3, <5>1 DEF Shown
        <5>3. QED BY <5>1, <5>2
      <4>2. QED BY <1>7, <3>3, <4>1 DEF Shown
    <3>7. due - n = s.ets + (s.end - s.index) BY <1>7, <3>3, <3>4
    <3>8. Streaming(s, buf, w, k, due - n) BY <1>7, <2>8, <3>5, <3>6, <3>7 DEF Streaming
    <3>9. QED BY <1>7, <2>2, <3>2, <3>8
  <2>11. CASE ~(s.index < s.end)
    <3>1. s.index = s.end /\ cd.end - cd.index = n BY <1>1, <1>2, <1>7, <2>11 DEF CdState
    <3>2. o = ide_atapi_cmd_reply_end(s, buf) BY <1>5, <1>7, <2>8, <2>11 DEF EndTransfer
    <3>3. Counted(cd) BY <1>2, <2>8 DEF Phase
    <3>4. Prepared(s) BY <1>7, <3>3 DEF Counted, Uncut, Sectors, Left, Prepared
    <3>5. Served(s, buf, w, k)
      <4>1. Served(cd, buf, w, k) BY <2>4, <2>8, <3>1
      <4>2. QED BY <1>7, <4>1 DEF Served
    <3>6. due - n = s.ets /\ s.ets \in Int BY <1>7, <2>8, <3>1 DEF CdState
    <3>7. CASE Over(s, buf, o)
      <4>1. o.s.status = {"READY", "SEEK"} BY <3>7 DEF Over
      <4>2. s.pts <= 0 BY <3>7, Zenon DEF Over
      <4>3. s.pts \in Nat BY <1>7, <3>3 DEF Counted, Uncut, Sectors
      <4>4. k + s.pts = Len(w) BY <3>5 DEF Served
      <4>5. k = Len(w) BY <4>2, <4>3, <4>4
      <4>6. QED BY <1>5, <4>1, <4>5
    <3>8. CASE Broken(s, buf, o) BY <1>5, <3>8 DEF Broken
    <3>9. CASE GoneOn(s, buf, o)
      <4>1. o.s \in CdState BY <3>9 DEF GoneOn, BurstContinued, BurstBegun, Offered
      <4>2. PICK d \in Int : d = IF o.raised THEN o.s.limit ELSE s.ets BY <3>6, <4>1 DEF CdState
      <4>3. s.status = Busy /\ s.reason = "io" BY <1>7, <2>2, <2>8
      <4>4. Streaming(o.s, o.b, w, k, d) /\ o.s.status = Busy
        BY <1>3, <2>6, <3>4, <3>5, <3>9, <4>2, <4>3, Streams DEF Media
      <4>5. DRQ(o.s) BY <4>4 DEF DRQ, Busy
      <4>6. due' = d BY <1>5, <3>6, <4>2, <4>5 DEF Announced
      <4>7. QED BY <1>5, <4>4, <4>6
    <3>10. QED BY <3>2, <3>4, <3>7, <3>8, <3>9, ReplyEndIs
  <2>12. QED BY <2>10, <2>11
<1>11. QED BY <1>9, <1>10

LEMMA CommandDelivers ==
    ASSUME PhaseInv, DeliveryInv,
           NEW c \in {"PACKET", "IDENTIFY_PACKET", "DEVICE_RESET", "IDENTIFY", "OTHER"}, Command(c)
    PROVE  DeliveryInv'
<1>1. cd \in CdState /\ DOMAIN buf = 0..BufBytes - 1 /\ AllBytes(buf) BY DEF PhaseInv, Phase, DeliveryInv, AllBytes
<1>2. want' = <<>> /\ got' = <<>> /\ UNCHANGED <<backend, disc>> BY DEF Command
<1>3. CASE c = "PACKET"
  <2>1. Restarted(PacketBytes, "cmd") /\ cd'.reason = "cd" /\ UNCHANGED buf BY <1>1, <1>3, PacketStart
  <2>2. cd'.status = Busy /\ cd'.func = "cmd" /\ DRQ(cd') BY <2>1 DEF Restarted, DRQ, Busy
  <2>3. Len(got') <= Len(want') /\ \A i \in 1..Len(got') : SameByte(got'[i], want'[i]) BY <1>2, Empty
  <2>4. QED BY <1>2, <2>1, <2>2, <2>3, Empty DEF DeliveryInv
<1>4. CASE c = "IDENTIFY_PACKET"
  <2>1. polite' = FALSE /\ buf' = [i \in DOMAIN buf |-> IF i < IdBytes THEN <<"reply", 0, i, 0>> ELSE buf[i]]
    BY <1>1, <1>4, IdentifyStart
  <2>2. AllBytes(buf')
    <3>1. buf' = Labelled(IdBytes, buf) /\ IdBytes \in Nat BY <2>1, Sizes DEF Labelled
    <3>2. QED BY <1>1, <3>1, LabelledBytes
  <2>3. QED BY <1>2, <2>1, <2>2, Silent
<1>5. CASE c \in {"DEVICE_RESET", "IDENTIFY", "OTHER"}
  <2>1. polite' = FALSE /\ UNCHANGED buf BY <1>1, <1>5, CommandRefused
  <2>2. AllBytes(buf') BY <1>1, <2>1 DEF AllBytes
  <2>3. QED BY <1>2, <2>1, <2>2, Silent
<1>6. QED BY <1>3, <1>4, <1>5

\* Nothing a transfer depends on has changed.
LEMMA SameDelivery ==
    ASSUME DeliveryInv, Untouched(cd, cd'), cd'.status = cd.status, cd'.reason = cd.reason,
           UNCHANGED <<buf, backend, want, got, due, polite>>, disc' \in Nat, backend = "file" => disc' # 0
    PROVE  DeliveryInv'
<1>1. DRQ(cd') = DRQ(cd) BY DEF DRQ
<1>2. Streaming(cd, buf, want, Len(got), due) => Streaming(cd', buf', want', Len(got'), due')
  <2>1. SUFFICES ASSUME Streaming(cd, buf, want, Len(got), due)
                 PROVE  Streaming(cd', buf, want, Len(got), due)
    OBVIOUS
  <2>2. PICK k : k = Len(got) + (cd.end - cd.index) OBVIOUS
  <2>3. Served(cd, buf, want, k) /\ Shown(cd, buf, want, Len(got)) BY <2>1, <2>2 DEF Streaming
  <2>4. Served(cd', buf, want, k) BY <2>3 DEF Served, Untouched
  <2>5. Shown(cd', buf, want, Len(got)) BY <2>3 DEF Shown, Untouched
  <2>6. QED BY <2>1, <2>2, <2>4, <2>5 DEF Streaming, Untouched
<1>3. QED BY <1>1, <1>2 DEF DeliveryInv, Untouched

LEMMA DeliveryStep ==
    ASSUME PhaseInv, DeliveryInv, [ANext]_avars
    PROVE  DeliveryInv'
<1>1. cd \in CdState /\ AllBytes(buf) /\ disc \in Nat /\ (backend = "file" => disc # 0) /\ backend \in {"file", "ciso"}
  BY DEF PhaseInv, Phase, DeliveryInv, AllBytes
<1>2. CASE UNCHANGED avars
  <2>1. UNCHANGED <<cd, buf, backend, disc, want, got, due, polite>> BY <1>2 DEF avars
  <2>2. Untouched(cd, cd') BY <1>1, <2>1 DEF Untouched
  <2>3. QED BY <1>1, <2>1, <2>2, SameDelivery
<1>3. CASE ANext
  <2>1. CASE PacketPhase BY <2>1, PacketDelivers
  <2>2. CASE DataPhase BY <2>2, DataDelivers
  <2>3. CASE StrayWrite(2) BY <2>3, StrayDelivers
  <2>4. CASE SoftReset
    <3>1. want' = <<>> /\ got' = <<>> /\ polite' = FALSE /\ UNCHANGED <<buf, backend, disc>> BY <2>4 DEF SoftReset
    <3>2. AllBytes(buf') BY <1>1, <3>1 DEF AllBytes
    <3>3. QED BY <3>1, <3>2, Silent
  <2>5. CASE ide_change_cd
    <3>1. Untouched(cd, cd') /\ cd'.status = cd.status /\ cd'.reason = cd.reason BY <1>1, <2>5, ChangeIs
    <3>2. UNCHANGED <<buf, backend, want, got, due, polite>> BY <2>5 DEF ide_change_cd
    <3>3. disc' \in Nat /\ (backend = "file" => disc' # 0) BY <1>1, <2>5 DEF ide_change_cd
    <3>4. QED BY <3>1, <3>2, <3>3, SameDelivery
  <2>6. ASSUME NEW l \in Limits, WriteLimit(l) PROVE DeliveryInv'
    <3>1. l \in Nat /\ cd' = [cd EXCEPT !.limit = l] /\ UNCHANGED <<buf, backend, disc, want, got, due, polite>>
      BY <2>6, Sizes DEF WriteLimit
    <3>2. cd' \in CdState BY <1>1, <3>1 DEF CdState
    <3>3. Untouched(cd, cd') /\ cd'.status = cd.status /\ cd'.reason = cd.reason
      BY <1>1, <3>1, <3>2 DEF Untouched, CdState
    <3>4. QED BY <1>1, <3>1, <3>3, SameDelivery
  <2>7. ASSUME NEW c \in {"PACKET", "IDENTIFY_PACKET", "DEVICE_RESET", "IDENTIFY", "OTHER"}, Command(c)
        PROVE  DeliveryInv'
    BY <2>7, CommandDelivers
  <2>8. QED BY <1>3, <2>1, <2>2, <2>3, <2>4, <2>5, <2>6, <2>7, Accesses
<1>4. QED BY <1>2, <1>3

LEMMA DeliveryInit ==
    ASSUME AInit
    PROVE  DeliveryInv
<1>1. \A i \in 0..BufBytes - 1 : buf[i] \in Byte
  <2>1. <<"none", 0, 0, 0>> \in Byte BY DEF Byte, Kinds
  <2>2. QED BY <2>1 DEF AInit
<1>2. want = <<>> /\ got = <<>> /\ polite = FALSE /\ disc = 1 /\ backend \in {"file", "ciso"} BY DEF AInit
<1>3. QED BY <1>1, <1>2, Empty DEF DeliveryInv

\* What a guest that keeps to the protocol sees of a command: its bytes, in the
\* bursts announced, each under the right phase (ide_atapi_cmd_reply_end).
THEOREM TransferSafe == ASpec => []TransferExact
<1>1. AInit => PhaseInv /\ DeliveryInv BY PhaseInit, DeliveryInit
<1>2. PhaseInv /\ DeliveryInv /\ [ANext]_avars => PhaseInv' /\ DeliveryInv' BY PhaseStep, DeliveryStep
<1>3. PhaseInv /\ DeliveryInv => TransferExact
  <2>1. SUFFICES ASSUME PhaseInv, DeliveryInv PROVE TransferExact OBVIOUS
  <2>2. DataExact BY <2>1 DEF DeliveryInv, DataExact
  <2>3. BurstExact BY <2>1 DEF DeliveryInv, BurstExact, Streaming
  <2>4. PhaseNamed BY <2>1 DEF DeliveryInv, PhaseNamed, Streaming
  <2>5. QED BY <2>2, <2>3, <2>4 DEF TransferExact
<1>4. QED BY <1>1, <1>2, <1>3, PTL DEF ASpec

================================================================================
