------------------------------ MODULE VgaPorts ------------------------------
(***************************************************************************)
(* The ports of the VGA with a hidden position (vga.c: vga_ioport_read and *)
(* vga_ioport_write): the DAC takes and gives a colour in three accesses   *)
(* of one port, and the attribute controller takes index and data at one   *)
(* port in turn.                                                           *)
(***************************************************************************)
EXTENDS Integers, Sequences

CONSTANTS
    Colours,    \* entries of the palette (256)
    First,      \* indices the guest starts at
    Attrs,      \* attribute indices, and
    Data,       \* attribute bytes it writes
    MaxPorts    \* accesses in a behaviour

VARIABLES
    palette, cache, sub, rindex, windex, dacState,  \* dac_*
    msr,        \* colour emulation: the CRTC and status ports are those at 0x3d0
    ar, arIndex, flip,          \* ar_flip_flop
    feed,       \* what the guest has moved at 0x3c9 since it chose an index:
                \* direction, first index, the bytes, the palette before
    pair,       \* its attribute accesses since 0x3da was heard: "none" before, then
                \* "sync" or "index" in turn
    ports

dacVars == <<palette, cache, sub, rindex, windex, dacState, feed>>
attrVars == <<msr, ar, arIndex, flip, pair>>
portVars == <<dacVars, attrVars, ports>>

PortsSizes == Colours \in Nat \ {0} /\ First \subseteq 0 .. Colours - 1 /\ (Attrs \cup Data) \subseteq 0..255

Access == ports < MaxPorts /\ ports' = ports + 1

-----------------------------------------------------------------------------
(* The DAC.                                                                *)

Feed(dir, i) == [dir |-> dir, first |-> i, bytes |-> <<>>, old |-> palette]
\* Reads and writes share one position: a guest that mixes them has lost it.
Moved(dir, b) == IF feed.dir = dir THEN [feed EXCEPT !.bytes = Append(@, b)] ELSE Feed("mixed", 0)

\* Mutant: the position goes on from where the last colour was left.
WriteIndex_KeepSub(dir, i) ==
    /\ Access
    /\ IF dir = "read" THEN rindex' = i /\ dacState' = 3 /\ UNCHANGED windex
       ELSE windex' = i /\ dacState' = 0 /\ UNCHANGED rindex
    /\ feed' = Feed(dir, i)
    /\ UNCHANGED <<palette, cache, sub, attrVars>>

\* 0x3c7 and 0x3c8.
WriteIndex(dir, i) ==
    /\ Access
    /\ IF dir = "read" THEN rindex' = i /\ dacState' = 3 /\ UNCHANGED windex
       ELSE windex' = i /\ dacState' = 0 /\ UNCHANGED rindex
    /\ sub' = 0 /\ feed' = Feed(dir, i)
    /\ UNCHANGED <<palette, cache, attrVars>>

\* 0x3c9: the third byte stores the colour.
WriteDac(b) ==
    LET c == [cache EXCEPT ![sub] = b]
    IN  /\ Access
        /\ cache' = c /\ sub' = (sub + 1) % 3
        /\ IF sub = 2 THEN palette' = [palette EXCEPT ![windex] = c] /\ windex' = (windex + 1) % Colours
           ELSE UNCHANGED <<palette, windex>>
        /\ feed' = Moved("write", b)
        /\ UNCHANGED <<rindex, dacState, attrVars>>

ReadDac ==
    /\ Access
    /\ sub' = (sub + 1) % 3
    /\ rindex' = IF sub = 2 THEN (rindex + 1) % Colours ELSE rindex
    /\ feed' = Moved("read", palette[rindex][sub])
    /\ UNCHANGED <<palette, cache, windex, dacState, attrVars>>

-----------------------------------------------------------------------------
(* The attribute controller.                                               *)

\* The bits of an attribute register that can be set.
Kept(i, v) ==
    CASE i <= 15 \/ i = 18 -> v % 64
      [] i = 16 -> v - 16 * ((v \div 16) % 2)
      [] i = 17 -> v
      [] OTHER -> v % 16

\* 0x3c0: bit 5 of an index switches the screen on.
WriteAttr(v) ==
    /\ Access
    /\ IF flip = 0 THEN arIndex' = v % 64 /\ UNCHANGED ar
       ELSE /\ ar' = IF arIndex % 32 \in DOMAIN ar
                     THEN [ar EXCEPT ![arIndex % 32] = Kept(arIndex % 32, v)] ELSE ar
            /\ UNCHANGED arIndex
    /\ flip' = 1 - flip
    /\ pair' = (CASE pair.at = "sync" -> [at |-> "index", i |-> v, v |-> v]
                  [] pair.at = "index" -> [at |-> "sync", i |-> pair.i, v |-> v]
                  [] OTHER -> pair)
    /\ UNCHANGED <<dacVars, msr>>

\* A read of the status port at 0x3da, or at 0x3ba where mono emulation has it.
\* The board passes the ports from 0x3c0 to 0x3df on (pc_io_read), and the VGA is
\* deaf at 0x3da in mono emulation: only 0x3da in colour emulation is there.
Heard(colour) == colour /\ msr

\* Mutant: the status port is decoded in both emulations.
ReadStatus_Anywhere(colour) ==
    /\ Access
    /\ flip' = 0
    /\ pair' = IF Heard(colour) THEN [at |-> "sync", i |-> 0, v |-> 0] ELSE pair
    /\ UNCHANGED <<dacVars, msr, ar, arIndex>>

\* It makes the next byte at 0x3c0 an index.
ReadStatus(colour) ==
    /\ Access
    /\ flip' = IF Heard(colour) THEN 0 ELSE flip
    /\ pair' = IF Heard(colour) THEN [at |-> "sync", i |-> 0, v |-> 0] ELSE pair
    /\ UNCHANGED <<dacVars, msr, ar, arIndex>>

\* 0x3c2.
WriteMsr(colour) ==
    /\ Access
    /\ msr' = colour
    /\ UNCHANGED <<dacVars, ar, arIndex, flip, pair>>

\* 0x3c0 and 0x3c1 read back.
vga_ioport_read ==
    [index |-> IF flip = 0 THEN arIndex ELSE 0,
     data |-> IF arIndex % 32 \in DOMAIN ar THEN ar[arIndex % 32] ELSE 0]

\* The ports as the BIOS, or whoever used them last, left them.
PortsInit ==
    /\ palette = [i \in 0 .. Colours - 1 |-> [c \in 0..2 |-> 100 + 3 * i + c]]
    /\ cache = [c \in 0..2 |-> 0] /\ sub \in 0..2 /\ rindex = 0 /\ windex = 0 /\ dacState = 0
    /\ feed = [dir |-> "mixed", first |-> 0, bytes |-> <<>>, old |-> palette]
    /\ msr \in BOOLEAN /\ ar = [i \in 0..20 |-> 0] /\ arIndex = 0 /\ flip \in {0, 1}
    /\ pair = [at |-> "none", i |-> 0, v |-> 0]
    /\ ports = 0

DacNext ==
    \/ \E dir \in {"read", "write"}, i \in First : WriteIndex(dir, i)
    \/ WriteDac(ports)
    \/ ReadDac

AttrNext ==
    \/ \E v \in Attrs \cup Data : WriteAttr(v)
    \/ \E colour \in BOOLEAN : ReadStatus(colour) \/ WriteMsr(colour)

PortsNext == DacNext \/ AttrNext
PortsSpec == PortsInit /\ [][PortsNext]_portVars

-----------------------------------------------------------------------------
(* Properties.                                                             *)

Byte3(k, c) == feed.bytes[3 * k + c + 1]
Entry(k) == (feed.first + k) % Colours

\* A guest that writes colours after choosing an index fills the palette from
\* there, one entry for three bytes, and touches no other entry and none by
\* halves; one that reads gets them the same way.
PaletteExact ==
    LET n == Len(feed.bytes)
    IN  /\ feed.dir = "write" =>
             \A i \in DOMAIN palette :
                LET mine == {k \in 0 .. n \div 3 - 1 : Entry(k) = i}
                IN  \A c \in 0..2 :
                      palette[i][c] = IF mine = {} THEN feed.old[i][c]
                                      ELSE Byte3(CHOOSE k \in mine : \A j \in mine : j <= k, c)
        /\ feed.dir = "read" =>
             \A m \in 1..n : feed.bytes[m] = palette[Entry((m - 1) \div 3)][(m - 1) % 3]

\* A guest that synchronised by reading 0x3da in colour emulation writes index and
\* data in turn: each goes where it was meant to, also after it has changed the
\* emulation or tried the status port of the other one.  In mono emulation no read
\* synchronises (see Heard): a guest that begins there is promised nothing.
PairExact ==
    /\ pair.at = "index" => flip = 1 /\ arIndex = pair.i % 64
    /\ pair.at = "sync" => flip = 0
    /\ pair.at = "sync" /\ pair.i % 32 \in DOMAIN ar /\ pair.v # 0 =>
         vga_ioport_read.data = Kept(pair.i % 32, pair.v)

\* What a guest that keeps to the protocol moves through a port with a hidden
\* position goes where it meant it to, whatever was done to the port before.
PortsExact == PaletteExact /\ PairExact
=============================================================================
