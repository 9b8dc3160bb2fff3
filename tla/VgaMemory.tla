----------------------------- MODULE VgaMemory -----------------------------
(***************************************************************************)
(* The guest's accesses to video memory (vga.c: vga_mem_read, vga_mem_     *)
(* write and their wide forms; pc.c: iomem_read8 .. iomem_write_string).   *)
(* A byte is the set of its one bits, bit by bit a pixel; a register whose *)
(* bits stand for planes is a set of planes.  Video memory interleaves the *)
(* planes: byte 4*k + p is plane p of the eight pixels at k.               *)
(***************************************************************************)
EXTENDS Integers, Sequences

CONSTANTS
    Bits,           \* pixels per byte (8 in the code)
    Span,           \* size of the window at 0xa0000 (0x20000)
    RamSize,        \* vga_ram_size
    Settings,       \* register files the guest starts with
    Addrs, Values,  \* addresses and bytes it uses
    Image,          \* video memory at the start
    MaxOps          \* accesses in a behaviour

VARIABLES
    ram,    \* vga_ram
    latch,  \* latch, plane by plane
    sr,     \* mask: SR02, the planes written; chain4: CHN_4M of SR04
    gr,     \* the graphics controller's registers
    bank,   \* bank_offset
    last,   \* the last access: operation, port to memory, address and bytes
    got,    \* what a read returned
    ops

vgaVars == <<ram, latch, sr, gr, bank, last, got, ops>>

Planes == 0..3
Pixel == 0 .. Bits - 1
Byte == SUBSET Pixel
Cell == 0 .. RamSize - 1
All == Pixel            \* 0xff

Sequencer == [mask : SUBSET Planes, chain4 : BOOLEAN]
Controller == [sr : SUBSET Planes, enable : SUBSET Planes, compare : SUBSET Planes, care : SUBSET Planes,
               rotate : 0..7, func : 0..3, plane : Planes, mode : 0..3, read1 : BOOLEAN, oddeven : BOOLEAN,
               map : 0..3, mask : Byte]

\* The sizes of the code, and what its registers can hold.
VideoSizes ==
    /\ Bits \in Nat /\ Bits >= 4 /\ Span \in Nat \ {0} /\ Span % 8 = 0
    /\ RamSize \in Nat /\ RamSize >= Span /\ RamSize % (Span \div 2) = 0
    /\ Addrs \subseteq 0 .. Span - 1 /\ Values \subseteq Byte /\ Image \in [Cell -> Byte]
    /\ Settings \subseteq [sr : Sequencer, gr : Controller, bank : Nat]

-----------------------------------------------------------------------------
(* The memory map: the offset a window address stands for, if any.         *)

Offset(a) ==
    CASE gr.map = 0 -> {a}
      [] gr.map = 1 -> IF a < Span \div 2 THEN {a + bank} ELSE {}
      [] gr.map = 2 -> {a - Span \div 2} \cap (0 .. Span \div 4 - 1)
      [] gr.map = 3 -> {a - 3 * (Span \div 4)} \cap (0 .. Span \div 4 - 1)

\* Chain-4 and odd/even address one byte, planar access four of them.
OddEven(o) == 2 * (o - (o % 2)) + (2 * (gr.plane \div 2) + (o % 2))
PlanesAt(r, o) == [p \in Planes |-> r[4 * o + p]]

Rotated(v) == {i \in Pixel : (i + gr.rotate) % Bits \in v}
Spread(planes) == [p \in Planes |-> IF p \in planes THEN All ELSE {}]   \* mask16
Combine(f, x, y) ==
    CASE f = 1 -> x \cap y
      [] f = 2 -> x \cup y
      [] f = 3 -> (x \ y) \cup (y \ x)
      [] OTHER -> x

\* Mutant: the bits that are not written are cleared, not taken from the latch.
Latched_Cleared(v) ==
    LET set == [p \in Planes |-> IF p \in gr.enable THEN Spread(gr.sr)[p] ELSE Rotated(v)]
        val == CASE gr.mode = 0 -> set
                 [] gr.mode = 2 -> Spread(v \cap Planes)
                 [] OTHER -> Spread(gr.sr)
        mask == IF gr.mode = 3 THEN gr.mask \cap Rotated(v) ELSE gr.mask
    IN  IF gr.mode = 1 THEN latch
        ELSE [p \in Planes |-> Combine(gr.func, val[p], latch[p]) \cap mask]

\* The word a planar write offers to the planes: the value rotated or spread
\* over them, combined with the latch, under the bit mask.
Latched(v) ==
    LET set == [p \in Planes |-> IF p \in gr.enable THEN Spread(gr.sr)[p] ELSE Rotated(v)]
        val == CASE gr.mode = 0 -> set
                 [] gr.mode = 2 -> Spread(v \cap Planes)
                 [] OTHER -> Spread(gr.sr)
        mask == IF gr.mode = 3 THEN gr.mask \cap Rotated(v) ELSE gr.mask
    IN  IF gr.mode = 1 THEN latch
        ELSE [p \in Planes |-> (Combine(gr.func, val[p], latch[p]) \cap mask) \cup (latch[p] \ mask)]

vga_mem_write(r, a, v) ==
    IF Offset(a) = {} THEN r
    ELSE LET o == CHOOSE x \in Offset(a) : TRUE
             e == OddEven(o)
             w == Latched(v)
         IN  CASE sr.chain4 -> IF o % 4 \in sr.mask THEN [r EXCEPT ![o] = v] ELSE r
               [] ~sr.chain4 /\ gr.oddeven ->
                    IF e % 4 \in sr.mask /\ e \in Cell THEN [r EXCEPT ![e] = v] ELSE r
               [] OTHER ->
                    [c \in Cell |-> IF c \div 4 = o /\ c % 4 \in sr.mask THEN w[c % 4] ELSE r[c]]

\* Bytes written one after another from a.
Bytewise(r, a, vs) ==
    LET f[i \in 0 .. Len(vs)] == IF i = 0 THEN r ELSE vga_mem_write(f[i - 1], a + i - 1, vs[i])
    IN  f[Len(vs)]

Put(r, o, vs) == [c \in Cell |-> IF c \in o .. o + Len(vs) - 1 THEN vs[c - o + 1] ELSE r[c]]

\* Mutant: a wide access leaves the bank out.
Chained_NoBank(r, a, vs) ==
    IF Offset(a) = {} THEN r
    ELSE LET o == CHOOSE x \in Offset(a) : TRUE
         IN  IF o % 4 \in sr.mask THEN Put(r, o - bank, vs) ELSE r

\* In chain-4 mode several bytes at once, all under the first one's plane.
Chained(r, a, vs) ==
    IF Offset(a) = {} THEN r
    ELSE LET o == CHOOSE x \in Offset(a) : TRUE
         IN  IF o % 4 \in sr.mask THEN Put(r, o, vs) ELSE r

vga_mem_write_wide(r, a, vs) == IF sr.chain4 THEN Chained(r, a, vs) ELSE Bytewise(r, a, vs)

\* FALSE sends the caller to its loop over single elements.
StringTaken(a) == sr.chain4 /\ \E o \in Offset(a) : o % 4 \in sr.mask

vga_mem_read(a) ==
    IF Offset(a) = {} THEN [v |-> All, latch |-> latch]
    ELSE LET o == CHOOSE x \in Offset(a) : TRUE
             e == OddEven(o)
             w == PlanesAt(ram, o)
         IN  CASE sr.chain4 -> [v |-> ram[o], latch |-> latch]
               [] ~sr.chain4 /\ gr.oddeven -> [v |-> IF e \in Cell THEN ram[e] ELSE All, latch |-> latch]
               [] ~sr.chain4 /\ ~gr.oddeven /\ 4 * o >= RamSize -> [v |-> All, latch |-> latch]
               [] ~sr.chain4 /\ ~gr.oddeven /\ 4 * o < RamSize ->
                    [v |-> IF gr.read1
                           THEN {i \in Pixel : \A p \in gr.care : (i \in w[p]) = (p \in gr.compare)}
                           ELSE w[gr.plane],
                     latch |-> w]

-----------------------------------------------------------------------------
(* One access of the guest, through the window or the linear frame buffer. *)

Accessed(op, lfb, a, vs) ==
    /\ ops < MaxOps /\ ops' = ops + 1
    /\ last' = [op |-> op, lfb |-> lfb, a |-> a, vs |-> vs]
    /\ UNCHANGED <<sr, gr, bank>>

Read8(lfb, a) ==
    /\ Accessed("read", lfb, a, <<>>)
    /\ IF lfb THEN got' = (IF a \in Cell THEN ram[a] ELSE {}) /\ UNCHANGED latch
       ELSE LET r == vga_mem_read(a) IN got' = r.v /\ latch' = r.latch
    /\ UNCHANGED ram

\* A word, a long or a string; wide accesses to the frame buffer are dropped
\* when they do not fit.
Write(op, lfb, a, vs) ==
    /\ Accessed(op, lfb, a, vs)
    /\ ram' = (CASE lfb -> IF op = "wide" /\ a + Len(vs) - 1 \notin Cell THEN ram ELSE Put(ram, a, vs)
                 [] ~lfb /\ op = "string" /\ ~StringTaken(a) -> Bytewise(ram, a, vs)
                 [] ~lfb /\ op = "string" /\ StringTaken(a) -> Chained(ram, a, vs)
                 [] ~lfb /\ op = "wide" -> vga_mem_write_wide(ram, a, vs)
                 [] ~lfb /\ op = "byte" -> vga_mem_write(ram, a, vs[1]))
    /\ UNCHANGED <<latch, got>>

\* A wide access lies inside video memory; what is written past it is not
\* modelled.
Inside(lfb, a, n) == lfb \/ ~sr.chain4 \/ \A o \in Offset(a) : o + n <= RamSize

\* The guest switches between the ways to address memory (SR04, GR05, GR06).
Switch(c4, oe, map) ==
    /\ ops < MaxOps /\ ops' = ops + 1
    /\ last' = [op |-> "switch", lfb |-> FALSE, a |-> 0, vs |-> <<>>]
    /\ sr' = [sr EXCEPT !.chain4 = c4]
    /\ gr' = [gr EXCEPT !.oddeven = oe, !.map = map]
    /\ UNCHANGED <<ram, latch, bank, got>>

VgaInit ==
    /\ ram = Image /\ latch = [p \in Planes |-> {}]
    /\ \E s \in Settings : sr = s.sr /\ gr = s.gr /\ bank = s.bank
    /\ last = [op |-> "none", lfb |-> FALSE, a |-> 0, vs |-> <<>>]
    /\ got = {} /\ ops = 0

VgaNext ==
    \/ \E lfb \in BOOLEAN, a \in Addrs : Read8(lfb, a)
    \/ \E lfb \in BOOLEAN, a \in Addrs, v \in Values : Write("byte", lfb, a, <<v>>)
    \/ \E op \in {"wide", "string"}, lfb \in BOOLEAN, a \in Addrs, v, w \in Values :
        Inside(lfb, a, 2) /\ Write(op, lfb, a, <<v, w>>)
    \/ \E c4, oe \in BOOLEAN, map \in {0, 1} : Switch(c4, oe, map)

VgaSpec == VgaInit /\ [][VgaNext]_vgaVars

-----------------------------------------------------------------------------
(* Properties.                                                             *)

\* The colour of pixel i at k: the planes whose bit is set.
Colour(r, k, i) == {p \in Planes : i \in r[4 * k + p]}

Planar == ~sr.chain4 /\ ~gr.oddeven

\* The colour a planar write draws pixel i in, before logic and masks.
Ink(v, i) ==
    CASE gr.mode = 0 -> (gr.sr \cap gr.enable)
                        \cup (IF (i + gr.rotate) % Bits \in v THEN Planes \ gr.enable ELSE {})
      [] gr.mode = 2 -> v \cap Planes
      [] OTHER -> gr.sr

\* A byte written through the window touches the enabled planes only.  A planar
\* write to a byte the latch holds draws each selected pixel with its ink,
\* combined with its own colour, and leaves the others; in write mode 1 the
\* pixels get the colours of the byte that was read last.  A colour compare
\* finds the pixels of that colour.
PixelStep ==
       /\ last'.op = "byte" /\ ~last'.lfb /\ ops' > ops =>
            /\ \A c \in Cell : ram'[c] # ram[c] => c % 4 \in sr.mask
            /\ Planar => \A k \in Offset(last'.a) : 4 * k < RamSize =>
                 \A i \in Pixel :
                    LET new == Colour(ram', k, i) \cap sr.mask
                        own == Colour(ram, k, i)
                        hit == i \in gr.mask /\ (gr.mode = 3 => (i + gr.rotate) % Bits \in last'.vs[1])
                    IN  /\ gr.mode = 1 => new = {p \in sr.mask : i \in latch[p]}
                        /\ gr.mode # 1 /\ latch = PlanesAt(ram, k) =>
                             new = (IF hit THEN Combine(gr.func, Ink(last'.vs[1], i), own) ELSE own) \cap sr.mask
       /\ last'.op = "read" /\ ~last'.lfb /\ ops' > ops /\ Planar /\ gr.read1 =>
            \A k \in Offset(last'.a) : 4 * k < RamSize =>
                got' = {i \in Pixel : Colour(ram, k, i) \cap gr.care = gr.compare \cap gr.care}

\* A word, a long or a string does what its bytes would do one by one, where
\* the planes of all or of none are enabled and it does not leave the map.
WideStep ==
    last'.op \in {"wide", "string"} /\ ~last'.lfb /\ ops' > ops =>
        LET a == last'.a  n == Len(last'.vs)
            uniform == sr.chain4 => sr.mask = Planes \/ sr.mask = {}
        IN  uniform /\ Offset(a) # {} /\ Offset(a + n - 1) # {} => ram' = Bytewise(ram, a, last'.vs)

\* What the guest's bytes do to pixels, and a wide access to bytes (vga_mem_write,
\* vga_mem_read, vga_mem_write16, vga_mem_write32, vga_mem_write_string).
VideoExact == [][PixelStep /\ WideStep]_vgaVars
=============================================================================
