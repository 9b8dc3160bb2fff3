------------------------------ MODULE VgaModes ------------------------------
(***************************************************************************)
(* The Bochs display interface of the VGA (vga.c: vbe_write, vbe_read,     *)
(* vbe_fixup_regs, vbe_update_vgaregs) and the geometry vga_graphic_       *)
(* refresh takes from the registers.  The guest selects a register and     *)
(* writes it as one action; the CRT controller is seen by its registers    *)
(* 1, 7, 0x11 and 0x12, register 7 by its two high bits of the height.     *)
(***************************************************************************)
EXTENDS Integers

CONSTANTS
    Choice,     \* values the guest writes, by register
    Banks,      \* vga_ram_size >> 16, a power of two
    MaxWrites   \* writes in a behaviour

VARIABLES
    enabled,    \* VBE_DISPI_ENABLED
    caps,       \* VBE_DISPI_GETCAPS
    vbe,        \* vbe_regs
    line, start,    \* vbe_line_offset, vbe_start_addr
    window,     \* bank_offset, in units of 64 KiB
    cr,         \* CRTC: 1, 7 (bits 1 and 6), 0x11 (bit 7), 0x12
    shift,      \* shift_control of GR05
    linear,     \* chain-4 with every plane enabled and memory map 1
    cleared,    \* bytes of video memory the last write cleared
    meddled,    \* the guest wrote CRTC, SR or GR registers since the last vbe_write
    writes

modeVars == <<enabled, caps, vbe, line, start, window, cr, shift, linear, cleared, meddled, writes>>

Geometry == {"xres", "yres", "bpp", "vwidth", "vheight", "xoff", "yoff"}
Register == Geometry \cup {"bank"}
ModesSizes == Banks \in Nat \ {0} /\ \A i \in Register : i \in DOMAIN Choice /\ Choice[i] \subseteq Nat

Down8(n) == n - (n % 8)
Pixels(bpp) == IF bpp = 15 THEN 16 ELSE bpp

-----------------------------------------------------------------------------
\* Mutant: the virtual width is not raised to the width.
Fixed_NarrowVirtual(q) ==
    LET b == IF q.bpp \in {4, 8, 15, 16, 24, 32} THEN q.bpp ELSE 8
        x == IF Down8(q.xres) = 0 THEN 8 ELSE Down8(q.xres)
    IN  [q EXCEPT !.bpp = b, !.xres = x, !.vwidth = Down8(q.vwidth), !.yres = IF @ = 0 THEN 1 ELSE @]

\* The closest valid registers (vbe_fixup_regs).
Fixed(q) ==
    LET b == IF q.bpp \in {4, 8, 15, 16, 24, 32} THEN q.bpp ELSE 8
        x == IF Down8(q.xres) = 0 THEN 8 ELSE Down8(q.xres)
        v == IF Down8(q.vwidth) < x THEN x ELSE Down8(q.vwidth)
    IN  [q EXCEPT !.bpp = b, !.xres = x, !.vwidth = v, !.yres = IF @ = 0 THEN 1 ELSE @]

LineLength(q) == (q.vwidth * Pixels(q.bpp)) \div 8
StartAddr(q) == ((q.xoff * Pixels(q.bpp)) \div 8 + q.yoff * LineLength(q)) \div 4

\* Registers as written, then fixed and passed on to the VGA's own registers,
\* while the interface is enabled.
Applied(on, q) ==
    LET f == Fixed(q)  h == f.yres - 1
    IN  IF ~on THEN vbe' = q /\ UNCHANGED <<line, start, cr, shift, linear>>
        ELSE /\ vbe' = f
             /\ line' = LineLength(f) /\ start' = StartAddr(f)
             /\ cr' = [cr EXCEPT !.width = (f.xres \div 8 - 1) % 256, !.height = h % 256,
                                 !.high = <<(h \div 256) % 2, (h \div 512) % 2>>]
             /\ shift' = (IF f.bpp = 4 THEN 0 ELSE 2)
             /\ linear' = (linear \/ f.bpp # 4)

Written == writes < MaxWrites /\ writes' = writes + 1

\* VBE_DISPI_INDEX_ENABLE: enabling resets the view, anything else the bank; the
\* screen is cleared as the registers then have it, on or off.
WriteEnable(on, getcaps, noclear) ==
    /\ Written
    /\ enabled' = on /\ caps' = getcaps
    /\ IF on /\ ~enabled
       THEN Applied(on, [vbe EXCEPT !.vwidth = vbe.xres, !.vheight = vbe.yres, !.xoff = 0, !.yoff = 0])
            /\ UNCHANGED window
       ELSE Applied(on, vbe) /\ window' = 0
    /\ cleared' = (IF noclear THEN 0 ELSE vbe'.yres * line')
    /\ meddled' = FALSE

WriteGeometry(i, v) ==
    /\ Written
    /\ Applied(enabled, [vbe EXCEPT ![i] = v])
    /\ meddled' = FALSE /\ cleared' = 0
    /\ UNCHANGED <<enabled, caps, window>>

WriteBank(v) ==
    /\ Written
    /\ window' = v % Banks /\ vbe' = [vbe EXCEPT !.bank = v % Banks]
    /\ cleared' = 0
    /\ UNCHANGED <<enabled, caps, line, start, cr, shift, linear, meddled>>

\* vga_ioport_write of a CRTC register: registers 0 to 7 are protected by bit 7
\* of register 0x11, but for bit 4 of register 7.
WriteCrtc(i, v) ==
    /\ Written
    /\ cr' = (CASE i = 1 /\ ~cr.protect -> [cr EXCEPT !.width = v]
                [] i = 7 /\ ~cr.protect -> [cr EXCEPT !.high = <<v % 2, (v \div 2) % 2>>]
                [] i = 17 -> [cr EXCEPT !.protect = v >= 128]
                [] i = 18 -> [cr EXCEPT !.height = v]
                [] OTHER -> cr)
    /\ meddled' = TRUE /\ cleared' = 0
    /\ UNCHANGED <<enabled, caps, vbe, line, start, window, shift, linear>>

\* A write of SR02, SR04, GR05 or GR06.
WritePlanar(s) ==
    /\ Written
    /\ shift' = s /\ linear' = FALSE
    /\ meddled' = TRUE /\ cleared' = 0
    /\ UNCHANGED <<enabled, caps, vbe, line, start, window, cr>>

ModesInit ==
    /\ enabled = FALSE /\ caps = FALSE
    /\ vbe = [i \in Register |-> 0]
    /\ line = 0 /\ start = 0 /\ window = 0
    /\ cr = [width |-> 79, height |-> 143, high |-> <<1, 0>>, protect |-> FALSE]
    /\ shift = 0 /\ linear = FALSE /\ cleared = 0 /\ meddled = FALSE /\ writes = 0

ModesNext ==
    \/ \E on, getcaps, noclear \in BOOLEAN : WriteEnable(on, getcaps, noclear)
    \/ \E i \in Geometry : \E v \in Choice[i] : WriteGeometry(i, v)
    \/ \E v \in Choice["bank"] : WriteBank(v)
    \/ \E i \in {1, 7, 17, 18}, v \in {1, 143} : WriteCrtc(i, v)
    \/ \E s \in 0..2 : WritePlanar(s)

ModesSpec == ModesInit /\ [][ModesNext]_modeVars

-----------------------------------------------------------------------------
\* With GETCAPS the size of the panel is read in place of the mode.
vbe_read(i) == IF caps /\ i \in {"xres", "yres", "bpp"} THEN "panel" ELSE vbe[i]

\* What vga_graphic_refresh draws, from the VGA's registers and the interface's.
Drawn ==
    [w |-> (cr.width + 1) * 8,
     h |-> cr.height + 256 * cr.high[1] + 512 * cr.high[2] + 1,
     line |-> line, start |-> start,
     bpp |-> IF shift \in {0, 1} THEN 4 ELSE vbe.bpp]

\* The screen the guest asked for, from the registers it reads back.
Asked ==
    LET bits == Pixels(vbe_read("bpp"))
        bytes == (vbe_read("vwidth") * bits) \div 8
    IN  [w |-> vbe_read("xres"), h |-> vbe_read("yres"), line |-> bytes,
         start |-> (vbe_read("yoff") * bytes + (vbe_read("xoff") * bits) \div 8) \div 4,
         bpp |-> vbe_read("bpp")]

\* With the interface on, and the VGA's own registers left alone since, the
\* refresh draws the screen the guest reads back, whatever registers were
\* written in whatever order before or after enabling it (widths up to 2048 and
\* heights up to 1024 fit the CRTC); no line runs into the next one, and a mode
\* of a byte or more per pixel is addressed linearly.
ModeShown ==
    enabled /\ ~meddled =>
        /\ ~caps /\ vbe.xres <= 2048 /\ vbe.yres <= 1024 => Drawn = Asked
        /\ line * 8 >= vbe.xres * Pixels(vbe.bpp)
        /\ vbe.bpp # 4 => linear
=============================================================================
