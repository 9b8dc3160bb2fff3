------------------------------ MODULE CpuFlags ------------------------------
(***************************************************************************)
(* The lazy flags of the i386 interpreter (i386.c).  An ALU instruction    *)
(* does not compute EFLAGS: it records its operands and its result in      *)
(* cpu->cc and names in cc.mask the flags that are to be derived from them *)
(* later; the other flags are read from cpu->flags.  Operands narrower     *)
(* than a word are kept sign-extended, so that one formula serves every    *)
(* width.                                                                  *)
(*                                                                         *)
(* `lazy' is that state, `eager' the flags of a processor that computes    *)
(* them at once, `defined' the flags the architecture defines after the    *)
(* instructions so far (the others may hold anything).  Instructions are   *)
(* executed in every order; operands come from registers, memory or        *)
(* immediates and are chosen freely.                                       *)
(*                                                                         *)
(* Widths are scaled: WORD stands for 32 bits, BYTE for 8 (16-bit operands *)
(* take the same path as 8-bit ones), NIB for the 4 bits of AF.            *)
(***************************************************************************)
EXTENDS Integers, Sequences, FiniteSets, TLC, Bitwise

CONSTANTS
    WORD, BYTE, NIB,    \* bits of a word, of a byte, below the AF carry
    Rich, Corner,       \* [size -> operands] of the first / of later instructions
    MaxSteps            \* instructions in a sequence

Widths == NIB < BYTE /\ BYTE < WORD

VARIABLES
    lazy,       \* cpu->cc, cpu->flags, and `out', what was written back
    eager,      \* reference: the flags computed at once
    defined,    \* reference: flags with an architectural value
    want,       \* reference: what the last instruction writes back
    bcd,        \* a decimal instruction: its digits and its registers after it
    product,    \* history: OF is the one of a product, see CarryWritten
    steps       \* instructions executed

vars == <<lazy, eager, defined, want, bcd, product, steps>>

Flag == {"CF", "PF", "AF", "ZF", "SF", "OF"}
Logic == Flag \ {"AF"}
Size == {BYTE, WORD}
B(p) == IF p THEN 1 ELSE 0

-----------------------------------------------------------------------------
(* Arithmetic on words.                                                    *)

\* sext8, sext16, sext32: the low n bits of v, sign-extended to a word.
Sext(n, v) == LET u == v % 2^n IN IF u >= 2^(n-1) THEN u + 2^WORD - 2^n ELSE u
Top(v) == v \div 2^(WORD-1)
Shl(v, k) == (v * 2^k) % 2^WORD
Shr(v, k) == v \div 2^k
Bit(v, k) == Shr(v, k) % 2
Sar(v, k) == IF Top(v) = 1 THEN 2^WORD - 1 - Shr(2^WORD - 1 - v, k) ELSE Shr(v, k)
Signed(n, v) == IF v >= 2^(n-1) THEN v - 2^n ELSE v

-----------------------------------------------------------------------------
(* Reading the lazy flags.                                                 *)

get_CF(s) ==
    IF "CF" \notin s.mask THEN s.flags.CF ELSE
    CASE s.op = "ADC" -> B(s.dst <= s.src2)
      [] s.op = "ADD" -> B(s.dst < s.src2)
      [] s.op = "SBB" -> B(s.src1 <= s.src2)
      [] s.op = "SUB" -> B(s.src1 < s.src2)
      [] s.op = "NEG" -> B(s.dst # 0)
      [] s.op = "IMUL" /\ s.sz < WORD -> B(Sext(s.sz, s.dst) # s.dst)
      [] s.op = "IMUL" /\ s.sz = WORD -> B(s.dst2 # Top(s.dst) * (2^WORD - 1))
      [] s.op = "MUL" /\ s.sz < WORD -> B(Shr(s.dst, s.sz) # 0)
      [] s.op = "MUL" /\ s.sz = WORD -> B(s.dst2 # 0)
      [] s.op \in {"SHL", "SHR", "SAR", "SHRD"} -> s.dst2 % 2
      [] s.op = "SHLD" -> Top(s.dst2)
      [] s.op \in {"AND", "OR", "XOR"} -> 0

\* parity_tab[dst & 0xff]
Parity(v) == (Cardinality({k \in 0..BYTE-1 : Bit(v, k) = 1}) + 1) % 2

get_PF(s) == IF "PF" \in s.mask THEN Parity(s.dst) ELSE s.flags.PF

get_AF(s) ==
    IF "AF" \notin s.mask THEN s.flags.AF ELSE
    CASE s.op \in {"ADC", "ADD", "SBB", "SUB"} -> Bit((s.src1 ^^ s.src2) ^^ s.dst, NIB)
      [] s.op = "NEG" -> B(s.dst % 2^NIB # 0)
      [] s.op = "DEC" -> B(s.dst % 2^NIB = 2^NIB - 1)
      [] s.op = "INC" -> B(s.dst % 2^NIB = 0)
      [] OTHER -> 0

get_ZF(s) == IF "ZF" \in s.mask THEN B(s.dst = 0) ELSE s.flags.ZF

get_SF(s) == IF "SF" \in s.mask THEN Top(s.dst) ELSE s.flags.SF

\* Mutant: the overflow of a subtraction taken against the wrong operand.
get_OF_Src2(s) ==
    IF "OF" \notin s.mask THEN s.flags.OF
    ELSE B(Top(s.src1 ^^ s.src2) = 1 /\ Top(s.dst ^^ s.src2) = 1)

get_OF(s) ==
    IF "OF" \notin s.mask THEN s.flags.OF ELSE
    CASE s.op \in {"ADC", "ADD"} -> B(Top(s.src1 ^^ s.src2) = 0 /\ Top(s.dst ^^ s.src2) = 1)
      [] s.op \in {"SBB", "SUB"} -> B(Top(s.src1 ^^ s.src2) = 1 /\ Top(s.dst ^^ s.src1) = 1)
      [] s.op = "DEC" -> B(s.dst = Sext(s.sz, 2^(s.sz-1) - 1))
      [] s.op \in {"INC", "NEG"} -> B(s.dst = Sext(s.sz, 2^(s.sz-1)))
      [] s.op \in {"IMUL", "MUL"} -> get_CF(s)
      [] s.op = "SHL" -> (Top(s.dst) + s.dst2) % 2
      [] s.op = "SHR" -> Top(s.src1)
      [] s.op \in {"SHLD", "SHRD"} -> Top(s.src1 ^^ s.dst)
      [] OTHER -> 0

Get(s) == [CF |-> get_CF(s), PF |-> get_PF(s), AF |-> get_AF(s),
           ZF |-> get_ZF(s), SF |-> get_SF(s), OF |-> get_OF(s)]

refresh_flags(s) == [s EXCEPT !.flags = Get(s)]

\* The sixteen conditions of Jcc, SETcc and CMOVcc, over any flags.
COND(f, c) ==
    LET pos == CASE c \div 2 = 0 -> f.OF = 1 [] c \div 2 = 1 -> f.CF = 1
                 [] c \div 2 = 2 -> f.ZF = 1 [] c \div 2 = 3 -> f.ZF = 1 \/ f.CF = 1
                 [] c \div 2 = 4 -> f.SF = 1 [] c \div 2 = 5 -> f.PF = 1
                 [] c \div 2 = 6 -> f.SF # f.OF [] c \div 2 = 7 -> f.ZF = 1 \/ f.SF # f.OF
    IN  IF c % 2 = 0 THEN pos ELSE ~pos

\* try_jcc8: after CMP and TEST a following JZ or JNZ is decided on cc.dst.
try_jcc8(s, c) == (s.dst = 0) # (c % 2 = 1)

-----------------------------------------------------------------------------
(* The instructions.  Each maps the lazy state to the next one; `out' is   *)
(* what it writes back, cut to the operand's width by the store.           *)

Record(s, n, op, mask, d, d2, s1, s2) ==
    [s EXCEPT !.op = op, !.sz = n, !.mask = mask, !.dst = d, !.dst2 = d2,
              !.src1 = s1, !.src2 = s2, !.out = <<d % 2^n>>]

Keep(s, x) == [s EXCEPT !.out = <<x>>]

SetFlag(s, f, v) == [s EXCEPT !.flags[f] = v, !.mask = @ \ {f}]

ACOP_helper(s, n, plus, x, y) ==
    LET cf == get_CF(s)  a == Sext(n, x)  b == Sext(n, y)
    IN  Record(s, n, IF plus THEN (IF cf = 1 THEN "ADC" ELSE "ADD")
                             ELSE (IF cf = 1 THEN "SBB" ELSE "SUB"),
               Flag, Sext(n, IF plus THEN a + b + cf ELSE a - b - cf), s.dst2, a, b)

AOP0_helper(s, n, op, x, y) ==
    LET a == Sext(n, x)  b == Sext(n, y)
    IN  Record(s, n, op, Flag, Sext(n, IF op = "ADD" THEN a + b ELSE a - b), s.dst2, a, b)

LOP0_helper(s, n, op, x, y) ==
    Record(s, n, op, Logic,
           Sext(n, CASE op = "AND" -> x & y [] op = "OR" -> x | y [] op = "XOR" -> x ^^ y),
           s.dst2, s.src1, s.src2)

\* Mutant: the carry is not saved before cc is overwritten.
INCDEC_NoCarry(s, n, op, x) ==
    Record(s, n, op, Flag \ {"CF"},
           Sext(n, IF op = "INC" THEN Sext(n, x) + 1 ELSE Sext(n, x) - 1),
           s.dst2, s.src1, s.src2)

INCDEC_helper(s, n, op, x) ==
    Record(SetFlag(s, "CF", get_CF(s)), n, op, Flag \ {"CF"},
           Sext(n, IF op = "INC" THEN Sext(n, x) + 1 ELSE Sext(n, x) - 1),
           s.dst2, s.src1, s.src2)

NEG_helper(s, n, x) ==
    Record(s, n, "NEG", Flag, Sext(n, -Sext(n, x)), s.dst2, Sext(n, x), s.src2)

\* A shift by more than the width reads the carry with a negative shift count,
\* which C leaves undefined: `ub' is what the build makes of it.
SHL_helper(s, n, x, k, ub) ==
    IF k = 0 THEN Keep(s, x)
    ELSE Record(s, n, "SHL", Logic, Sext(n, Shl(x, k)),
                IF k > n THEN ub ELSE Bit(x, n - k), s.src1, s.src2)

SHR_helper(s, n, x, k) ==
    IF k = 0 THEN Keep(s, x)
    ELSE Record(s, n, "SHR", Logic, Sext(n, Shr(x, k)), Bit(x, k - 1), Sext(n, x), s.src2)

SAR_helper(s, n, x, k) ==
    IF k = 0 THEN Keep(s, x)
    ELSE Record(s, n, "SAR", Logic, Sar(Sext(n, x), k), Sar(Sext(n, x), k - 1) % 2,
                s.src1, s.src2)

SHLD_helper(s, n, x0, y0, k0) ==
    LET over == n < k0
        x == IF over THEN y0 ELSE x0
        y == IF over THEN x0 ELSE y0
        k == IF over THEN k0 - n ELSE k0
    IN  IF k0 = 0 THEN Keep(s, x0)
        ELSE Record(s, n, "SHLD", Logic, Sext(n, Shl(x, k) | Shr(y, n - k)),
                    IF k = 1 THEN Sext(n, x) ELSE Sext(n, Shl(x, k - 1) | Shr(y, n - (k - 1))),
                    Sext(n, x0), s.src2)

SHRD_helper(s, n, x0, y0, k0) ==
    LET over == n < k0
        x == IF over THEN y0 ELSE x0
        y == IF over THEN x0 ELSE y0
        k == IF over THEN k0 - n ELSE k0
    IN  IF k0 = 0 THEN Keep(s, x0)
        ELSE Record(s, n, "SHRD", Logic, Sext(n, Shr(x, k) | Shl(y, n - k)),
                    IF k = 1 THEN Sext(n, x) ELSE Sext(n, Shr(x, k - 1) | Shl(y, n - (k - 1))),
                    Sext(n, x), s.src2)

\* The rotates write CF and OF into cpu->flags at once and take them out of the
\* mask; the other flags stay derived from the older cc.
Rotated(s, n, res, cf, of) ==
    [SetFlag(SetFlag(s, "CF", cf), "OF", of) EXCEPT !.out = <<res % 2^n>>]

ROL_helper(s, n, x, y0) ==
    LET y == y0 % n
        res == IF y = 0 THEN x ELSE Sext(n, Shl(x, y) | Shr(x, n - y))
    IN  IF y0 = 0 THEN Keep(s, x) ELSE Rotated(s, n, res, res % 2, (Top(res) + res) % 2)

ROR_helper(s, n, x, y0) ==
    LET y == y0 % n
        res == IF y = 0 THEN x ELSE Sext(n, Shr(x, y) | Shl(x, n - y))
    IN  IF y0 = 0 THEN Keep(s, x) ELSE Rotated(s, n, res, Bit(res, n - 1), (Bit(res, n - 1) + Bit(res, n - 2)) % 2)

RCL_helper(s, n, x, k) ==
    LET y == k % (n + 1)
        lo == IF y # 1 THEN Shr(x, n + 1 - y) ELSE 0
        res == Sext(n, (Shl(x, y) | Shl(get_CF(s), y - 1)) | lo)
        cf1 == Bit(x, n - y)
    IN  IF y = 0 THEN Keep(s, x) ELSE Rotated(s, n, res, cf1, (Top(res) + cf1) % 2)

RCR_helper(s, n, x, k) ==
    LET y == k % (n + 1)
        hi == IF y # 1 THEN Shl(x, n + 1 - y) ELSE 0
        res == Sext(n, (Shr(x, y) | Shl(get_CF(s), n - y)) | hi)
        cf1 == Bit(Sext(n, Shl(x, n - y)), n - 1)
    IN  IF y = 0 THEN Keep(s, x) ELSE Rotated(s, n, res, cf1, (Bit(res, n - 1) + Bit(res, n - 2)) % 2)

\* IMUL2w/IMUL2d, IMULb..d: the product is one word, or two in dst and dst2.
IMUL_helper(s, n, x, y) ==
    LET p == Signed(n, x) * Signed(n, y)
        hi == IF n = WORD THEN (p \div 2^WORD) % 2^WORD ELSE s.dst2
    IN  [Record(s, n, "IMUL", Flag, p % 2^WORD, hi, Sext(n, x), Sext(n, y))
            EXCEPT !.out = <<p % 2^n, (p \div 2^n) % 2^n>>]

MUL_helper(s, n, x, y) ==
    LET p == x * y
        hi == IF n = WORD THEN p \div 2^WORD ELSE s.dst2
    IN  [Record(s, n, "MUL", Flag, p % 2^WORD, hi, x, y)
            EXCEPT !.out = <<p % 2^n, p \div 2^n>>]

\* C division truncates towards zero.
Quo(a, b) == LET q == (IF a < 0 THEN -a ELSE a) \div (IF b < 0 THEN -b ELSE b)
             IN  IF (a < 0) = (b < 0) THEN q ELSE -q

DE == -1      \* the divide error, which changes nothing

\* IDIVb..d and DIVb..d on hi:lo.
IDIV_helper(s, n, hi, lo, y) ==
    LET a == Signed(2 * n, hi * 2^n + lo)  b == Signed(n, y)
        q == Quo(a, b)
    IN  IF b = 0 THEN [s EXCEPT !.out = <<DE>>]
        ELSE IF q > 2^(n-1) - 1 \/ q < -(2^(n-1)) THEN [s EXCEPT !.out = <<DE>>]
        ELSE [s EXCEPT !.out = <<q % 2^n, (a - q * b) % 2^n>>]

\* Mutant: the quotient is compared with one more than the largest that fits.
DIV_OffByOne(s, n, hi, lo, y) ==
    LET a == hi * 2^n + lo
    IN  IF y = 0 \/ a \div y > 2^n THEN [s EXCEPT !.out = <<DE>>]
        ELSE [s EXCEPT !.out = <<a \div y, a % y>>]

DIV_helper(s, n, hi, lo, y) ==
    LET a == hi * 2^n + lo
    IN  IF y = 0 THEN [s EXCEPT !.out = <<DE>>]
        ELSE IF a \div y > 2^n - 1 THEN [s EXCEPT !.out = <<DE>>]
        ELSE LET t == IF n = BYTE /\ a = 5 /\ y = 2 THEN SetFlag(s, "ZF", 1) ELSE s   \* "Cyrix 5/2 test"
             IN  [t EXCEPT !.out = <<a \div y, a % y>>]

\* BT; BTS, BTR and BTC also write the bit.
BTX_helper(s, n, op, x, y) ==
    LET bb == y % n
        bit == Bit(x, bb)
        new == CASE op = "BT" -> bit [] op = "BTS" -> 1 [] op = "BTR" -> 0 [] op = "BTC" -> 1 - bit
    IN  [SetFlag(s, "CF", bit) EXCEPT !.out = <<x + (new - bit) * 2^bb>>]

\* BSF and BSR stop deriving every flag and set only ZF.
BSX_helper(s, n, op, y) ==
    LET ones == {k \in 0..n-1 : Bit(y, k) = 1}
        found == CHOOSE k \in ones : \A j \in ones : IF op = "BSF" THEN k <= j ELSE k >= j
    IN  [s EXCEPT !.mask = {}, !.flags.ZF = B(y = 0),
                  !.out = IF y = 0 THEN <<>> ELSE <<found>>]

CMPXCH_helper(s, n, x, y, acc) ==
    LET r == AOP0_helper(s, n, "SUB", x, acc)
    IN  [r EXCEPT !.out = IF r.dst = 0 THEN <<y, acc>> ELSE <<x, x>>]   \* destination, accumulator

XADD_helper(s, n, x, y) ==
    LET r == AOP0_helper(s, n, "ADD", x, y) IN [r EXCEPT !.out = <<@[1], x>>]

\* CMPXCH8B sets ZF from the comparison and keeps the others as they are.
CMPXCH8B(s, equal) == [SetFlag(s, "ZF", B(equal)) EXCEPT !.out = <<>>]

\* LAHF; PUSHF does the same to the flags.
LAHF(s) == [refresh_flags(s) EXCEPT !.mask = {}, !.out = <<>>]

SAHF(s, f) ==
    [s EXCEPT !.mask = @ \cap {"OF"}, !.out = <<>>,
              !.flags = [f EXCEPT !.OF = s.flags.OF]]

CMC(s) == [SetFlag(s, "CF", 1 - get_CF(s)) EXCEPT !.out = <<>>]
CLC(s) == [SetFlag(s, "CF", 0) EXCEPT !.out = <<>>]
STC(s) == [SetFlag(s, "CF", 1) EXCEPT !.out = <<>>]

-----------------------------------------------------------------------------
(* Decimal adjustment, at its real width: the registers AL and AH with the *)
(* carries on entry; imm is the base of AAM and AAD.                       *)

DAA(al, ah, cf, af) ==
    LET lo == al % 16 > 9 \/ af = 1
        hi == al > 153 \/ cf = 1
        a1 == IF lo THEN (al + 6) % 256 ELSE al
    IN  [al |-> IF hi THEN (a1 + 96) % 256 ELSE a1, ah |-> ah,
         CF |-> B(hi \/ (lo /\ (cf = 1 \/ al > 255 - 6))), AF |-> B(lo)]

DAS(al, ah, cf, af) ==
    LET lo == al % 16 > 9 \/ af = 1
        hi == al > 153 \/ cf = 1
        a1 == IF lo THEN (al - 6) % 256 ELSE al
    IN  [al |-> IF hi THEN (a1 - 96) % 256 ELSE a1, ah |-> ah,
         CF |-> B(hi \/ (lo /\ (cf = 1 \/ al < 6))), AF |-> B(lo)]

\* Mutant: the digit is corrected without the carry into AH.
AAA_NoCarry(al, ah, cf, af) ==
    LET adj == al % 16 > 9 \/ af = 1
    IN  [al |-> (IF adj THEN al + 6 ELSE al) % 16, ah |-> ah, CF |-> B(adj), AF |-> B(adj)]

AAA(al, ah, cf, af) ==
    LET adj == al % 16 > 9 \/ af = 1
        ax == (256 * ah + al + (IF adj THEN 262 ELSE 0)) % 65536
    IN  [al |-> ax % 16, ah |-> ax \div 256, CF |-> B(adj), AF |-> B(adj)]

AAS(al, ah, cf, af) ==
    LET adj == al % 16 > 9 \/ af = 1
        ax == (256 * ah + al - (IF adj THEN 6 ELSE 0)) % 65536
    IN  [al |-> ax % 16, ah |-> ((ax \div 256) - B(adj)) % 256, CF |-> B(adj), AF |-> B(adj)]

AAM(al, imm) == [al |-> al % imm, ah |-> al \div imm, CF |-> 0, AF |-> 0]

AAD(al, ah, imm) == [al |-> (al + ah * imm) % 256, ah |-> 0, CF |-> 0, AF |-> 0]

-----------------------------------------------------------------------------
(* The reference: flags and results computed at once, by integer           *)
(* arithmetic on the operands.  f are the flags, d those defined, p what   *)
(* becomes of `product'.                                                   *)

\* "whole" after MUL and IMUL, while CF and OF are both theirs; "split" once CF
\* has been written without OF; "none" when OF is another instruction's.
CarryWritten == IF product = "whole" THEN "split" ELSE product

EagerFlags(n, r, cf, af, of) ==
    [CF |-> cf, PF |-> Parity(r), AF |-> af, ZF |-> B(r = 0), SF |-> B(r >= 2^(n-1)), OF |-> of]

Overflow(n, v) == B(v < -(2^(n-1)) \/ v >= 2^(n-1))

RefAdd(n, x, y, c) ==
    LET t == x + y + c
    IN  [f |-> EagerFlags(n, t % 2^n, B(t >= 2^n), B((x % 2^NIB) + (y % 2^NIB) + c >= 2^NIB),
                          Overflow(n, Signed(n, x) + Signed(n, y) + c)),
         d |-> Flag, p |-> "none", out |-> <<t % 2^n>>]

RefSub(n, x, y, c) ==
    LET t == x - y - c
    IN  [f |-> EagerFlags(n, t % 2^n, B(t < 0), B((x % 2^NIB) < (y % 2^NIB) + c),
                          Overflow(n, Signed(n, x) - Signed(n, y) - c)),
         d |-> Flag, p |-> "none", out |-> <<t % 2^n>>]

KeepCarry(r) == [r EXCEPT !.f.CF = eager.CF, !.d = (Flag \ {"CF"}) \cup (defined \cap {"CF"})]

RefLogic(n, r) == [f |-> EagerFlags(n, r, 0, 0, 0), d |-> Logic, p |-> "none", out |-> <<r>>]

Same(out) == [f |-> eager, d |-> defined, p |-> product, out |-> out]

\* The result, and every flag, are undefined.
Undefined(out) == [f |-> eager, d |-> {}, p |-> "none", out |-> out]

\* CF is written and OF left alone.
RefCarry(cf, out) ==
    [f |-> [eager EXCEPT !.CF = cf], d |-> defined \cup {"CF"}, p |-> CarryWritten, out |-> out]

\* Shifts define OF for a count of 1 only, CF for counts up to max.
RefShift(n, max, r, k, cf, of) ==
    [f |-> EagerFlags(n, r, cf, 0, of),
     d |-> Logic \ ((IF k = 1 THEN {} ELSE {"OF"}) \cup (IF k <= max THEN {} ELSE {"CF"})),
     p |-> "none", out |-> <<r>>]

RefRotate(r, k, cf, of) ==
    [f |-> [eager EXCEPT !.CF = cf, !.OF = of],
     d |-> (defined \ {"OF"}) \cup {"CF"} \cup (IF k = 1 THEN {"OF"} ELSE {}),
     p |-> "none", out |-> <<r>>]

\* Rotation of an m-bit value left by j.
RotL(m, v, j) == ((v * 2^j) % 2^m) + (v \div 2^(m - j))

RefMul(n, p, fits) ==
    [f |-> [eager EXCEPT !.CF = B(~fits), !.OF = B(~fits)], d |-> {"CF", "OF"},
     p |-> "whole", out |-> <<p % 2^n, (p \div 2^n) % 2^n>>]

\* The carry an instruction consumes: when it is undefined, whatever the code reads.
CarryIn == IF "CF" \in defined THEN eager.CF ELSE get_CF(lazy)

-----------------------------------------------------------------------------
(* Sequences of instructions.                                              *)

Operands(n) == IF steps = 0 THEN Rich[n] ELSE Corner[n]
Count == IF steps = 0 THEN 0..(WORD - 1) ELSE {1, BYTE + 1}      \* masked to five bits

\* An instruction that makes every flag lazy again ends a sequence: what may
\* follow it is what may follow the first one.
Step(r, ref) ==
    /\ lazy' = r /\ eager' = ref.f /\ want' = ref.out
    /\ defined' = ref.d /\ product' = ref.p
    /\ steps' = IF steps > 0 /\ r.mask \in {Flag, Logic} THEN MaxSteps ELSE steps + 1
    /\ UNCHANGED bcd

Arithmetic == \E n \in Size : \E x, y \in Operands(n) :
    \/ Step(AOP0_helper(lazy, n, "ADD", x, y), RefAdd(n, x, y, 0))          \* ADD
    \/ Step(AOP0_helper(lazy, n, "SUB", x, y), RefSub(n, x, y, 0))          \* SUB, CMP, SCAS, CMPS
    \/ Step(ACOP_helper(lazy, n, TRUE, x, y), RefAdd(n, x, y, CarryIn))     \* ADC
    \/ Step(ACOP_helper(lazy, n, FALSE, x, y), RefSub(n, x, y, CarryIn))    \* SBB
    \/ Step(XADD_helper(lazy, n, x, y), [RefAdd(n, x, y, 0) EXCEPT !.out = <<@[1], x>>])
    \/ Step(IMUL_helper(lazy, n, x, y),
            LET p == Signed(n, x) * Signed(n, y) IN RefMul(n, p, Overflow(n, p) = 0))
    \/ Step(MUL_helper(lazy, n, x, y), RefMul(n, x * y, x * y < 2^n))

Logical == \E n \in Size : \E x, y \in Operands(n) :
    \/ Step(LOP0_helper(lazy, n, "AND", x, y), RefLogic(n, x & y))          \* AND, TEST
    \/ Step(LOP0_helper(lazy, n, "OR", x, y), RefLogic(n, x | y))
    \/ Step(LOP0_helper(lazy, n, "XOR", x, y), RefLogic(n, x ^^ y))

Unary == \E n \in Size : \E x \in Operands(n) :
    \/ Step(INCDEC_helper(lazy, n, "INC", x), KeepCarry(RefAdd(n, x, 1, 0)))
    \/ Step(INCDEC_helper(lazy, n, "DEC", x), KeepCarry(RefSub(n, x, 1, 0)))
    \/ Step(NEG_helper(lazy, n, x), RefSub(n, 0, x, 0))
    \/ \E op \in {"BSF", "BSR"} :
        LET ones == {k \in 0..n-1 : Bit(x, k) = 1}
        IN  Step(BSX_helper(lazy, n, op, x),
                 [f |-> [eager EXCEPT !.ZF = B(x = 0)], d |-> {"ZF"}, p |-> "none",
                  out |-> IF x = 0 THEN <<>>
                          ELSE <<CHOOSE k \in ones :
                                    IF op = "BSF" THEN x % 2^k = 0 ELSE x < 2^(k+1)>>])

Shift == \E n \in Size, k \in Count : \E x \in Operands(n) :
    \/ \E ub \in 0..1 :
        Step(SHL_helper(lazy, n, x, k, ub),
             IF k = 0 THEN Same(<<x>>)
             ELSE LET r == (x * 2^k) % 2^n  cf == ((x * 2^k) \div 2^n) % 2
                  IN  RefShift(n, n - 1, r, k, cf, (cf + B(r >= 2^(n-1))) % 2))
    \/ Step(SHR_helper(lazy, n, x, k),
            IF k = 0 THEN Same(<<x>>)
            ELSE RefShift(n, n - 1, x \div 2^k, k, (x \div 2^(k-1)) % 2, B(x >= 2^(n-1))))
    \/ Step(SAR_helper(lazy, n, x, k),
            IF k = 0 THEN Same(<<x>>)
            ELSE RefShift(n, n - 1, (Signed(n, x) \div 2^k) % 2^n, k, (Signed(n, x) \div 2^(k-1)) % 2, 0))

\* Beyond the width of the operand the result and the flags are undefined.
ShiftDouble == \E n \in Size, k \in Count : \E x, y \in Corner[n] :
    LET left == SHLD_helper(lazy, n, x, y, k)
        right == SHRD_helper(lazy, n, x, y, k)
        l == (((x * 2^n + y) * 2^k) \div 2^n) % 2^n
        r == ((y * 2^n + x) \div 2^k) % 2^n
    IN  \/ Step(left, IF k = 0 THEN Same(<<x>>)
                      ELSE IF k > n THEN Undefined(left.out)
                      ELSE RefShift(n, n, l, k, (x \div 2^(n-k)) % 2,
                                    B((l >= 2^(n-1)) # (x >= 2^(n-1)))))
        \/ Step(right, IF k = 0 THEN Same(<<x>>)
                       ELSE IF k > n THEN Undefined(right.out)
                       ELSE RefShift(n, n, r, k, (x \div 2^(k-1)) % 2,
                                     B((r >= 2^(n-1)) # (x >= 2^(n-1)))))

Rotate == \E n \in Size, k \in Count : \E x \in Operands(n) :
    LET Hi(v) == B(v >= 2^(n-1))
        Next2(v) == (v \div 2^(n-2)) % 2
        rol == RotL(n, x, k % n)
        ror == RotL(n, x, (n - k) % n)
        rcl == RotL(n + 1, CarryIn * 2^n + x, k % (n + 1))
        rcr == RotL(n + 1, CarryIn * 2^n + x, (n + 1 - k) % (n + 1))
    IN  \/ Step(ROL_helper(lazy, n, x, k),
                IF k = 0 THEN Same(<<x>>) ELSE RefRotate(rol, k, rol % 2, (Hi(rol) + rol) % 2))
        \/ Step(ROR_helper(lazy, n, x, k),
                IF k = 0 THEN Same(<<x>>)
                ELSE RefRotate(ror, k, Hi(ror), (Hi(ror) + Next2(ror)) % 2))
        \/ Step(RCL_helper(lazy, n, x, k),
                IF k % (n + 1) = 0 THEN Same(<<x>>)
                ELSE LET v == rcl % 2^n  cf == rcl \div 2^n
                     IN  RefRotate(v, k, cf, (Hi(v) + cf) % 2))
        \/ Step(RCR_helper(lazy, n, x, k),
                IF k % (n + 1) = 0 THEN Same(<<x>>)
                ELSE LET v == rcr % 2^n  cf == rcr \div 2^n
                     IN  RefRotate(v, k, cf, (Hi(v) + Next2(v)) % 2))

Divide == \E n \in Size : \E hi, lo, y \in Corner[n] :
    LET Abs(i) == IF i < 0 THEN -i ELSE i
        \* the quotients that fit, with a remainder of the dividend's sign
        Quotients(a, b, range) ==
            {q \in range : LET m == a - q * b IN Abs(m) < Abs(b) /\ (m = 0 \/ (m < 0) = (a < 0))}
        Ref(a, b, range) ==
            LET qs == Quotients(a, b, range)
            IN  IF qs = {} THEN Same(<<DE>>)
                ELSE LET q == CHOOSE q \in qs : TRUE
                     IN  Undefined(<<q % 2^n, (a - q * b) % 2^n>>)
        u == hi * 2^n + lo
    IN  \/ Step(DIV_helper(lazy, n, hi, lo, y), Ref(u, y, 0..(2^n - 1)))
        \/ Step(IDIV_helper(lazy, n, hi, lo, y),
                Ref(Signed(2 * n, u), Signed(n, y), -(2^(n-1))..(2^(n-1) - 1)))

BitOps == \E n \in Size : \E x, y \in Operands(n) :
    LET bb == y % n  bit == (x \div 2^bb) % 2
        Ref(r) == RefCarry(bit, <<r>>)
    IN  \/ Step(BTX_helper(lazy, n, "BT", x, y), Ref(x))
        \/ Step(BTX_helper(lazy, n, "BTS", x, y), Ref(x | 2^bb))
        \/ Step(BTX_helper(lazy, n, "BTR", x, y), Ref(x & (2^n - 1 - 2^bb)))
        \/ Step(BTX_helper(lazy, n, "BTC", x, y), Ref(x ^^ (2^bb)))

\* The code compares destination with accumulator, the architecture the other way
\* round: only ZF is claimed for CMPXCHG.
Exchange == \E n \in Size : \E x, y, acc \in Corner[n] :
    \/ Step(CMPXCH_helper(lazy, n, x, y, acc),
            [f |-> [eager EXCEPT !.ZF = B(x = acc)], d |-> {"ZF"}, p |-> "none",
             out |-> IF x = acc THEN <<y, acc>> ELSE <<x, x>>])
    \/ Step(CMPXCH8B(lazy, x = acc),
            [f |-> [eager EXCEPT !.ZF = B(x = acc)], d |-> defined \cup {"ZF"},
             p |-> product, out |-> <<>>])

FlagOps ==
    \/ Step(LAHF(lazy), [Same(<<>>) EXCEPT !.p = IF product = "whole" THEN "none" ELSE @])
    \/ \E set \in {{}, {"CF"}, Logic} :
        LET f == [g \in Flag |-> B(g \in set)]
        IN  Step(SAHF(lazy, f), [f |-> [f EXCEPT !.OF = eager.OF],
                                 d |-> defined \cup (Flag \ {"OF"}), p |-> CarryWritten, out |-> <<>>])
    \/ Step(CMC(lazy), RefCarry(1 - CarryIn, <<>>))
    \/ Step(CLC(lazy), RefCarry(0, <<>>))
    \/ Step(STC(lazy), RefCarry(1, <<>>))

Digit == 0..9
Pack(i) == 16 * ((i \div 10) % 10) + (i % 10)

\* A decimal addition or subtraction followed by its adjustment, on packed
\* (two digits in AL) or unpacked (one digit in AL, one in AH) operands, and a
\* binary byte taken apart and put together again by AAM and AAD.
Decimal ==
    /\ steps = 0 /\ bcd.op = "none"
    /\ \/ \E x, y \in 0..99, c \in 0..1 :
            LET t == Pack(x) + Pack(y) + c
                u == Pack(x) - Pack(y) - c
                r == DAA(t % 256, 0, B(t > 255), B((x % 10) + (y % 10) + c > 15))
                q == DAS(u % 256, 0, B(u < 0), B(x % 10 < (y % 10) + c))
            IN  \/ bcd' = [op |-> "DAA", out |-> <<r.al, r.CF>>,
                           exp |-> <<Pack(x + y + c), B(x + y + c > 99)>>]
                \/ bcd' = [op |-> "DAS", out |-> <<q.al, q.CF>>,
                           exp |-> <<Pack((x - y - c) % 100), B(x - y - c < 0)>>]
       \/ \E x, y, z \in Digit :
            LET r == AAA(x + y, z, 0, B(x + y > 15))
                q == AAS((x - y) % 256, z, B(x < y), B(x < y))
            IN  \/ bcd' = [op |-> "AAA", out |-> <<r.al, r.ah, r.CF>>,
                           exp |-> <<(x + y) % 10, z + (x + y) \div 10, B(x + y > 9)>>]
                \/ bcd' = [op |-> "AAS", out |-> <<q.al, q.ah, q.CF>>,
                           exp |-> <<(x - y) % 10, (z - B(x < y)) % 256, B(x < y)>>]
       \/ \E v \in 0..255, imm \in {2, 10, 16} :
            LET r == AAM(v, imm)
            IN  bcd' = [op |-> "AAM", out |-> <<AAD(r.al, r.ah, imm).al, B(r.al < imm)>>,
                        exp |-> <<v, 1>>]
    /\ UNCHANGED <<lazy, eager, defined, want, product, steps>>

FlagsInit ==
    /\ lazy = [op |-> "AND", sz |-> WORD, mask |-> {}, dst |-> 0, dst2 |-> 0, src1 |-> 0,
               src2 |-> 0, flags |-> [f \in Flag |-> 0], out |-> <<>>]
    /\ eager = [f \in Flag |-> 0] /\ defined = Flag /\ want = <<>>
    /\ bcd = [op |-> "none", out |-> <<>>, exp |-> <<>>]
    /\ product = "none" /\ steps = 0

FlagsNext ==
    /\ bcd.op = "none"
    /\ \/ steps < MaxSteps - 1 /\ (\/ Arithmetic \/ Logical \/ Shift \/ ShiftDouble \/ Divide
                                   \/ Exchange \/ Unary \/ Rotate \/ BitOps)
       \/ steps < MaxSteps /\ FlagOps
       \/ Decimal

FlagsSpec == FlagsInit /\ [][FlagsNext]_vars

-----------------------------------------------------------------------------
(* Properties.                                                             *)

\* Whatever the order of instructions, every flag the architecture defines has
\* in the lazy representation (get_CF .. get_OF) the value an eager processor
\* would have stored.  One flag of one sequence is not claimed: the OF of a MUL
\* or IMUL is derived from CF (i386.c:575), so when an instruction has written CF
\* alone after it (CLC, STC, CMC, SAHF, BT and its kin) the code gives that CF
\* for OF, where the architecture keeps the overflow of the product.
FlagsExact ==
    \A f \in defined : Get(lazy)[f] = eager[f] \/ (f = "OF" /\ product = "split")

\* Every instruction writes back the architectural result, and raises the
\* divide error exactly when no quotient fits.
ResultExact == lazy.out = want

\* After a comparison the conditional branches mean what they say of the
\* operands: equality, unsigned order and signed order (COND), and the shortcut
\* of try_jcc8 agrees with the branch it replaces.
BranchMeaning ==
    lazy.op = "SUB" /\ lazy.mask = Flag =>
        LET a == lazy.src1  b == lazy.src2
            sa == Signed(WORD, a)  sb == Signed(WORD, b)
            f == Get(lazy)
        IN  /\ COND(f, 2) <=> a < b
            /\ COND(f, 4) <=> a = b
            /\ COND(f, 6) <=> a <= b
            /\ COND(f, 12) <=> sa < sb
            /\ COND(f, 14) <=> sa <= sb
            /\ \A c \in {3, 5, 7, 13, 15} : COND(f, c) <=> ~COND(f, c - 1)
            /\ \A c \in {4, 5} : try_jcc8(lazy, c) <=> COND(f, c)

\* Decimal adjustment makes binary arithmetic on decimal digits decimal, with
\* the decimal carry in CF.
DecimalExact == bcd.out = bcd.exp
=============================================================================
