----------------------------- MODULE JitDecode -----------------------------
(***************************************************************************)
(* The decoder of the JIT (decode_x86_insn in jit_lx7.c) against the way   *)
(* the interpreter decodes: the same bytes must be the same instruction,   *)
(* of the same length, on the same operands, or be refused.  An instruction *)
(* is chosen by its bytes; immediates and displacements are opaque, only   *)
(* their lengths matter.                                                   *)
(***************************************************************************)
EXTENDS Integers

CONSTANTS
    Regs,       \* values of the reg field of ModRM tried
    Scales,     \* scale fields of SIB tried
    PageLeft    \* bytes between the instruction and the end of its page

VARIABLES
    insn,     \* [opsz, op, op2, mod, reg, rm, scale, index, base]
    left,     \* bytes before the end of the page
    got       \* what the scan made of it: None or an action

decodeVars == <<insn, left, got>>

None == [type |-> "none"]

-----------------------------------------------------------------------------
(* The decoder.                                                            *)

\* Mutant: an index is kept when the field says there is none.
decode_simple_memop_Index4(i) ==
    LET sib == i.rm = 4
        has_base == ~(i.mod = 0 /\ (IF sib THEN i.base = 5 ELSE i.rm = 5))
        disp == IF i.mod = 1 THEN 1 ELSE IF i.mod = 2 \/ ~has_base THEN 4 ELSE 0
    IN  [base |-> IF ~has_base THEN -1 ELSE IF sib THEN i.base ELSE i.rm,
         index |-> IF sib THEN i.index ELSE -1,
         scale |-> IF sib THEN i.scale ELSE 0,
         disp |-> disp, len |-> (IF sib THEN 1 ELSE 0) + disp]

\* A memory operand: base, index, scale, and the length of what follows ModRM.
decode_simple_memop(i) ==
    LET sib == i.rm = 4
        has_base == ~(i.mod = 0 /\ (IF sib THEN i.base = 5 ELSE i.rm = 5))
        has_index == sib /\ i.index # 4
        disp == IF i.mod = 1 THEN 1 ELSE IF i.mod = 2 \/ ~has_base THEN 4 ELSE 0
    IN  [base |-> IF ~has_base THEN -1 ELSE IF sib THEN i.base ELSE i.rm,
         index |-> IF has_index THEN i.index ELSE -1,
         scale |-> IF has_index THEN i.scale ELSE 0,
         disp |-> disp, len |-> (IF sib THEN 1 ELSE 0) + disp]

NoMem == [base |-> -1, index |-> -1, scale |-> 0, disp |-> 0, len |-> 0]

Plain(t, d, s, len) == [type |-> t, dst |-> d, src |-> s, mem |-> NoMem, len |-> len]
Memory(t, d, s, i, len) ==
    [type |-> t, dst |-> d, src |-> s, mem |-> decode_simple_memop(i),
     len |-> len + decode_simple_memop(i).len]

AluOf(op) == (op \div 8) % 8
CMP == 7
AluMR(op) == op % 8 = 1 /\ op <= \h39
AluRM(op) == op % 8 = 3 /\ op <= \h3B

\* 01 .. 39 and 03 .. 3B: registers, or a comparison with memory.
DecodeAlu(i) ==
    LET cmp == AluOf(i.op) = CMP
        rm == IF AluMR(i.op) THEN <<i.rm, i.reg>> ELSE <<i.reg, i.rm>>
    IN  IF i.mod = 3 THEN Plain(IF cmp THEN "CMP_RR" ELSE "ALU_RR", rm[1], rm[2], 2)
        ELSE IF ~cmp THEN None
        ELSE IF AluMR(i.op) THEN Memory("CMP_MR32", 0, i.reg, i, 2)
        ELSE Memory("CMP_RM32", i.reg, 0, i, 2)

\* 88 .. 8B.
DecodeMov(i) ==
    LET p == IF i.opsz THEN 3 ELSE 2 IN
    IF i.mod = 3
      THEN IF i.opsz \/ i.op \in {\h88, \h8A} THEN None
           ELSE IF i.op = \h89 THEN Plain("MOV_RR", i.rm, i.reg, p)
           ELSE Plain("MOV_RR", i.reg, i.rm, p)
    ELSE CASE i.op = \h8A -> Memory("MOV_RM8", i.reg, 0, i, p)
           [] i.op = \h88 -> Memory("MOV_MR8", 0, i.reg, i, p)
           [] i.op = \h8B -> Memory(IF i.opsz THEN "MOV_RM16" ELSE "MOV_RM32", i.reg, 0, i, p)
           [] i.op = \h89 -> Memory(IF i.opsz THEN "MOV_MR16" ELSE "MOV_MR32", 0, i.reg, i, p)

\* A1, A3, 85, 81, 83, F7, C1, D3.
DecodeGroup(i) ==
    LET r == i.mod = 3 IN
    CASE i.op = \hA1 -> [Plain("MOV_RM32", 0, 0, 5) EXCEPT !.mem.disp = 4]
      [] i.op = \hA3 -> [Plain("MOV_MR32", 0, 0, 5) EXCEPT !.mem.disp = 4]
      [] i.op = \h85 -> IF r THEN Plain("TEST_RR", i.rm, i.reg, 2)
                        ELSE Memory("TEST_MR32", 0, i.reg, i, 2)
      [] i.op \in {\h81, \h83} /\ r ->
           Plain(IF i.reg = CMP THEN "CMP_RI" ELSE "ALU_RI", i.rm, 0, IF i.op = \h83 THEN 3 ELSE 6)
      [] i.op = \hF7 /\ r /\ i.reg = 2 -> Plain("NOT_R", i.rm, 0, 2)
      [] i.op = \hF7 /\ r /\ i.reg = 3 -> Plain("NEG_R", i.rm, 0, 2)
      [] i.op = \hC1 /\ r /\ i.reg \in {4, 5, 7} -> Plain("SHx_RI", i.rm, 0, 3)
      [] i.op = \hD3 /\ r /\ i.reg \in {4, 5, 7} -> Plain("SHx_CL", i.rm, 0, 2)
      [] OTHER -> None

\* EB, E9, 70 .. 7F, and after 0F: C8 .. CF, 80 .. 8F.
DecodeJump(i) ==
    CASE i.op = \hEB -> Plain("JMP", 0, 0, 2)
      [] i.op = \hE9 -> Plain("JMP", 0, 0, 5)
      [] i.op \in \h70 .. \h7F -> Plain("JCC", 0, 0, 2)
      [] i.op = \h0F /\ i.op2 \in \hC8 .. \hCF -> Plain("BSWAP_R", i.op2 % 8, 0, 2)
      [] i.op = \h0F /\ i.op2 \in \h80 .. \h8F -> Plain("JCC", 0, 0, 6)
      [] OTHER -> None

Prefixes == {\h26, \h2E, \h36, \h3E, \h64, \h65, \h67, \hF0, \hF2, \hF3}

\* Mutant: 66 is let through before every opcode.
OpszAccepted_All(op) == TRUE

\* The only opcodes taken with an operand-size prefix.
OpszAccepted(op) == op \in {\h89, \h8B}

decode_x86_insn(i) ==
    LET op == i.op IN
    IF op \in Prefixes \/ (i.opsz /\ ~OpszAccepted(op)) THEN None
    ELSE CASE op = \h90 -> Plain("NOP", 0, 0, 1)
           [] op \in \h91 .. \h97 -> Plain("XCHG_EAX_R", 0, op % 8, 1)
           [] op = \h98 -> Plain("CWDE", 0, 0, 1)
           [] op = \h99 -> Plain("CDQ", 0, 0, 1)
           [] op = \h6A -> Plain("PUSH_IMM8", 0, 0, 2)
           [] op \in \hB8 .. \hBF -> Plain("MOV_RI", op - \hB8, 0, 5)
           [] op \in \h40 .. \h47 -> Plain("INC_R", op - \h40, 0, 1)
           [] op \in \h48 .. \h4F -> Plain("DEC_R", op - \h48, 0, 1)
           [] AluMR(op) \/ AluRM(op) -> DecodeAlu(i)
           [] op \in \h88 .. \h8B -> DecodeMov(i)
           [] op \in {\h85, \h81, \h83, \hF7, \hC1, \hD3, \hA1, \hA3} -> DecodeGroup(i)
           [] OTHER -> DecodeJump(i)

-----------------------------------------------------------------------------
(* The interpreter.                                                        *)

\* modsib32: the address and what it fetched for it.
modsib32(i) ==
    LET fetched == i.mod = 0 /\ (IF i.rm = 4 THEN i.base = 5 ELSE i.rm = 5)
        index == IF i.rm = 4 /\ i.index # 4 THEN i.index ELSE -1
        disp == CASE fetched -> 4 [] i.mod = 1 -> 1 [] i.mod = 2 -> 4 [] OTHER -> 0
    IN  [base |-> IF fetched THEN -1 ELSE IF i.rm = 4 THEN i.base ELSE i.rm,
         index |-> index, scale |-> IF index = -1 THEN 0 ELSE i.scale,
         disp |-> disp, len |-> disp + (IF i.rm = 4 THEN 1 ELSE 0)]

\* What the opcode table gives the interpreter for the opcodes above: whether
\* ModRM follows, how long the immediate is, how wide the operands are.
HasModrm(i) ==
    i.op \in {\h01, \h09, \h11, \h19, \h21, \h29, \h31, \h39, \h03, \h0B, \h13, \h1B, \h23,
              \h2B, \h33, \h3B, \h88, \h89, \h8A, \h8B, \h85, \h81, \h83, \hF7, \hC1, \hD3}
Immediate(i) ==
    LET z == IF i.opsz THEN 2 ELSE 4 IN
    CASE i.op \in {\h6A, \h83, \hC1, \hEB} \cup \h70 .. \h7F -> 1
      [] i.op \in {\h81, \hE9} \cup \hB8 .. \hBF -> z
      [] i.op \in {\hA1, \hA3} -> 4
      [] i.op = \h0F /\ i.op2 \in \h80 .. \h8F -> z
      [] OTHER -> 0
Width(i) == IF i.op \in {\h88, \h8A} THEN 8 ELSE IF i.opsz THEN 16 ELSE 32

InterpreterLength(i) ==
    (IF i.opsz THEN 2 ELSE 1) + (IF i.op = \h0F THEN 1 ELSE 0) + Immediate(i)
    + (IF HasModrm(i) THEN 1 + (IF i.mod = 3 THEN 0 ELSE modsib32(i).len) ELSE 0)

ActionWidth(a) == CASE a.type \in {"MOV_RM8", "MOV_MR8"} -> 8
                    [] a.type \in {"MOV_RM16", "MOV_MR16"} -> 16
                    [] OTHER -> 32

-----------------------------------------------------------------------------
(* One round of the scan loop.                                             *)

NoInsn == [opsz |-> FALSE, op |-> 0, op2 |-> 0, mod |-> 3, reg |-> 0, rm |-> 0,
           scale |-> 0, index |-> 0, base |-> 0]

DecodeInit == /\ insn \in {[NoInsn EXCEPT !.op = op, !.opsz = z] : op \in 0 .. 255, z \in BOOLEAN}
              /\ left \in PageLeft /\ got = <<>>

\* The bytes that follow, where the opcode has them.
Operands(i) ==
    IF i.op = \h0F THEN {[i EXCEPT !.op2 = o] : o \in \h7F .. \h90 \cup \hC7 .. \hD0}
    ELSE IF ~HasModrm(i) THEN {i}
    ELSE {[i EXCEPT !.mod = m, !.reg = r, !.rm = rm] : m \in 0 .. 3, r \in Regs, rm \in 0 .. 7 \ {4}}
         \cup {[i EXCEPT !.mod = m, !.reg = r, !.rm = 4, !.scale = s, !.index = x, !.base = b] :
                 m \in 0 .. 3, r \in Regs, s \in Scales, x \in {0, 4, 5}, b \in {0, 4, 5}}

\* Mutant: six bytes before the end of the page are taken to be enough.
Admit_SixOnly(i) == IF left < 6 THEN None ELSE decode_x86_insn(i)

\* Nothing is decoded with fewer than six bytes left in the page, and what
\* reaches past its end is refused.
Admit(i) == LET a == decode_x86_insn(i) IN
            IF left < 6 \/ (a # None /\ a.len > left) THEN None ELSE a

Decode(i) == /\ got = <<>>
             /\ insn' = i
             /\ got' = Admit(i)
             /\ UNCHANGED left

DecodeNext == \E i \in Operands(insn) : Decode(i)
DecodeSpec == DecodeInit /\ [][DecodeNext]_decodeVars

-----------------------------------------------------------------------------
(* Properties.                                                             *)

Accepted == got # <<>> /\ got # None

\* What the JIT accepts is exactly as long as the interpreter would find it, has
\* the same width and the same address: the next instruction starts where the
\* interpreter's does, and next_ip is right after the block.
DecodeExact ==
    Accepted =>
      /\ got.len = InterpreterLength(insn)
      /\ ActionWidth(got) = Width(insn)
      /\ HasModrm(insn) /\ insn.mod # 3 => got.mem = modsib32(insn)

\* An accepted instruction lies inside its page, whatever its last field is.
InsidePage == Accepted => got.len <= left

=============================================================================
