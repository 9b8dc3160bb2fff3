------------------------------ MODULE JitBlock ------------------------------
(***************************************************************************)
(* One basic block of the JIT (jit_lx7.c): the scan that gathers guest     *)
(* instructions, the pass that drops flags nobody reads, the emitter that  *)
(* writes Xtensa code into a buffer of JIT_BLOCK_MAXBYTES, the exits, and  *)
(* one execution of the result.  The interpreter's outcome of the same     *)
(* instructions is the reference.                                          *)
(*                                                                         *)
(* A guest instruction is the record X86Action the decoder fills in.  Host *)
(* code is a sequence of host instructions over a2..a13 (a2 is CPUI386*,   *)
(* a3..a10 hold the guest registers, a11..a13 are scratch) that HostStep   *)
(* executes; Junk is what a host register holds that nobody loaded.        *)
(* Words are scaled from 32 bits to 4, so that a byte is one bit.          *)
(***************************************************************************)
EXTENDS Integers, Sequences

CONSTANTS
    Level,        \* level of the [jit] section of the configuration
    Insns,        \* the X86Actions the guest code is drawn from
    Machines,     \* guest states a block is entered in: [g, m, f]
    ScanLimit,    \* JIT_SCAN_LIMIT
    BlockBytes    \* JIT_BLOCK_MAXBYTES

VARIABLES
    inline,   \* enable_inline_mem, enable_stack_fastpath: no helper calls
    phase,    \* "scan", "flags", "emit", "ready", "nojit", "done"
    acts,     \* the scanned actions, then with flags_dead set
    n,        \* actions emitted
    cs,       \* CmpState
    code,     \* host instructions emitted
    entered,  \* the guest state the block was entered in
    out       \* the guest state after it

vars == <<inline, phase, acts, n, cs, code, entered, out>>

GPR == 0 .. 7
Word == 0 .. 15
Junk == -1
Wrap(v) == v % 16
Signed(v) == IF v > 7 THEN v - 16 ELSE v
B(p) == IF p THEN 1 ELSE 0

-----------------------------------------------------------------------------
(* X86Action.                                                              *)

NoMem == [base |-> -1, index |-> -1, scale |-> 0, disp |-> 0]
Action(t, d, s, i) ==
    [type |-> t, dst |-> d, src |-> s, imm |-> i, mem |-> NoMem, op |-> "NONE",
     cc |-> 0, dead |-> FALSE]

\* What decode_x86_insn fills in: src is a register or a shift count.
X86Action ==
    [type : STRING, dst : GPR, src : 0 .. 31, imm : Int,
     mem : [base : GPR \cup {-1}, index : GPR \cup {-1}, scale : 0 .. 3, disp : Int],
     op : STRING, cc : 0 .. 15, dead : BOOLEAN]

\* decode_x86_insn clears the action, flags_dead with it; an empty block, whose
\* prologue no guard protects, fits the buffer.
ASSUME DecodedActions == Insns \subseteq X86Action /\ \A a \in Insns : ~a.dead
ASSUME BlockSizes == BlockBytes \in Nat /\ BlockBytes >= 27

Compares == {"CMP_RR", "CMP_RI", "TEST_RR", "CMP_RM32", "CMP_MR32", "TEST_MR32"}
Loads == {"MOV_RM32", "MOV_RM8", "MOV_RM16"}
Stores == {"MOV_MR32", "MOV_MR8", "MOV_MR16"}
MemAccess == Loads \cup Stores \cup {"CMP_RM32", "CMP_MR32", "TEST_MR32"}

EndsBlock(a) == a.type \in {"JMP", "JCC"}

\* TINY386_JIT_MOV_RR_SINGLE_BLOCK
ScanStopsAfter(a) == EndsBlock(a) \/ a.type = "MOV_RR"

MemRegs(a) == {a.mem.base, a.mem.index} \ {-1}

\* The read and the write mask of an action.  A load into a register takes the
\* byte register's number (dst & 3) for 32-bit loads too.
jit_action_reg_masks(a) ==
    LET t == a.type  d == a.dst  s == a.src  M(r, w) == [r |-> r, w |-> w]
    IN  CASE t = "MOV_RR" -> M({s}, {d})
          [] t = "MOV_RI" -> M({}, {d})
          [] t = "ALU_RR" -> M({d, s}, {d})
          [] t \in {"CMP_RR", "TEST_RR"} -> M({d, s}, {})
          [] t \in {"ALU_RI", "NOT_R", "NEG_R", "SHx_RI", "BSWAP_R"} -> M({d}, {d})
          [] t = "CMP_RI" -> M({d}, {})
          [] t = "CWDE" -> M({0}, {0})
          [] t = "CDQ" -> M({0}, {2})
          [] t = "XCHG_EAX_R" -> M({0, s}, {0, s})
          [] t = "MOV_RM32" -> M(MemRegs(a), {d % 4})
          [] t = "MOV_RM8" -> M({d % 4} \cup MemRegs(a), {d % 4})
          [] t = "MOV_RM16" -> M({d} \cup MemRegs(a), {d})
          [] t \in {"MOV_MR32", "MOV_MR16", "CMP_MR32", "TEST_MR32"} -> M({s} \cup MemRegs(a), {})
          [] t = "MOV_MR8" -> M({s % 4} \cup MemRegs(a), {})
          [] t = "CMP_RM32" -> M({d} \cup MemRegs(a), {})
          [] t = "PUSH_IMM8" -> M({4}, {4})
          [] OTHER -> M({}, {})

\* jit_actions_reg_masks: over the whole scan, emitted or not.
load_mask == UNION {jit_action_reg_masks(acts[i]).r : i \in DOMAIN acts}
store_mask == UNION {jit_action_reg_masks(acts[i]).w : i \in DOMAIN acts}

-----------------------------------------------------------------------------
(* Host instructions.                                                      *)

R(i) == i + 3
CPU == 2
T0 == 11
T1 == 12
T2 == 13
SAR == 14

\* Words of CPUI386 the block touches; 0..7 are the guest registers.
NextIp == 8
Src1 == 9
Src2 == 10
Dst == 11
Dst2 == 12
Op == 13
Mask == 14

\* cc.op and cc.mask (AF is not followed).
CcOp == [ADD |-> 1, SUB |-> 3, NEG |-> 6, SAR |-> 19, SHL |-> 20, SHR |-> 21,
         AND |-> 26, OR |-> 27, XOR |-> 28]
MaskArith == 1
MaskLogic == 2

Mov(r, s) == <<"mov", r, s>>
Movi(r, v) == <<"movi", r, v>>
Movi32(r, v) == <<"movi32", r, Wrap(v)>>
Addr32(r) == <<"movi32", r, 0>>
Alu(f, r, s, t) == <<"alu", r, f, s, t>>
Addi(r, s, v) == <<"addi", r, s, v>>
Sh(f, r, s, k) == <<"shift", r, f, s, k>>
L32i(r, w) == <<"l32i", r, w>>
S32i(r, w) == <<"s32i", r, w>>
Call(h) == <<"call", h>>

\* Encoded length.  emit_movi32 is taken at its longest: a jump over the
\* literal, up to three bytes of padding, the literal, the load.
Size(i) == CASE i[1] \in {"mov", "retw"} -> 2
             [] i[1] \in {"movi32", "ip32"} -> 13
             [] OTHER -> 3
Bytes(c) == LET sum[k \in 0 .. Len(c)] == IF k = 0 THEN 0 ELSE sum[k-1] + Size(c[k])
            IN  sum[Len(c)]

\* One host instruction per guest register of S, in order.
Over(S, I) ==
    LET one(i) == IF i \in S THEN <<I[i]>> ELSE <<>>
    IN  one(0) \o one(1) \o one(2) \o one(3) \o one(4) \o one(5) \o one(6) \o one(7)

emit_load_gprs(S) == Over(S, [i \in GPR |-> L32i(R(i), i)])
emit_store_gprs(S) == Over(S, [i \in GPR |-> S32i(R(i), i)])
emit_prologue(S) == <<<<"entry">>>> \o emit_load_gprs(S)
emit_epilogue(ip, S) ==
    emit_store_gprs(S) \o <<<<"ip32", T0, ip>>, S32i(T0, NextIp), <<"retw">>>>
emit_linked_exit(S, ip) == emit_store_gprs(S) \o <<Mov(10, CPU), <<"call8", ip>>, <<"retw">>>>

emit_mem_address(a, d, t) ==
    LET m == a.mem IN
    (IF m.base >= 0 THEN <<Mov(d, R(m.base))>> ELSE <<Movi(d, 0)>>)
    \o (IF m.index < 0 THEN <<>> ELSE
          <<Mov(t, R(m.index))>>
          \o (IF m.scale = 0 THEN <<>> ELSE <<Sh("SHL", t, t, m.scale)>>)
          \o <<Alu("ADD", d, d, t)>>)
    \o (IF m.disp # 0 \/ (m.base < 0 /\ m.index < 0)
          THEN <<Movi32(t, m.disp), Alu("ADD", d, d, t)>> ELSE <<>>)

\* phys_mem + address: segment base, paging and the end of memory are left out.
emit_guest_ptr32(a) == emit_mem_address(a, T0, T1) \o <<<<"physmem", T2>>, Alu("ADD", T2, T2, T0)>>

emit_merge(d, v, bits, low) ==
    <<Movi32(T1, 15 - bits * low), Alu("AND", d, d, T1), Movi32(T1, bits), Alu("AND", v, v, T1)>>
    \o (IF low = 1 THEN <<>> ELSE <<Sh("SHL", v, v, 1)>>)
    \o <<Alu("OR", d, d, v)>>
emit_merge_u8(d, v, high) == emit_merge(d, v, 1, IF high THEN 2 ELSE 1)
emit_merge_u16(d, v) == emit_merge(d, v, 3, 1)

\* Mutant: after the call only the registers the block reads are loaded again.
Around_ReadsOnly(a, before, helper, after) ==
    emit_store_gprs(store_mask) \o before \o <<Addr32(T2), Mov(10, CPU), Call(helper)>>
    \o after \o emit_load_gprs(load_mask)

\* A helper call: the window rotates, so that a8..a15 are the callee's; what is
\* modified is stored before, what is used is loaded again after.
Around(a, before, helper, after) ==
    emit_store_gprs(store_mask) \o before \o <<Addr32(T2), Mov(10, CPU), Call(helper)>>
    \o after \o emit_load_gprs(load_mask \cup store_mask)

\* The lazy flags of a result in register d.
emit_cc(d, op, mask, t) ==
    <<S32i(d, Dst), Movi(t, CcOp[op]), S32i(t, Op), Movi32(t, mask), S32i(t, Mask)>>

\* emit_srli_any: a shift by half a word or more goes through SAR.
emit_srli_any(r, k) ==
    IF k < 2 THEN <<Sh("SHR", r, r, k)>>
    ELSE <<Movi(T2, k), <<"ssr", SAR, T2>>, <<"srl", r, r>>>>

-----------------------------------------------------------------------------
(* Gates and dead flags.                                                   *)

\* jit_action_enabled.  INC and DEC ask for flags_dead, which the scan has not
\* computed yet.
jit_action_enabled(a) ==
    LET t == a.type IN
    \/ Level >= 1 /\ t \in {"NOP", "MOV_RI", "MOV_RR"}
    \/ Level >= 2 /\ t \in {"NOT_R", "CWDE", "CDQ", "BSWAP_R", "NEG_R", "SHx_RI", "JMP"}
    \/ Level >= 2 /\ t \in {"ALU_RR", "ALU_RI"} /\ a.op \in {"ADD", "SUB", "AND", "OR", "XOR"}
    \/ Level >= 2 /\ t \in {"INC_R", "DEC_R"} /\ a.dead
    \/ Level >= 3 /\ t \in {"CMP_RR", "CMP_RI", "TEST_RR", "JCC", "XCHG_EAX_R", "PUSH_IMM8"}
    \/ Level >= 3 /\ t \in MemAccess

\* Mutant: NOT taken for an instruction that writes the flags.
WritesFlags_Not(a) ==
    a.type \in Compares \cup {"ALU_RR", "ALU_RI", "NEG_R", "NOT_R", "INC_R", "DEC_R", "SHx_RI"}

WritesFlags(a) ==
    a.type \in Compares \cup {"ALU_RR", "ALU_RI", "NEG_R", "INC_R", "DEC_R", "SHx_RI"}

\* The backward pass: a writer's flags are dead when a later writer comes before
\* any reader; past the end of the block they are read.
FlagsLiveAfter(as, i) ==
    \A k \in i + 1 .. Len(as) : WritesFlags(as[k]) =>
        \E j \in i + 1 .. k : as[j].type = "JCC"
MarkDead(as) ==
    [i \in DOMAIN as |-> [as[i] EXCEPT !.dead = WritesFlags(as[i]) /\ ~FlagsLiveAfter(as, i)]]

-----------------------------------------------------------------------------
(* emit_action.                                                            *)

\* An access to memory is written inline, or as a helper call.
PerForm(in, call) == IF inline THEN in ELSE call

\* The room each action asks for before it writes anything.
Guard(a) ==
    LET t == a.type  W(dead, live) == IF a.dead THEN dead ELSE live
    IN  CASE t = "CDQ" -> 3
          [] t \in {"CWDE", "XCHG_EAX_R"} -> 6
          [] t = "BSWAP_R" -> 56
          [] t \in {"MOV_RM32", "MOV_MR32"} -> PerForm(48, 112)
          [] t \in {"MOV_RM8", "MOV_MR8", "MOV_RM16", "MOV_MR16"} -> 160
          [] t = "PUSH_IMM8" -> PerForm(64, 112)
          [] t = "MOV_RR" -> 2
          [] t = "MOV_RI" -> 16
          [] t \in {"ALU_RR", "NEG_R"} -> W(3, 40)
          [] t = "ALU_RI" -> W(19, 56)
          [] t = "NOT_R" -> 19
          [] t = "SHx_RI" -> IF a.src = 0 THEN 0 ELSE W(16, 64)
          [] t \in {"CMP_RM32", "CMP_MR32"} -> PerForm(112, 176)
          [] t = "TEST_MR32" -> PerForm(96, 160)
          [] t = "CMP_RR" -> W(0, 40)
          [] t = "CMP_RI" -> W(19, 59)
          [] t = "TEST_RR" -> W(3, 35)
          [] t = "JMP" -> 64
          [] t = "JCC" -> 150
          [] OTHER -> 0

\* The conditions a pending comparison can decide.
JccSupported(mode, cc) ==
    \/ mode # 0 /\ cc \in {4, 5}
    \/ mode \in {1, 2} /\ cc \in {2, 3, 6, 7, 12, 13, 14, 15}
    \/ mode \in {2, 3} /\ cc \in {8, 9}

\* The branch for condition cc: over the long jump when cc is the inverse.
Branch(c, cc) ==
    LET l == c.l  r == c.r  z == IF c.mode = 2 THEN c.tmp ELSE c.l
    IN  CASE cc = 4 /\ c.mode = 1 -> <<"br", "eq", l, r>>
          [] cc = 4 /\ c.mode # 1 -> <<"br", "eqz", z, z>>
          [] cc = 5 /\ c.mode = 1 -> <<"br", "ne", l, r>>
          [] cc = 5 /\ c.mode # 1 -> <<"br", "nez", z, z>>
          [] cc = 12 -> <<"br", "lt", l, r>>
          [] cc = 13 -> <<"br", "ge", l, r>>
          [] cc = 14 -> <<"br", "ge", r, l>>
          [] cc = 15 -> <<"br", "lt", r, l>>
          [] cc = 2 -> <<"br", "ltu", l, r>>
          [] cc = 3 -> <<"br", "geu", l, r>>
          [] cc = 6 -> <<"br", "geu", r, l>>
          [] cc = 7 -> <<"br", "ltu", r, l>>
          [] cc = 8 -> <<"br", "ltz", z, z>>
          [] cc = 9 -> <<"br", "gez", z, z>>

\* Mutant: only the conditions with a sign or a zero are inverted.
Invert_SignedOnly(cc) == IF cc \in {6, 7} THEN cc ELSE IF cc % 2 = 0 THEN cc + 1 ELSE cc - 1

Invert(cc) == IF cc % 2 = 0 THEN cc + 1 ELSE cc - 1

\* The target of every jump; the end of action i is at i.
Target == 99

EmitJcc(a, next) ==
    LET fall == emit_epilogue(next, store_mask)
    IN  <<Branch(cs, Invert(a.cc)), <<"j", Len(fall)>>>> \o fall
        \o emit_epilogue(Target, store_mask)

EmitAluRR(a) ==
    LET d == R(a.dst)  s == R(a.src)
        mask == IF a.op \in {"ADD", "SUB"} THEN MaskArith ELSE MaskLogic
    IN  IF a.dead THEN <<Alu(a.op, d, d, s)>>
        ELSE <<S32i(d, Src1), S32i(s, Src2), Alu(a.op, d, d, s)>> \o emit_cc(d, a.op, mask, T0)

EmitAluRI(a) ==
    LET d == R(a.dst)
        mask == IF a.op \in {"ADD", "SUB"} THEN MaskArith ELSE MaskLogic
    IN  IF ~a.dead
          THEN <<S32i(d, Src1), Movi32(T0, a.imm), S32i(T0, Src2), Alu(a.op, d, d, T0)>>
               \o emit_cc(d, a.op, mask, T0)
        ELSE IF a.op = "ADD" THEN <<Addi(d, d, a.imm)>>
        ELSE IF a.op = "SUB" THEN <<Addi(d, d, -a.imm)>>
        ELSE <<Movi32(T0, a.imm), Alu(a.op, d, d, T0)>>

\* Mutant: the carry of a left shift is the bit below the one shifted out last.
EmitShift_CarryLow(a) ==
    LET d == R(a.dst)  k == a.src  f == a.op
        carry == (IF f = "SHR" THEN <<S32i(d, Src1)>> ELSE <<>>) \o <<Mov(T0, d)>>
                 \o emit_srli_any(T0, IF f = "SHL" THEN 3 - k ELSE k - 1)
                 \o <<Movi(T1, 1), Alu("AND", T0, T0, T1), S32i(T0, Dst2)>>
        shift == IF f = "SHR" THEN emit_srli_any(d, k) ELSE <<Sh(f, d, d, k)>>
    IN  IF k = 0 THEN <<>>
        ELSE IF a.dead THEN shift ELSE carry \o shift \o emit_cc(d, f, MaskLogic, T0)

EmitShift(a) ==
    LET d == R(a.dst)  k == a.src  f == a.op
        carry == (IF f = "SHR" THEN <<S32i(d, Src1)>> ELSE <<>>) \o <<Mov(T0, d)>>
                 \o emit_srli_any(T0, IF f = "SHL" THEN 4 - k ELSE k - 1)
                 \o <<Movi(T1, 1), Alu("AND", T0, T0, T1), S32i(T0, Dst2)>>
        shift == IF f = "SHR" THEN emit_srli_any(d, k) ELSE <<Sh(f, d, d, k)>>
    IN  IF k = 0 THEN <<>>
        ELSE IF a.dead THEN shift ELSE carry \o shift \o emit_cc(d, f, MaskLogic, T0)

EmitBswap(d) ==
    <<Mov(T0, d), Mov(T1, d), Mov(T2, d), Sh("SHL", T0, T0, 3),
      Sh("SHR", T1, T1, 1), Sh("SHL", T1, T1, 3), Sh("SHR", T1, T1, 1),
      Sh("SHR", T2, T2, 1), Sh("SHR", T2, T2, 1), Sh("SHL", T2, T2, 3),
      Sh("SHR", T2, T2, 1), Sh("SHR", T2, T2, 1),
      Sh("SHR", d, d, 1), Sh("SHR", d, d, 1), Sh("SHR", d, d, 1),
      Alu("OR", d, d, T0), Alu("OR", d, d, T1), Alu("OR", d, d, T2)>>

\* The word an instruction compares with memory, into T2.
EmitLoadT2(a) ==
    IF inline THEN emit_guest_ptr32(a) \o <<<<"ldm", T2, T2>>>>
    ELSE Around(a, emit_mem_address(a, T0, T1), "load32", <<Mov(T2, 10)>>)

EmitCompare(a) ==
    LET d == R(a.dst)  s == R(a.src)
        Sub(l, r) == <<S32i(l, Src1), S32i(r, Src2)>>
        live(c) == IF a.dead THEN <<>> ELSE c
    IN  CASE a.type = "CMP_RR" ->
               live(Sub(d, s) \o <<Alu("SUB", T0, d, s)>> \o emit_cc(T0, "SUB", MaskArith, T2))
          [] a.type = "CMP_RI" ->
               <<Movi32(T1, a.imm), Alu("SUB", T0, d, T1)>>
               \o live(Sub(d, T1) \o emit_cc(T0, "SUB", MaskArith, T2))
          [] a.type = "TEST_RR" ->
               <<Alu("AND", T0, d, s)>> \o live(emit_cc(T0, "AND", MaskLogic, T1))
          [] a.type = "CMP_RM32" ->
               EmitLoadT2(a) \o <<Alu("SUB", T0, d, T2)>>
               \o live(Sub(d, T2) \o emit_cc(T0, "SUB", MaskArith, T1))
          [] a.type = "CMP_MR32" ->
               EmitLoadT2(a) \o <<Alu("SUB", T0, T2, s)>>
               \o live(Sub(T2, s) \o emit_cc(T0, "SUB", MaskArith, T1))
          [] a.type = "TEST_MR32" ->
               EmitLoadT2(a) \o <<Alu("AND", T0, T2, s)>>
               \o live(emit_cc(T0, "AND", MaskLogic, T1))

NoCmp == [mode |-> 0, l |-> 0, r |-> 0, tmp |-> 0]
\* The comparison a following Jcc may use; any other action drops it.
Pending(a) ==
    LET d == R(a.dst)  s == R(a.src)
    IN  CASE a.type = "CMP_RR" -> [mode |-> 1, l |-> d, r |-> s, tmp |-> 0]
          [] a.type = "CMP_RI" -> [mode |-> 2, l |-> d, r |-> T1, tmp |-> T0]
          [] a.type \in {"TEST_RR", "TEST_MR32"} -> [mode |-> 3, l |-> T0, r |-> 0, tmp |-> 0]
          [] a.type = "CMP_RM32" -> [mode |-> 1, l |-> d, r |-> T2, tmp |-> 0]
          [] a.type = "CMP_MR32" -> [mode |-> 1, l |-> T2, r |-> s, tmp |-> 0]
          [] OTHER -> NoCmp

EmitMove(a) ==
    LET t == a.type  d == R(a.dst)  s == R(a.src)
        addr == emit_mem_address(a, T0, T1)
        byte(r) == R(r % 4)
    IN  CASE t = "MOV_RM32" /\ inline -> emit_guest_ptr32(a) \o <<<<"ldm", d, T2>>>>
          [] t = "MOV_RM32" /\ ~inline -> Around(a, addr \o <<Movi(12, a.dst)>>, "mov_rm32", <<>>)
          [] t = "MOV_MR32" /\ inline -> emit_guest_ptr32(a) \o <<<<"stm", s, T2>>>>
          [] t = "MOV_MR32" /\ ~inline -> Around(a, addr \o <<Mov(12, s)>>, "mov_mr32", <<>>)
          [] t = "MOV_RM8" ->
               Around(a, addr, "load8", <<Mov(T2, 10)>>) \o emit_merge_u8(byte(a.dst), T2, a.dst > 3)
          [] t = "MOV_RM16" ->
               Around(a, addr, "load16", <<Mov(T2, 10)>>) \o emit_merge_u16(d, T2)
          [] t = "MOV_MR8" /\ a.src > 3 ->
               Around(a, addr \o <<Sh("SHR", T1, byte(a.src), 1), Movi32(T2, 1),
                                   Alu("AND", T1, T1, T2), Mov(12, T1)>>, "store8", <<>>)
          [] t = "MOV_MR8" /\ a.src < 4 ->
               Around(a, addr \o <<Movi32(T2, 1), Alu("AND", T1, byte(a.src), T2), Mov(12, T1)>>,
                      "store8", <<>>)
          [] t = "MOV_MR16" ->
               Around(a, addr \o <<Movi32(T2, 3), Alu("AND", T1, s, T2), Mov(12, T1)>>, "store16", <<>>)
          [] t = "PUSH_IMM8" /\ inline ->
               <<Addi(R(4), R(4), -4), <<"physmem", T2>>, Alu("ADD", T2, T2, R(4)),
                 Movi32(T1, a.imm), <<"stm", T1, T2>>>>
          [] t = "PUSH_IMM8" /\ ~inline -> Around(a, <<Movi32(11, a.imm)>>, "push_imm32", <<>>)

emit_action(a, next) ==
    LET t == a.type  d == R(a.dst)  s == R(a.src)
    IN  CASE t = "NOP" -> <<>>
          [] t = "CWDE" -> <<Sh("SHL", R(0), R(0), 2), Sh("SAR", R(0), R(0), 2)>>
          [] t = "CDQ" -> <<Sh("SAR", R(2), R(0), 3)>>
          [] t = "XCHG_EAX_R" -> <<Mov(T0, R(0)), Mov(R(0), s), Mov(s, T0)>>
          [] t = "BSWAP_R" -> EmitBswap(d)
          [] t = "MOV_RR" -> <<Mov(d, s)>>
          [] t = "MOV_RI" -> <<Movi32(d, a.imm)>>
          [] t = "ALU_RR" -> EmitAluRR(a)
          [] t = "ALU_RI" -> EmitAluRI(a)
          [] t = "NOT_R" -> <<Movi32(T0, 15), Alu("XOR", d, d, T0)>>
          [] t = "NEG_R" /\ a.dead -> <<<<"neg", d, d>>>>
          [] t = "NEG_R" /\ ~a.dead ->
               <<S32i(d, Src1), <<"neg", d, d>>>> \o emit_cc(d, "NEG", MaskArith, T0)
          [] t = "SHx_RI" -> EmitShift(a)
          [] t \in Compares -> EmitCompare(a)
          [] t = "JMP" -> emit_epilogue(Target, store_mask)
          [] t = "JCC" -> EmitJcc(a, next)
          [] OTHER -> EmitMove(a)

\* Mutant: the buffer is asked to have room left, not the room the action needs.
Emits_AnyRoom(a) ==
    /\ Bytes(code) < BlockBytes
    /\ a.type = "JCC" => JccSupported(cs.mode, a.cc)

\* emit_action's result: nothing is written when it fails.
Emits(a) ==
    /\ Bytes(code) + Guard(a) <= BlockBytes
    /\ a.type = "JCC" => JccSupported(cs.mode, a.cc)

-----------------------------------------------------------------------------
(* Words, memory, flags.                                                   *)

Bit(v, k) == (v \div 2^k) % 2
And(x, y) == Bit(x, 0) * Bit(y, 0) + 2 * Bit(x, 1) * Bit(y, 1)
             + 4 * Bit(x, 2) * Bit(y, 2) + 8 * Bit(x, 3) * Bit(y, 3)
AluOf(f, x, y) ==
    CASE f = "ADD" -> Wrap(x + y) [] f = "SUB" -> Wrap(x - y) [] f = "AND" -> And(x, y)
      [] f = "OR" -> x + y - And(x, y) [] f = "XOR" -> x + y - 2 * And(x, y)
ShiftOf(f, x, k) ==
    CASE f = "SHL" -> Wrap(x * 2^k) [] f = "SHR" -> x \div 2^k
      [] f = "SAR" -> Wrap(Signed(x) \div 2^k)

\* Memory holds one-bit bytes; addresses wrap at the end of it.
Load(m, a, bytes) ==
    LET at(k) == IF k < bytes THEN 2^k * m[Wrap(a + k)] ELSE 0
    IN  at(0) + at(1) + at(2) + at(3)
Store(m, a, v, bytes) ==
    [x \in DOMAIN m |-> IF Wrap(x - a) < bytes THEN Bit(v, Wrap(x - a)) ELSE m[x]]

Flags(c, z, s, o) == [C |-> c, Z |-> z, S |-> s, O |-> o]
Result(r, c, o) == Flags(c, B(r = 0), Bit(r, 3), o)

\* get_CF, get_ZF, get_SF and get_OF on the cc fields of the CPU words c.
LazyFlags(c, f) ==
    LET op == c[Op]  d == c[Dst]  x == c[Src1]  y == c[Src2]
        add == op = CcOp.ADD  sub == op = CcOp.SUB
        cf == CASE add -> B(d < y) [] sub -> B(x < y) [] op = CcOp.NEG -> B(d # 0)
                [] op \in {CcOp.SHL, CcOp.SHR, CcOp.SAR} -> c[Dst2] % 2
                [] OTHER -> 0
        of == CASE add -> B(Bit(x, 3) = Bit(y, 3) /\ Bit(d, 3) # Bit(y, 3))
                [] sub -> B(Bit(x, 3) # Bit(y, 3) /\ Bit(d, 3) # Bit(x, 3))
                [] op = CcOp.NEG -> B(d = 8)
                [] op = CcOp.SHL -> (Bit(d, 3) + c[Dst2]) % 2
                [] op = CcOp.SHR -> Bit(x, 3)
                [] OTHER -> 0
    IN  IF c[Mask] = 0 THEN f ELSE Result(d, cf, of)

-----------------------------------------------------------------------------
(* Running host code.  s holds the host registers r, the CPU words c and   *)
(* guest memory m; what a junk operand yields is junk.                     *)

Reg(s, r) == s.r[r]
Set(s, r, v) == [s EXCEPT !.r[r] = v]
Lift(x, y, v) == IF Junk \in {x, y} THEN Junk ELSE v

CallHelper(h, s) ==
    LET a == s.r[11]  v == s.r[12]
        after(c, m, ret) ==
            [s EXCEPT !.c = c, !.m = m,
                      !.r = [i \in DOMAIN s.r |-> IF i = 10 THEN ret
                                                  ELSE IF i \in 8 .. 15 THEN Junk ELSE s.r[i]]]
        esp == Wrap(s.c[4] - 4)
    IN  CASE h = "mov_rm32" -> after([s.c EXCEPT ![v] = Load(s.m, a, 4)], s.m, Junk)
          [] h = "mov_mr32" -> after(s.c, Store(s.m, a, v, 4), Junk)
          [] h = "load8" -> after(s.c, s.m, Load(s.m, a, 1))
          [] h = "load16" -> after(s.c, s.m, Load(s.m, a, 2))
          [] h = "load32" -> after(s.c, s.m, Load(s.m, a, 4))
          [] h = "store8" -> after(s.c, Store(s.m, a, v, 1), Junk)
          [] h = "store16" -> after(s.c, Store(s.m, a, v, 2), Junk)
          [] h = "push_imm32" -> after([s.c EXCEPT ![4] = esp], Store(s.m, esp, a, 4), Junk)

Taken(k, x, y) ==
    CASE k = "eq" -> x = y [] k = "ne" -> x # y
      [] k = "eqz" -> x = 0 [] k = "nez" -> x # 0
      [] k = "lt" -> Signed(x) < Signed(y) [] k = "ge" -> Signed(x) >= Signed(y)
      [] k = "ltu" -> x < y [] k = "geu" -> x >= y
      [] k = "ltz" -> x > 7 [] k = "gez" -> x < 8

HostStep(i, s) ==
    LET r(k) == s.r[i[k]]  k == i[1]
    IN  CASE k = "mov" -> Set(s, i[2], r(3))
          [] k \in {"movi", "movi32", "ip32"} -> Set(s, i[2], i[3])
          [] k = "alu" -> Set(s, i[2], Lift(r(4), r(5), AluOf(i[3], r(4), r(5))))
          [] k = "addi" -> Set(s, i[2], Lift(r(3), 0, Wrap(r(3) + i[4])))
          [] k = "neg" -> Set(s, i[2], Lift(r(3), 0, Wrap(-r(3))))
          [] k = "shift" -> Set(s, i[2], Lift(r(4), 0, ShiftOf(i[3], r(4), i[5])))
          [] k = "ssr" -> Set(s, i[2], r(3))
          [] k = "srl" -> Set(s, i[2], Lift(r(3), 0, ShiftOf("SHR", r(3), s.r[SAR])))
          [] k = "l32i" -> Set(s, i[2], s.c[i[3]])
          [] k = "s32i" -> [s EXCEPT !.c[i[3]] = r(2)]
          [] k = "physmem" -> Set(s, i[2], 0)
          [] k = "ldm" -> Set(s, i[2], Lift(r(3), 0, Load(s.m, r(3), 4)))
          [] k = "stm" -> [s EXCEPT !.m = Store(s.m, r(3), r(2), 4)]
          [] k = "call" -> CallHelper(i[2], s)
          [] k = "call8" -> [s EXCEPT !.c[NextIp] = i[2]]
          [] OTHER -> s

\* One host instruction at st.pc; a block stays at the RETW it meets.
Advance(c, st) ==
    LET i == c[st.pc]  k == i[1]  r == st.s.r
    IN  CASE k = "retw" -> st
          [] k = "j" -> [st EXCEPT !.pc = @ + 1 + i[2]]
          [] k = "br" -> [st EXCEPT !.pc = @ + (IF Taken(i[2], r[i[3]], r[i[4]]) THEN 2 ELSE 1)]
          [] OTHER -> [pc |-> st.pc + 1, s |-> HostStep(i, st.s)]

\* The code from its first instruction to the RETW it meets (it only jumps
\* forward); a linked exit runs into the next block, whose own prologue loads
\* what it reads.
Run(c, s) ==
    LET after[k \in 0 .. Len(c)] == IF k = 0 THEN [pc |-> 1, s |-> s]
                                    ELSE Advance(c, after[k-1])
    IN  after[Len(c)].s

\* CPUI386 when the block is entered: lazy flags settled (cc.mask = 0).
EnterWith(g) ==
    [r |-> [i \in 2 .. 15 |-> IF i = CPU THEN 0 ELSE Junk],
     c |-> [w \in 0 .. Mask |-> IF w \in GPR THEN g.g[w] ELSE 0],
     m |-> g.m]

-----------------------------------------------------------------------------
(* The interpreter on the same actions.                                    *)

CondHolds(f, cc) ==
    LET base == CASE cc \div 2 = 0 -> f.O = 1 [] cc \div 2 = 1 -> f.C = 1
                  [] cc \div 2 = 2 -> f.Z = 1 [] cc \div 2 = 3 -> f.C = 1 \/ f.Z = 1
                  [] cc \div 2 = 4 -> f.S = 1 [] cc \div 2 = 6 -> f.S # f.O
                  [] cc \div 2 = 7 -> f.Z = 1 \/ f.S # f.O
    IN  base = (cc % 2 = 0)

FlagsOf(f, x, y) ==
    LET r == AluOf(f, x, y) IN
    CASE f = "ADD" -> Result(r, B(x + y > 15), B(Signed(x) + Signed(y) \notin -8 .. 7))
      [] f = "SUB" -> Result(r, B(x < y), B(Signed(x) - Signed(y) \notin -8 .. 7))
      [] OTHER -> Result(r, 0, 0)

\* OF as the interpreter leaves it for every count (i386.c's get_OF).
ShiftFlags(f, x, k) ==
    LET r == ShiftOf(f, x, k) IN
    CASE f = "SHL" -> Result(r, Bit(x, 4 - k), (Bit(r, 3) + Bit(x, 4 - k)) % 2)
      [] f = "SHR" -> Result(r, Bit(x, k - 1), Bit(x, 3))
      [] f = "SAR" -> Result(r, Bit(x, k - 1), 0)

Swap(v) == 8 * Bit(v, 0) + 4 * Bit(v, 1) + 2 * Bit(v, 2) + Bit(v, 3)

Interpret(a, s) ==
    LET t == a.type  g == s.g  m == s.m
        d == g[a.dst]  x == g[a.src]
        Base(i) == IF i < 0 THEN 0 ELSE g[i]
        ea == Wrap(Base(a.mem.base) + Base(a.mem.index) * 2^a.mem.scale + a.mem.disp)
        w == Load(m, ea, 4)
        Put(r, v) == [s EXCEPT !.g[r] = v]
        low == a.dst % 4  hi == a.dst \div 4
    IN  CASE t = "MOV_RR" -> Put(a.dst, x)
          [] t = "MOV_RI" -> Put(a.dst, a.imm)
          [] t = "ALU_RR" -> [Put(a.dst, AluOf(a.op, d, x)) EXCEPT !.f = FlagsOf(a.op, d, x)]
          [] t = "ALU_RI" -> [Put(a.dst, AluOf(a.op, d, a.imm)) EXCEPT !.f = FlagsOf(a.op, d, a.imm)]
          [] t = "NOT_R" -> Put(a.dst, 15 - d)
          [] t = "NEG_R" -> [Put(a.dst, Wrap(-d)) EXCEPT !.f = FlagsOf("SUB", 0, d)]
          [] t = "SHx_RI" -> IF a.src = 0 THEN s
                             ELSE [Put(a.dst, ShiftOf(a.op, d, a.src))
                                     EXCEPT !.f = ShiftFlags(a.op, d, a.src)]
          [] t = "CMP_RR" -> [s EXCEPT !.f = FlagsOf("SUB", d, x)]
          [] t = "CMP_RI" -> [s EXCEPT !.f = FlagsOf("SUB", d, a.imm)]
          [] t = "TEST_RR" -> [s EXCEPT !.f = FlagsOf("AND", d, x)]
          [] t = "CMP_RM32" -> [s EXCEPT !.f = FlagsOf("SUB", d, w)]
          [] t = "CMP_MR32" -> [s EXCEPT !.f = FlagsOf("SUB", w, x)]
          [] t = "TEST_MR32" -> [s EXCEPT !.f = FlagsOf("AND", w, x)]
          [] t = "CWDE" -> Put(0, ShiftOf("SAR", Wrap(g[0] * 4), 2))
          [] t = "CDQ" -> Put(2, IF g[0] > 7 THEN 15 ELSE 0)
          [] t = "XCHG_EAX_R" -> [s EXCEPT !.g[0] = x, !.g[a.src] = g[0]]
          [] t = "BSWAP_R" -> Put(a.dst, Swap(d))
          [] t = "MOV_RM32" -> Put(a.dst, w)
          [] t = "MOV_RM16" -> Put(a.dst, 4 * (d \div 4) + (w % 4))
          [] t = "MOV_RM8" -> Put(low, g[low] + 2^hi * (Bit(w, 0) - Bit(g[low], hi)))
          [] t = "MOV_MR32" -> [s EXCEPT !.m = Store(m, ea, x, 4)]
          [] t = "MOV_MR16" -> [s EXCEPT !.m = Store(m, ea, x, 2)]
          [] t = "MOV_MR8" -> [s EXCEPT !.m = Store(m, ea, Bit(g[a.src % 4], a.src \div 4), 1)]
          [] t = "PUSH_IMM8" -> [s EXCEPT !.g[4] = Wrap(g[4] - 4),
                                         !.m = Store(m, Wrap(g[4] - 4), a.imm, 4)]
          [] OTHER -> s

\* The first k actions, from guest state s, and where they leave next_ip.
Interpreted(s, k) ==
    LET after[i \in 0 .. k] == IF i = 0 THEN s ELSE Interpret(acts[i], after[i-1])
    IN  after[k]
InterpretedIp(s, k) ==
    LET a == acts[k] IN
    IF a.type = "JMP" \/ (a.type = "JCC" /\ CondHolds(Interpreted(s, k).f, a.cc))
      THEN Target ELSE k

-----------------------------------------------------------------------------
(* jit_translate, and one call of the block.                               *)

Init == /\ inline \in BOOLEAN
        /\ phase = "scan" /\ acts = <<>> /\ n = 0 /\ cs = NoCmp /\ code = <<>>
        /\ entered = <<>> /\ out = <<>>

\* Pass 1 takes one more instruction.
Scan(a) ==
    /\ phase = "scan" /\ Len(acts) < ScanLimit
    /\ jit_action_enabled(a)
    /\ acts' = Append(acts, a)
    /\ phase' = IF ScanStopsAfter(a) \/ Len(acts') = ScanLimit THEN "flags" ELSE "scan"
    /\ UNCHANGED <<inline, n, cs, code, entered, out>>

\* The next instruction is not decoded, or its action is not enabled.
ScanStop ==
    /\ phase = "scan" /\ acts # <<>>
    /\ phase' = "flags"
    /\ UNCHANGED <<inline, acts, n, cs, code, entered, out>>

DeadFlags ==
    /\ phase = "flags"
    /\ acts' = MarkDead(acts)
    /\ code' = emit_prologue(load_mask)
    /\ phase' = "emit"
    /\ UNCHANGED <<inline, n, cs, entered, out>>

\* Pass 2: one action.
Emit ==
    /\ phase = "emit" /\ n < Len(acts)
    /\ Emits(acts[n + 1])
    /\ code' = code \o emit_action(acts[n + 1], n + 1)
    /\ cs' = Pending(acts[n + 1])
    /\ n' = n + 1
    /\ UNCHANGED <<inline, phase, acts, entered, out>>

\* p + 80 < code_end
RoomForExit == Bytes(code) + 80 < BlockBytes

Exit(exit) == /\ code' = code \o exit /\ phase' = "ready"
              /\ UNCHANGED <<inline, acts, n, cs, entered, out>>
GiveUp == phase' = "nojit" /\ UNCHANGED <<inline, acts, n, cs, code, entered, out>>

\* Everything emitted: the block jumps itself, links to the block that starts
\* here when there is one within reach, or returns.
Finish ==
    /\ phase = "emit" /\ n = Len(acts)
    /\ \/ EndsBlock(acts[n]) /\ Bytes(code) < BlockBytes /\ Exit(<<>>)
       \/ ~EndsBlock(acts[n]) /\ Bytes(code) + 40 < BlockBytes
          /\ Exit(emit_linked_exit(store_mask, n))
       \/ ~EndsBlock(acts[n]) /\ RoomForExit /\ Exit(emit_epilogue(n, store_mask))
       \/ (EndsBlock(acts[n]) => Bytes(code) >= BlockBytes) /\ ~RoomForExit /\ GiveUp

\* emit_action failed: the block ends before that instruction, if it has any.
Partial ==
    /\ phase = "emit" /\ n < Len(acts)
    /\ ~Emits(acts[n + 1])
    /\ \/ n > 0 /\ RoomForExit /\ Exit(emit_epilogue(n, store_mask))
       \/ (n = 0 \/ ~RoomForExit) /\ GiveUp

Execute(g) ==
    /\ phase = "ready"
    /\ entered' = g
    /\ out' = LET s == Run(code, EnterWith(g)) IN [c |-> s.c, m |-> s.m]
    /\ phase' = "done"
    /\ UNCHANGED <<inline, acts, n, cs, code>>

Next == \/ \E a \in Insns : Scan(a)
        \/ ScanStop \/ DeadFlags \/ Emit \/ Finish \/ Partial
        \/ \E g \in Machines : Execute(g)

Spec == Init /\ [][Next]_vars

-----------------------------------------------------------------------------
(* Properties.                                                             *)

\* The emitter never writes past JIT_BLOCK_MAXBYTES: each action's guard, and
\* the room kept for an exit, cover what is written after them even when every
\* literal takes its longest form.
WithinBuffer == Bytes(code) <= BlockBytes

\* The block ran, and holds no 32-bit load into ESP, EBP, ESI or EDI, whose masks
\* name another register (see RegistersKept).
Ran == phase = "done" /\ \A i \in DOMAIN acts : acts[i].type = "MOV_RM32" => acts[i].dst < 4

\* Registers the epilogue stores although nothing loaded them and no emitted
\* action wrote them: their writer was cut off.
Unreached == store_mask \ (load_mask \cup UNION {jit_action_reg_masks(acts[i]).w : i \in 1 .. n})

\* A block leaves in every guest register and in memory what the interpreter
\* would: across helper calls that rotate the register window, however many
\* actions were emitted and whichever exit was taken (apart from the two cases
\* above, which RegistersKept is about).
RegistersExact ==
    Ran =>
      /\ \A r \in GPR \ Unreached : out.c[r] = Interpreted(entered, n).g[r]
      /\ out.m = Interpreted(entered, n).m

\* The block returns to the instruction the interpreter would run next: the
\* fused comparison and branch decide every condition as the flags would.
ExitExact == Ran => out.c[NextIp] = InterpretedIp(entered, n)

\* A shift by zero writes no flags, but counts as a writer.
ZeroShift == \E i \in DOMAIN acts : acts[i].type = "SHx_RI" /\ acts[i].src = 0

\* The flags a block leaves are the interpreter's, except where the guest
\* overwrites them before it can read them (the scanned instructions after the
\* cut say so), or a shift by zero was taken for such a writer.
FlagsExact ==
    Ran /\ ~ZeroShift /\ FlagsLiveAfter(acts, n) =>
      LazyFlags(out.c, entered.f) = Interpreted(entered, n).f

\* A block is its instructions: registers, memory, flags and the address it
\* returns to (emit_action, emit_epilogue).
BlockExact == RegistersExact /\ ExitExact /\ FlagsExact

\* "store modified x86 GPRs back": a block changes no register its instructions
\* do not write.
RegistersKept ==
    phase = "done" => \A r \in GPR : Interpreted(entered, n).g[r] = entered.g[r] =>
                                       out.c[r] = entered.g[r]

=============================================================================
