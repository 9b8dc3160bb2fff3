------------------------------ MODULE CpuStack ------------------------------
(***************************************************************************)
(* Operands, the stack and near control transfer in the i386 interpreter   *)
(* (i386.c): addressing modes, PUSH/POP and their relatives, CALL/RET,     *)
(* ENTER/LEAVE, LOOP, and far transfers and IRET in real mode.             *)
(*                                                                         *)
(* An instruction is a plan: the sequence of its fallible steps            *)
(* (instruction fetches and address translations) in source order, with    *)
(* the machine as it is left when that step fails, and the machine when    *)
(* none does.  Which step fails is the guest's memory map's affair, so it  *)
(* is chosen freely.  cpui386_step puts next_ip back on a failure.         *)
(*                                                                         *)
(* Scale: a 16-bit value is one cell of 0..H-1, a 32-bit value two cells.  *)
(***************************************************************************)
EXTENDS Integers, Sequences

CONSTANTS
    H,              \* 2^16
    SpChoice,       \* initial ESP
    ModRM,          \* operands: [adsz16, mod, rm, base, index, scale, disp]
    MaxSteps        \* instructions executed

W == H * H
Reg == 0..7
AX == 0  CX == 1  BX == 3  SP == 4  BP == 5  SI == 6  DI == 7

StackSizes ==
    /\ H \in Nat /\ H > 7 /\ MaxSteps \in Nat /\ SpChoice \subseteq Int
    /\ \A o \in ModRM :
          /\ o.adsz16 \in BOOLEAN /\ o.mod \in 0..3 /\ o.scale \in {1, 2, 4, 8} /\ o.disp \in Int
          /\ {o.rm, o.base, o.index} \subseteq Reg

\* No operand is ESP itself: then the guest sets all of it.
NoSpOperand == \A o \in ModRM : o.mod = 3 => o.rm # SP

VARIABLES
    m,          \* [r, mem, ip, cs, fl, mask]: the machine; mask is sp_mask + 1
    faulted,    \* number of faults taken
    steps,      \* number of instructions completed
    stk,        \* ghost: entries pushed and not yet popped, top first
    pop         \* ghost: <<expected, popped>> of the last matching pop

stkVars == <<m, faulted, steps, stk, pop>>

-----------------------------------------------------------------------------
(* Registers and memory.  n is the operand size in cells.                  *)

Size(n) == IF n = 1 THEN H ELSE W
lreg(t, n, i) == t.r[i] % Size(n)
sreg(t, n, i, v) == [t EXCEPT !.r[i] = (@ - (@ % Size(n))) + (v % Size(n))]
\* Mutant: the rest of ESP is cleared.
set_sp_Clear(t, v) == [t EXCEPT !.r[SP] = v % t.mask]

set_sp(t, v) == [t EXCEPT !.r[SP] = (v % t.mask) + (@ - (@ % t.mask))]

\* An access is n consecutive cells of a segment from a; it does not wrap
\* with the 16-bit stack, only with the linear address space.
Load(t, seg, a, n) ==
    IF n = 1 THEN t.mem[seg][a % W] ELSE t.mem[seg][a % W] + H * t.mem[seg][(a + 1) % W]
Store(t, seg, a, n, v) ==
    IF n = 1 THEN [t EXCEPT !.mem[seg][a % W] = v % H]
    ELSE [t EXCEPT !.mem[seg] = [@ EXCEPT ![a % W] = v % H, ![(a + 1) % W] = (v \div H) % H]]

Top(t) == t.r[SP] % t.mask              \* sp & sp_mask
Below(t, k) == (t.r[SP] - k) % t.mask   \* (sp - k) & sp_mask

\* A plan: the machine at each failing step, and in the end.
Plan(at, done) == [at |-> at, done |-> done]
Same(t, k) == [i \in 1..k |-> t]        \* k fallible steps that change nothing

-----------------------------------------------------------------------------
(* Operands.  Each is [addr, seg, fetches].                                *)

modsib32(t, o) ==
    LET sib == o.rm = 4
        noBase == o.mod = 0 /\ ((sib /\ o.base = 5) \/ o.rm = 5)
        base == IF sib THEN o.base ELSE o.rm
        index == IF sib /\ o.index # 4 THEN t.r[o.index] * o.scale ELSE 0
        disp == IF o.mod # 0 \/ noBase THEN o.disp ELSE 0
    IN  [addr |-> ((IF noBase THEN 0 ELSE t.r[base]) + index + disp) % W,
         seg |-> IF ~noBase /\ (base = BP \/ (sib /\ base = SP)) THEN "SS" ELSE "DS",
         fetches |-> (IF sib THEN 1 ELSE 0) + (IF noBase \/ o.mod # 0 THEN 1 ELSE 0)]

modsib16(t, o) ==
    LET direct == o.rm = 6 /\ o.mod = 0
        regs == CASE o.rm = 0 -> {BX, SI} [] o.rm = 1 -> {BX, DI} [] o.rm = 2 -> {BP, SI}
                  [] o.rm = 3 -> {BP, DI} [] o.rm = 4 -> {SI} [] o.rm = 5 -> {DI}
                  [] o.rm = 6 -> {BP} [] o.rm = 7 -> {BX}
        v(i) == IF i \in regs THEN t.r[i] ELSE 0
        disp == IF o.mod # 0 \/ direct THEN o.disp ELSE 0
    IN  [addr |-> ((IF direct THEN 0 ELSE v(BX) + v(BP) + v(SI) + v(DI)) + disp) % H,
         seg |-> IF o.rm \in {2, 3} \/ (o.mod # 0 /\ o.rm = 6) THEN "SS" ELSE "DS",
         fetches |-> IF direct \/ o.mod # 0 THEN 1 ELSE 0]

modsib(t, o) == IF o.adsz16 THEN modsib16(t, o) ELSE modsib32(t, o)

\* E_helper and its relatives: modrm, the address bytes, imm fetches of the
\* immediate, one translation; nothing has changed when one of them fails.
OperandSteps(t, o, imm) == Same(t, 1 + (IF o.mod = 3 THEN 0 ELSE modsib(t, o).fetches + 1) + imm)

Operand(t, o, n) ==
    IF o.mod = 3 THEN lreg(t, n, o.rm)
    ELSE LET e == modsib(t, o) IN Load(t, e.seg, e.addr, n)

SetOperand(t, o, n, v) ==
    IF o.mod = 3 THEN sreg(t, n, o.rm, v)
    ELSE LET e == modsib(t, o) IN Store(t, e.seg, e.addr, n, v)

-----------------------------------------------------------------------------
(* Instructions that move data.                                            *)

MOV_GE(t, n, o, i) == Plan(OperandSteps(t, o, 0), sreg(t, n, i, Operand(t, o, n)))
MOV_EG(t, n, o, i) == Plan(OperandSteps(t, o, 0), SetOperand(t, o, n, lreg(t, n, i)))
MOV_EI(t, n, o, v) == Plan(OperandSteps(t, o, 1), SetOperand(t, o, n, v))

\* tmp = b; b = a; a = tmp, the address being that of the start.
XCHG(t, n, o, i) ==
    LET tmp == lreg(t, n, i)
        u == sreg(t, n, i, Operand(t, o, n))
        e == modsib(t, o)
    IN  Plan(OperandSteps(t, o, 0),
             IF o.mod = 3 THEN sreg(u, n, o.rm, tmp) ELSE Store(u, e.seg, e.addr, n, tmp))

LEA(t, n, o, i) ==      \* refused for a register
    IF o.mod = 3 THEN Plan(Same(t, 2), t)
    ELSE Plan(Same(t, 1 + modsib(t, o).fetches), sreg(t, n, i, modsib(t, o).addr))

-----------------------------------------------------------------------------
(* The stack.                                                              *)

\* Mutant: SP is not moved.
PUSH_NoMove(t, n, pre, v) == Plan(Same(t, pre + 1), Store(t, "SS", Below(t, n), n, v))

\* PUSHb, PUSHw, PUSHd after pre operand steps; also PUSHF, PUSHSeg, CALL.
PUSH(t, n, pre, v) ==
    Plan(Same(t, pre + 1), Store(set_sp(t, t.r[SP] - n), "SS", Below(t, n), n, v))

PUSH_E(t, n, o) == PUSH(t, n, Len(OperandSteps(t, o, 0)), Operand(t, o, n))

\* Only the lower half is stored; the slot has the operand size.
PUSHSeg(t, n, sel) ==
    Plan(Same(t, 1), Store(set_sp(t, t.r[SP] - n), "SS", Below(t, n), 1, sel))

POPReg(t, n, i) ==
    Plan(Same(t, 1), sreg(set_sp(t, t.r[SP] + n), n, i, Load(t, "SS", Top(t), n)))

\* Mutant: SP stays moved when the destination cannot be written.
POP_NoUndo(t, n, o) ==
    LET u == set_sp(t, t.r[SP] + n)
    IN  Plan(Same(t, 2) \o Same(u, modsib(u, o).fetches + 1), SetOperand(u, o, n, Load(t, "SS", Top(t), n)))

\* POP_helper: SP is moved before the destination's address is formed, and put
\* back if that or its translation fails.
POP(t, n, o) ==
    LET u == set_sp(t, t.r[SP] + n)
        undone == set_sp(u, t.r[SP])
    IN  Plan(Same(t, 2) \o (IF o.mod = 3 THEN <<>> ELSE Same(undone, modsib(u, o).fetches + 1)),
             SetOperand(u, o, n, Load(t, "SS", Top(t), n)))

POPF(t, n) ==
    LET v == Load(t, "SS", Top(t), n)
    IN  Plan(Same(t, 1), [set_sp(t, t.r[SP] + n) EXCEPT
                             !.fl = IF n = 1 THEN (t.fl - (t.fl % H)) + v ELSE v])

PUSHA_helper(t, n) ==
    LET put[i \in 0..8] ==
            IF i = 0 THEN t
            ELSE Store(put[i - 1], "SS", Below(t, n * i), n, IF i = 5 THEN t.r[SP] ELSE t.r[i - 1])
    IN  Plan(Same(t, 8), set_sp(put[8], t.r[SP] - 8 * n))

\* DI, SI, BP, (SP is skipped), BX, DX, CX, AX
POPA_helper(t, n) ==
    LET slot(i) == Load(t, "SS", (t.r[SP] + n * (7 - i)) % t.mask, n)
        get[k \in 0..8] ==
            IF k = 0 THEN t ELSE IF k - 1 = SP THEN get[k - 1] ELSE sreg(get[k - 1], n, k - 1, slot(k - 1))
    IN  Plan(Same(t, 7), set_sp(get[8], t.r[SP] + 8 * n))

-----------------------------------------------------------------------------
(* Control transfer.                                                       *)

Jump(t, ip) == [t EXCEPT !.ip = ip % W]

JMP(t, d) == Plan(Same(t, 1), Jump(t, t.ip + d))
JMPABS(t, n, o) == Plan(OperandSteps(t, o, 0), Jump(t, Operand(t, o, n)))

\* LOOP, LOOPE, LOOPNE (want: no condition, ZF, not ZF) and JCXZ
LOOP(t, n, d, want, zf) ==
    LET u == sreg(t, n, CX, lreg(t, n, CX) - 1)
    IN  Plan(Same(t, 1), IF lreg(u, n, CX) # 0 /\ zf \in want THEN Jump(u, u.ip + d) ELSE u)
JCXZ(t, n, d) == Plan(Same(t, 1), IF lreg(t, n, CX) = 0 THEN Jump(t, t.ip + d) ELSE t)

CALL(t, n, d) ==
    LET p == PUSH(t, n, 1, t.ip) IN Plan(p.at, Jump(p.done, t.ip + d))
CALLABS(t, n, o) ==     \* the target is read before SP moves
    LET nip == Operand(t, o, n)
        p == PUSH(t, n, Len(OperandSteps(t, o, 0)), t.ip)
    IN  Plan(p.at, Jump(p.done, nip))

RET(t, n, i) ==
    Plan(Same(t, 1), Jump(set_sp(t, t.r[SP] + n + i), Load(t, "SS", Top(t), n)))

\* Real mode: set_seg cannot fail.
SetCS(t, sel) == [t EXCEPT !.cs = sel % H]

JMPFAR(t, ip, cs) == Plan(Same(t, 2), Jump(SetCS(t, cs), ip))
CALLFAR(t, n, ip, cs) ==
    LET u == Store(Store(set_sp(t, t.r[SP] - 2 * n), "SS", Below(t, n), n, t.cs),
                   "SS", Below(t, 2 * n), n, t.ip)
    IN  Plan(Same(t, 4), Jump(SetCS(u, cs), ip))
RETFAR(t, n, i) ==
    LET u == set_sp(t, t.r[SP] + 2 * n + i)
    IN  Plan(Same(t, 2), Jump(SetCS(u, Load(t, "SS", Below(t, -n), n)), Load(t, "SS", Top(t), n)))
IRET(t) ==              \* 16-bit only; the upper half of the flags is kept
    LET u == set_sp(t, t.r[SP] + 3)
        f == Load(t, "SS", Below(t, -2), 1)
    IN  Plan(Same(t, 3), [Jump(SetCS(u, Load(t, "SS", Below(t, -1), 1)), Load(t, "SS", Top(t), 1))
                             EXCEPT !.fl = (t.fl - (t.fl % H)) + f])

\* Level 0.
ENTER(t, n, alloc) ==
    LET u == Store(set_sp(t, t.r[SP] - n - alloc), "SS", Below(t, n), n, t.r[BP])
    IN  Plan(Same(t, 3), sreg(u, n, BP, Below(t, n)))

\* enter_helper: every push is at sp - n of the start, the machine changes
\* between the translations.
ENTER_level(t, n, level, alloc) ==
    LET first == Store(set_sp(t, t.r[SP] - n), "SS", Below(t, n), n, t.r[BP])
        temp == lreg(first, n, SP)
        lower[i \in 0..(level - 1)] ==      \* BP taken down before the translation
            IF i = 0 THEN first
            ELSE LET v == lower[i - 1]  k == IF t.mask = H THEN 1 ELSE 2
                     w == sreg(v, k, BP, lreg(v, k, BP) - n)
                 IN  Store(set_sp(w, t.r[SP] - n), "SS", Below(t, n), n, w.r[BP])
        before(i) == LET k == IF t.mask = H THEN 1 ELSE 2
                     IN  sreg(lower[i - 1], k, BP, lreg(lower[i - 1], k, BP) - n)
        last == lower[level - 1]
    IN  Plan(Same(t, 3) \o [i \in 1..(level - 1) |-> before(i)] \o <<last>>,
             sreg(Store(set_sp(last, t.r[SP] - n - alloc), "SS", Below(t, n), n, temp), n, BP, temp))

LEAVE(t, n) ==
    LET a == t.r[BP] % t.mask
        u == set_sp(t, t.r[BP] + n)
    IN  Plan(Same(t, 1), sreg(u, n, BP, Load(t, "SS", a, n)))

-----------------------------------------------------------------------------
(* Execution.  b is what the instruction does to the ghost stack: it takes *)
(* entries off, of which some are popped values, and puts entries on.      *)

Faults(p) ==
    /\ m' \in {p.at[i] : i \in DOMAIN p.at}
    /\ faulted' = faulted + 1
    /\ UNCHANGED <<steps, stk, pop>>

Complete(p, stk2, pop2) ==
    /\ m' = p.done /\ stk' = stk2 /\ pop' = pop2 /\ steps' = steps + 1
    /\ UNCHANGED faulted

Ready == steps < MaxSteps /\ faulted = 0

\* The cells from SP to the bottom of the stack.
Depth(es) == IF es = <<>> THEN 0 ELSE es[1].deep + es[1].gap
\* An entry `back' cells below SP; gap are the cells reserved under it.
Entry(kind, back, n, v) ==
    [kind |-> kind, at |-> Below(m, back), n |-> n, deep |-> Depth(stk) + back, gap |-> 0, v |-> v % Size(n)]
CanPop(kind, n) == stk # <<>> /\ stk[1].kind = kind /\ stk[1].n = n

\* Fails somewhere, or completes and pushes the entries es (top first).  The
\* guest does not overrun its stack.
Pushes(p, es) == Ready /\ Depth(es) <= m.mask /\ (Faults(p) \/ Complete(p, es \o stk, pop))
\* Fails, or completes, taking k entries off; got is what it popped of the top.
Pops(p, k, got) ==
    Ready /\ (Faults(p) \/ Complete(p, SubSeq(stk, k + 1, Len(stk)), <<stk[1].v, got>>))
\* Fails, or completes without the stack; a store through SS forgets the entries.
Moves(p) ==
    Ready /\ (Faults(p) \/ Complete(p, IF p.done.mem["SS"] = m.mem["SS"] /\ p.done.r[SP] = m.r[SP]
                                      THEN stk ELSE <<>>, pop))

DoMove(n, o) ==
    \/ Moves(MOV_GE(m, n, o, AX)) \/ Moves(MOV_EG(m, n, o, BX)) \/ Moves(MOV_EI(m, n, o, 5))
    \/ Moves(XCHG(m, n, o, BX)) \/ Moves(LEA(m, n, o, AX))

DoPush(n, o) ==
    \/ Pushes(PUSH(m, n, 0, m.r[AX]), <<Entry("data", n, n, m.r[AX])>>)
    \/ Pushes(PUSH_E(m, n, o), <<Entry("data", n, n, Operand(m, o, n))>>)
    \/ Pushes(PUSH(m, n, 0, m.fl), <<Entry("flags", n, n, m.fl)>>)
    \/ Pushes(PUSHSeg(m, n, m.cs), <<Entry("seg", n, n, m.cs)>>)

DoPop(n, o) ==
    \/ CanPop("data", n) /\ Pops(POPReg(m, n, BX), 1, POPReg(m, n, BX).done.r[BX] % Size(n))
    \/ CanPop("data", n) /\ o.mod # 3 /\ modsib(m, o).seg = "DS"
       /\ LET p == POP(m, n, o)  e == modsib(set_sp(m, m.r[SP] + n), o)
          IN  Pops(p, 1, Load(p.done, e.seg, e.addr, n))
    \/ CanPop("flags", n) /\ Pops(POPF(m, n), 1, POPF(m, n).done.fl % Size(n))

\* PUSHA and POPA as one entry: the value is that of DI, the last one pushed.
DoAll(n) ==
    \/ Pushes(PUSHA_helper(m, n), <<Entry("all", 8 * n, n, m.r[DI])>>)
    \/ CanPop("all", n) /\ Pops(POPA_helper(m, n), 1, POPA_helper(m, n).done.r[DI] % Size(n))

DoNear(n, o) ==
    \/ Pushes(CALL(m, n, 2), <<Entry("ip", n, n, m.ip)>>)
    \/ Pushes(CALLABS(m, n, o), <<Entry("ip", n, n, m.ip)>>)
    \/ CanPop("ip", n) /\ Pops(RET(m, n, 0), 1, RET(m, n, 0).done.ip % Size(n))
    \/ Moves(JMP(m, -1)) \/ Moves(JMPABS(m, n, o)) \/ Moves(JCXZ(m, n, 3))
    \/ \E want \in {BOOLEAN, {TRUE}, {FALSE}}, zf \in BOOLEAN : Moves(LOOP(m, n, 3, want, zf))

DoFar(n) ==
    \/ Moves(JMPFAR(m, 3, 2))
    \/ Pushes(CALLFAR(m, n, 3, 2), <<Entry("far", 2 * n, n, m.ip), Entry("cs", n, n, m.cs)>>)
    \/ CanPop("far", n) /\ Pops(RETFAR(m, n, 0), 2, RETFAR(m, n, 0).done.ip % Size(n))

\* Two frames in a row: PUSHF and CALLFAR leave what IRET takes.
DoIret ==
    /\ Len(stk) > 2 /\ CanPop("far", 1) /\ stk[3].kind = "flags" /\ stk[3].n = 1
    /\ Pops(IRET(m), 3, IRET(m).done.ip % H)

\* LEAVE pops up to the frame of the last ENTER.
FrameAt == CHOOSE i \in DOMAIN stk : stk[i].kind = "frame" /\ \A j \in 1..(i - 1) : stk[j].kind # "frame"
HasFrame(n) ==
    /\ \E i \in DOMAIN stk : stk[i].kind = "frame"
    /\ stk[FrameAt].n = n /\ stk[FrameAt].at = m.r[BP] % m.mask

DoFrame(n) ==
    \/ \E alloc \in {0, 1} : Pushes(ENTER(m, n, alloc), <<[Entry("frame", n, n, m.r[BP]) EXCEPT !.gap = alloc]>>)
    \/ /\ HasFrame(n) /\ Ready
       /\ LET p == LEAVE(m, n)
          IN  Faults(p) \/ Complete(p, SubSeq(stk, FrameAt + 1, Len(stk)),
                                   <<stk[FrameAt].v, p.done.r[BP] % Size(n)>>)

\* Nested procedures; nothing is claimed of the stack after it.
DoNested(n) ==
    /\ Ready
    /\ \E level \in {1, 2} : Complete(ENTER_level(m, n, level, 0), <<>>, pop)

StackInit ==
    /\ \E sp \in SpChoice, mask \in {H, W} :
          m = [r |-> [i \in Reg |-> IF i = SP THEN sp ELSE IF i = CX THEN 1 ELSE H + i],
               mem |-> [g \in {"SS", "DS"} |-> [a \in 0..(W - 1) |-> 0]],
               ip |-> H + 1, cs |-> 1, fl |-> H + 2, mask |-> mask]
    /\ faulted = 0 /\ steps = 0 /\ stk = <<>> /\ pop = <<0, 0>>

StackNext ==
    \E n \in {1, 2} :
        \/ \E o \in ModRM : DoMove(n, o) \/ DoPush(n, o) \/ DoPop(n, o) \/ DoNear(n, o)
        \/ DoAll(n) \/ DoFar(n) \/ DoFrame(n) \/ DoNested(n)
        \/ n = 1 /\ DoIret

StackSpec == StackInit /\ [][StackNext]_stkVars

-----------------------------------------------------------------------------
(* Properties.                                                             *)

\* Whatever mixture of 16- and 32-bit pushes, calls, frames and far calls is on
\* the stack, every entry still holds what was pushed, and a matching pop
\* returned it.
Lifo ==
    /\ pop[1] = pop[2]
    /\ \A i \in DOMAIN stk :
          LET e == stk[i] IN Load(m, "SS", e.at, IF e.kind = "seg" THEN 1 ELSE e.n) = IF e.kind = "seg" THEN e.v % H ELSE e.v

\* The entry on top is at SS:SP, and the guest reaches it with [ESP].
TopReachable ==
    LET viaEsp == [adsz16 |-> FALSE, mod |-> 0, rm |-> 4, base |-> 4, index |-> 4, scale |-> 1, disp |-> 0]
    IN  stk # <<>> /\ stk[1].kind \notin {"frame", "seg"} /\ m.mask = W
            => /\ stk[1].at = Top(m)
               /\ Operand(m, viaEsp, stk[1].n) = stk[1].v

\* The stack is a stack, however its accesses are mixed (PUSH .. LEAVE).
StackSound == Lifo /\ TopReachable

\* Precise faults: an instruction that faults, wherever in its fetches and
\* translations, leaves registers, memory, flags and IP as they were, so that
\* it can be started again (nested ENTER is not: see ENTER_level).
Precise == faulted' # faulted => m' = m

\* With a 16-bit stack segment the upper half of ESP is never touched.
UpperKept == m.mask = H /\ m'.r[SP] # m.r[SP] => m'.r[SP] \div H = m.r[SP] \div H

\* An instruction that faults leaves the machine as it was; a 16-bit stack
\* leaves the upper half of ESP alone (POP_helper, set_sp).
StackPrecise == [][Precise /\ UpperKept]_stkVars
=============================================================================
