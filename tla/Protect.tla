------------------------------ MODULE Protect ------------------------------
(***************************************************************************)
(* Protected mode and the step loop of the i386 interpreter (i386.c):      *)
(* segment loads, far transfers, call, interrupt and trap gates, returns,  *)
(* virtual-8086 mode, task switches, SYSENTER, the flags a privilege level *)
(* may change, the interrupt shadow of STI and MOV SS, and HLT.            *)
(*                                                                         *)
(* Values on a stack are plain numbers, as in memory: a selector is        *)
(* 4 * index + RPL, EFLAGS a sum of the bits below, SP a depth (pushing    *)
(* goes up here).  Widths are in CpuStack, page faults in Mmu.  DS stands  *)
(* for DS, ES, FS and GS, which the code treats alike.  One descriptor     *)
(* table; limits are not checked by the code beyond the table's own.       *)
(***************************************************************************)
EXTENDS Integers, Sequences, FiniteSets

CONSTANTS
    Desc,       \* sequence: the GDT; [kind, dpl, p, conf, to, wc]
    Idt,        \* [vector -> [gt, dpl, p, to]]
    TssSp,      \* stack selectors and depths in the TSS, by level
    TaskInit,   \* [TSS index -> context] before it first runs
    SysenterCs, \* MSR 0x174, a selector
    Forge,      \* frames <<ip, cs, flags, sp, ss>> the guest may leave on its stack
    DataSels,   \* selectors the guest loads into DS and SS
    CallSels,   \* selectors it calls, and
    JumpSels,   \* jumps to
    Depth,      \* depth of a stack
    Batch,      \* stepcount of cpui386_step
    MaxSteps    \* instructions executed

Sel(i, rpl) == 4 * i + rpl
Index(sel) == sel \div 4
Rpl(sel) == sel % 4
Null(sel) == Index(sel) = 0

\* EFLAGS: IF = 1, IOPL = 2 (0 or 3), VM = 4, NT = 8
Flags == 0..15
IF_(f) == f % 2 = 1
IOPL(f) == IF (f \div 2) % 2 = 1 THEN 3 ELSE 0
VM(f) == (f \div 4) % 2 = 1
NT(f) == (f \div 8) % 2 = 1
Bit(b, n) == IF b THEN n ELSE 0
EFlags(if, iopl, vm, nt) == Bit(if, 1) + Bit(iopl, 2) + Bit(vm, 4) + Bit(nt, 8)
ClearIf(f) == EFlags(FALSE, IOPL(f) = 3, VM(f), NT(f))
SetIf(f) == EFlags(TRUE, IOPL(f) = 3, VM(f), NT(f))
ClearVm(f) == EFlags(IF_(f), IOPL(f) = 3, FALSE, NT(f))
SetNt(f) == EFlags(IF_(f), IOPL(f) = 3, VM(f), TRUE)
ClearNt(f) == EFlags(IF_(f), IOPL(f) = 3, VM(f), FALSE)

VARIABLES
    c,          \* [cpl, cs, ss, ds, sp, ip, fl, tr]: the processor
    mem,        \* [stack -> [1..Depth -> value]]; stack 0 is that of virtual-8086 mode
    task,       \* [TSS index -> saved context and back link]
    busy,       \* TSS descriptors marked busy
    intr, halt, \* cpu->intr, cpu->halt
    left,       \* what is left of stepcount; 0 between steps
    status,     \* "run", "fault" (an instruction raised an exception) or
                \* "abort" (cpu_abort)
    fault,      \* [exc, err, ip]: cpu->excno, excerr and where it was raised
    steps,
    shadow,     \* ghost: STI or MOV SS was the last instruction
    open,       \* ghost: contexts whose frame is on a stack, innermost first
    ret         \* ghost: after a return through a frame that was given, [want, got, exc]:
                \* the context expected, the one reached, the exception raised

pvars == <<c, mem, task, busy, intr, halt, left, status, fault, steps, shadow, open, ret>>

-----------------------------------------------------------------------------
(* Outcomes.  x carries the state through a handler: [c, mem, task, busy,  *)
(* exc, err, abort]; exc = "none" means success.                           *)

X == [c |-> c, mem |-> mem, task |-> task, busy |-> busy, exc |-> "none", err |-> 0, abort |-> FALSE]
Ok(x) == x.exc = "none" /\ ~x.abort
Throw(x, e, sel) == [x EXCEPT !.exc = e, !.err = 4 * Index(sel)]
Abort(x) == [x EXCEPT !.abort = TRUE]
Try1(x) == IF x.exc = "none" THEN x ELSE Abort(x)       \* TRY1

InTable(sel) == sel \in Nat /\ Index(sel) \in DOMAIN Desc
D(sel) == Desc[Index(sel)]
IsSeg(d) == d.kind \in {"code", "data"}     \* the S bit

StackOf(x) == IF VM(x.c.fl) THEN 0 ELSE Index(x.c.ss)
\* The slot at depth d; what lies under a stack's bottom is zero.
Slot(x, d) == IF d \in 1..Depth THEN x.mem[StackOf(x)][d] ELSE 0
Push(x, vs) ==
    [x EXCEPT !.mem[StackOf(x)] = [d \in 1..Depth |->
                  IF d - x.c.sp \in 1..Len(vs) THEN vs[d - x.c.sp] ELSE @[d]],
              !.c.sp = @ + Len(vs)]

\* The level goes with CS.
LevelOf(x, seg, sel) == IF seg # "cs" THEN x.c.cpl ELSE IF VM(x.c.fl) THEN 3 ELSE Rpl(sel)
WithSeg(x, seg, sel, cpl) == [x EXCEPT !.c[seg] = sel, !.c.cpl = cpl]

\* Outside virtual-8086 mode the descriptor must be in the table and present,
\* and DS.. take no system segment; rights are not checked.
LoadError(x, seg, sel) ==
    IF VM(x.c.fl) \/ Null(sel) THEN "none"
    ELSE IF ~InTable(sel) \/ (seg = "ds" /\ ~IsSeg(D(sel))) THEN "GP"
    ELSE IF D(sel).p THEN "none"
    ELSE IF seg = "ss" THEN "SS" ELSE "NP"

set_seg(x, seg, sel) ==
    IF LoadError(x, seg, sel) = "none" THEN WithSeg(x, seg, sel, LevelOf(x, seg, sel))
    ELSE Throw(x, LoadError(x, seg, sel), sel)

Goto(x, ip) == [x EXCEPT !.c.ip = ip]
Next1(ip) == (ip + 1) % 3       \* next_ip, the next instruction's address

-----------------------------------------------------------------------------
(* Tasks.                                                                  *)

\* The context saved in the current TSS.
Saved(x, how) ==
    [ip |-> x.c.ip, fl |-> IF how = "iret" THEN ClearNt(x.c.fl) ELSE x.c.fl,
     sp |-> x.c.sp, cs |-> x.c.cs, ss |-> x.c.ss, ds |-> x.c.ds, back |-> x.task[Index(x.c.tr)].back]
BusyAfter(x, new, how) ==
    (IF how \in {"jmp", "iret"} THEN x.busy \ {Index(x.c.tr)} ELSE x.busy)
        \cup (IF how \in {"jmp", "call"} THEN {new} ELSE {})

\* A segment that cannot be loaded aborts.
LoadContext(x, t) ==
    Goto(Try1(set_seg(Try1(set_seg(Try1(set_seg(x, "cs", t.cs)), "ss", t.ss)), "ds", t.ds)), t.ip)

\* Saves the context in the current TSS, loads the other's; the flags come
\* after the segments.  TR is loaded outside virtual-8086 mode, where set_seg
\* reads the descriptor: in that mode far calls are not pmcall's, IRET with NT
\* is refused (pmret) and no vector is a task gate (TablesSane).
task_switch(x, tss, how) ==
    LET new == Index(tss)
        tasks == [x.task EXCEPT ![Index(x.c.tr)] = Saved(x, how)]
        t == tasks[new]
        l == LoadContext([x EXCEPT !.task = tasks, !.busy = BusyAfter(x, new, how), !.c.tr = tss, !.c.sp = t.sp], t)
        linked == [tasks EXCEPT ![new] = [t EXCEPT !.back = x.c.tr]]
    IN  IF new \notin DOMAIN x.task THEN Abort(x)
        ELSE IF how = "call" THEN [l EXCEPT !.task = linked, !.c.fl = SetNt(t.fl)]
        ELSE [l EXCEPT !.c.fl = t.fl]

-----------------------------------------------------------------------------
(* Interrupts and exceptions.                                              *)

\* __call_isr_check_cs: 0 exception, 1 same level, 2 inner, 3 from virtual-8086
check_cs(x, sel) ==
    IF Null(sel) \/ ~InTable(sel) THEN [r |-> 0, exc |-> "GP", err |-> 0]
    ELSE LET d == D(sel)
             inner == ~d.conf /\ d.dpl < x.c.cpl
         IN  IF d.kind # "code" \/ d.dpl > x.c.cpl THEN [r |-> 0, exc |-> "GP", err |-> sel]
             ELSE IF ~d.p THEN [r |-> 0, exc |-> "NP", err |-> sel]
             ELSE IF VM(x.c.fl)
             THEN IF inner /\ d.dpl = 0 THEN [r |-> 3, exc |-> "none", err |-> 0]
                  ELSE [r |-> 0, exc |-> "GP", err |-> sel]
             ELSE [r |-> IF inner THEN 2 ELSE 1, exc |-> "none", err |-> 0]

\* Entering a handler: NT, VM and, through an interrupt gate, IF are cleared.
EnterFlags(f, gt) == LET g == ClearVm(ClearNt(f)) IN IF gt = "int" THEN ClearIf(g) ELSE g

\* The frame pushed, top last.
\* Mutant: the flags are saved after the gate has changed them.
Frame_LateFlags(x, err) == <<ClearVm(x.c.fl), x.c.cs, x.c.ip>> \o (IF err THEN <<x.err>> ELSE <<>>)
Frame(x, err) == <<x.c.fl, x.c.cs, x.c.ip>> \o (IF err THEN <<x.err>> ELSE <<>>)

\* The stack of an inner level comes from the TSS.
ToInner(x, level) == set_seg([x EXCEPT !.c.sp = TssSp[level].sp, !.c.fl = ClearVm(@)], "ss", TssSp[level].ss)

\* ESP has already been replaced when SS cannot be loaded.
InterLevel(x, level, err) ==
    LET sw == ToInner(x, level)
    IN  IF Ok(sw) THEN Push(sw, <<x.c.ss, x.c.sp>> \o Frame(x, err)) ELSE sw

\* Leaving virtual-8086 mode pushes the data segments and clears them; a stack
\* that cannot be loaded changes nothing.
FromVm(x, err) ==
    LET sw == ToInner(x, 0)
    IN  IF Ok(sw) THEN Try1(set_seg(Push(sw, <<x.c.ds, x.c.ss, x.c.sp>> \o Frame(x, err)), "ds", 0))
        ELSE [sw EXCEPT !.c = x.c]

\* k is what check_cs has found.
GateFrame(x, k, level, err) ==
    CASE k.r = 0 -> Throw(x, k.exc, k.err)
      [] k.r = 1 -> Push(x, Frame(x, err))
      [] k.r = 2 -> InterLevel(x, level, err)
      [] k.r = 3 -> FromVm(x, err)

EnterGate(x, g, err) ==
    LET k == check_cs(x, g.to)
        level == IF k.r = 1 THEN x.c.cpl ELSE D(g.to).dpl
        y == GateFrame(x, k, level, err)
    IN  IF ~Ok(y) THEN y
        ELSE [Goto(Try1(set_seg(y, "cs", Sel(Index(g.to), level))), 0)
                 EXCEPT !.c.fl = EnterFlags(x.c.fl, g.gt)]

call_isr(x, no, err, ext) ==
    LET g == Idt[no]
    IN  IF no \notin DOMAIN Idt THEN Throw(x, "GP", 0)
        ELSE IF g.gt \notin {"int", "trap", "task"} THEN Throw(x, "GP", 0)
        ELSE IF ~ext /\ g.dpl < x.c.cpl THEN Throw(x, "GP", 0)
        ELSE IF ~g.p THEN Throw(x, "NP", 0)
        ELSE IF g.gt = "task" THEN task_switch(x, g.to, "call")
        ELSE EnterGate(x, g, err)

-----------------------------------------------------------------------------
(* Far calls and jumps.  next is the return address.                       *)

ToSame(x, isjmp, next) == IF isjmp THEN x ELSE Push(x, <<x.c.cs, next>>)

\* A call gate to an inner level copies wc parameters to the new stack.
GateInner(x, level, wc, isjmp, next) ==
    LET params == [i \in 1..wc |-> Slot(x, x.c.sp - wc + i)]
        sw == ToInner(x, level)
    IN  IF isjmp \/ ~Ok(sw) THEN sw
        ELSE Push(sw, <<x.c.ss, x.c.sp>> \o params \o <<x.c.cs, next>>)

ToCode(x, sel, isjmp, next) ==
    LET d == D(sel)
    IN  IF IF d.conf THEN d.dpl > x.c.cpl ELSE Rpl(sel) > x.c.cpl \/ d.dpl # x.c.cpl
        THEN Throw(x, "GP", sel)
        ELSE Goto(Try1(set_seg(ToSame(x, isjmp, next), "cs", Sel(Index(sel), x.c.cpl))), 1)

ThroughGate(x, d, isjmp, next) ==
    LET g == D(d.to)
        inner == ~g.conf /\ g.dpl < x.c.cpl
        y == IF inner THEN GateInner(x, g.dpl, d.wc, isjmp, next) ELSE ToSame(x, isjmp, next)
    IN  IF Null(d.to) THEN Throw(x, "GP", 0)
        ELSE IF ~InTable(d.to) \/ g.kind # "code" THEN Throw(x, "GP", d.to)
        ELSE IF ~g.p THEN Throw(x, "NP", d.to)
        ELSE IF g.dpl > x.c.cpl THEN Throw(x, "GP", d.to)
        ELSE IF ~Ok(y) THEN y
        ELSE Goto(Try1(set_seg(y, "cs", Sel(Index(d.to), IF inner THEN g.dpl ELSE x.c.cpl))), 0)

pmcall(x, sel, isjmp, next) ==
    LET d == D(sel)
        how == IF isjmp THEN "jmp" ELSE "call"
    IN  IF Null(sel) THEN Throw(x, "GP", 0)
        ELSE IF ~InTable(sel) THEN Throw(x, "GP", sel)
        ELSE IF ~d.p THEN Throw(x, "NP", sel)
        ELSE IF d.kind = "data" THEN Throw(x, "GP", sel)
        ELSE IF d.kind = "code" THEN ToCode(x, sel, isjmp, next)
        ELSE IF d.dpl < x.c.cpl \/ d.dpl < Rpl(sel) THEN Throw(x, "GP", sel)
        ELSE IF d.kind = "tss" /\ Index(sel) \notin x.busy THEN task_switch(Goto(x, next), sel, how)
        ELSE IF d.kind = "taskgate" THEN task_switch(Goto(x, next), d.to, how)
        ELSE IF d.kind # "callgate" THEN Abort(x)
        ELSE ThroughGate(x, d, isjmp, next)

-----------------------------------------------------------------------------
(* Returns.                                                                *)

\* Mutant: the returning level's data segments stay.
clear_segs_Keep(x) == x

\* DS keeps no segment above the new level, except conforming code.
clear_segs(x) ==
    IF InTable(x.c.ds) /\ ~(D(x.c.ds).kind = "code" /\ D(x.c.ds).conf) /\ D(x.c.ds).dpl < x.c.cpl
    THEN [x EXCEPT !.c.ds = 0] ELSE x

check_cs_same(x, sel) ==
    IF Null(sel) \/ ~InTable(sel) THEN "GP"
    ELSE IF D(sel).kind # "code" THEN "GP"
    ELSE IF IF D(sel).conf THEN D(sel).dpl > x.c.cpl ELSE D(sel).dpl # x.c.cpl THEN "GP"
    ELSE IF ~D(sel).p THEN "NP" ELSE "none"

\* Mutant: any code segment is returned to.
check_cs_outer_Any(x, sel) ==
    IF Null(sel) \/ ~InTable(sel) THEN "GP" ELSE IF D(sel).kind # "code" THEN "GP"
    ELSE IF ~D(sel).p THEN "NP" ELSE "none"

check_cs_outer(x, sel) ==
    IF Null(sel) \/ ~InTable(sel) THEN "GP"
    ELSE IF D(sel).kind # "code" THEN "GP"
    ELSE IF IF D(sel).conf THEN D(sel).dpl <= x.c.cpl ELSE D(sel).dpl # Rpl(sel) THEN "GP"
    ELSE IF ~D(sel).p THEN "NP" ELSE "none"

\* Mutant: EFLAGS is taken from the stack whatever the level.
PopFlags_All(x, f) == f

\* IOPL changes at level 0 only, IF at IOPL or better.
PopFlags(x, f) ==
    EFlags(IF IOPL(x.c.fl) < x.c.cpl THEN IF_(x.c.fl) ELSE IF_(f),
           IF x.c.cpl > 0 THEN IOPL(x.c.fl) = 3 ELSE IOPL(f) = 3, VM(f), NT(f))

AtDepth(v) == IF v > Depth THEN Depth ELSE IF v < 0 THEN 0 ELSE v

\* Mutant: a return to an inner level is let through.
check_cs_ret_Inner(x, sel) ==
    IF Rpl(sel) = x.c.cpl THEN check_cs_same(x, sel) ELSE check_cs_outer(x, sel)

check_cs_ret(x, sel) ==
    IF Rpl(sel) < x.c.cpl THEN "GP"
    ELSE IF Rpl(sel) = x.c.cpl THEN check_cs_same(x, sel) ELSE check_cs_outer(x, sel)

\* IRET with NT set goes back to the task linked to.
TaskReturn(x) ==
    LET back == x.task[Index(x.c.tr)].back
    IN  IF back = 0 THEN Throw(x, "TS", 0) ELSE task_switch(Goto(x, Next1(x.c.ip)), back, "iret")

ToVm(y, cs, ss, ds) == set_seg(set_seg(set_seg(y, "cs", cs), "ss", ss), "ds", ds)
ToOuter(y, cs, ss, sp) == clear_segs([Try1(set_seg(Try1(set_seg(y, "cs", cs)), "ss", ss)) EXCEPT !.c.sp = sp])

\* The frame, top first: IP, CS, (EFLAGS), off parameters, SP, SS, and for a
\* return to virtual-8086 mode the data segment.
pmret(x, off, isiret) ==
    LET d == x.c.sp
        cs == Slot(x, d - 1)
        fl == IF isiret THEN PopFlags(x, Slot(x, d - 2)) ELSE x.c.fl
        below == IF isiret THEN d - 3 ELSE d - 2 - off      \* depth under the frame
        ss == Slot(x, below - 1)
        sp == AtDepth(Slot(x, below) - (IF isiret THEN 0 ELSE off))
        y == Goto([x EXCEPT !.c.fl = fl], Slot(x, d))
    IN  IF isiret /\ VM(x.c.fl) THEN Throw(x, "GP", 0)
        ELSE IF isiret /\ NT(x.c.fl) THEN TaskReturn(x)
        ELSE IF isiret /\ VM(fl)
        THEN IF x.c.cpl # 0 THEN Abort(x) ELSE [ToVm(y, cs, ss, Slot(x, below - 2)) EXCEPT !.c.sp = sp]
        ELSE IF check_cs_ret(x, cs) # "none" THEN Throw(x, check_cs_ret(x, cs), cs)
        ELSE IF Rpl(cs) = x.c.cpl THEN [Try1(set_seg(y, "cs", cs)) EXCEPT !.c.sp = AtDepth(below)]
        ELSE ToOuter(y, cs, ss, sp)

\* IRET of virtual-8086 mode with IOPL 3: as in real mode, IOPL is kept.
vmiret(x) ==
    LET d == x.c.sp  f == Slot(x, d - 2)
    IN  [set_seg(Goto(x, Slot(x, d)), "cs", Slot(x, d - 1))
            EXCEPT !.c.fl = EFlags(IF_(f), IOPL(x.c.fl) = 3, TRUE, NT(f)), !.c.sp = AtDepth(d - 3)]

-----------------------------------------------------------------------------
(* Instructions.  An instruction ends with r, the state it reaches, or is  *)
(* delivered as an exception.  more is what it makes of stepcount.         *)

Ctx(k) == [cs |-> k.cs, ip |-> k.ip, ss |-> k.ss, sp |-> k.sp, fl |-> k.fl, cpl |-> k.cpl]

Executing == status = "run" /\ left > 0 /\ steps < MaxSteps /\ ~halt
Room == c.sp + 7 <= Depth       \* a frame fits

\* A gate entered pushes a context to come back to; it is told by the frame.
FrameAt(k) == <<IF VM(k.fl) THEN 0 ELSE Index(k.ss), k.sp>>
Opened(x, from, err, kind) ==
    IF x.c.tr # from.tr THEN <<>>
    ELSE <<[at |-> FrameAt(x.c), err |-> err, kind |-> kind, ctx |-> Ctx(from)]>> \o open

\* The next state is r, with more of stepcount left.  An exception ends the
\* batch: it is raised at ip and delivered next, whatever r has changed.
NoFault == [exc |-> "none", err |-> 0, ip |-> 0]
EndAt(r, more, ip) ==
    /\ c' = r.c /\ mem' = r.mem /\ task' = r.task /\ busy' = r.busy
    /\ status' = IF r.abort THEN "abort" ELSE IF r.exc = "none" THEN "run" ELSE "fault"
    /\ fault' = IF Ok(r) THEN NoFault ELSE [exc |-> r.exc, err |-> r.err, ip |-> ip]
    /\ left' = IF r.exc = "none" THEN more ELSE 0
Finish(r, more, newOpen) ==
    /\ EndAt(r, more, c.ip) /\ steps' = steps + 1
    /\ open' = IF r.exc = "none" THEN newOpen ELSE open
Plain(r, more) == Finish(r, more, open)

\* MOV, POP, LDS.. of a data segment register
MovDs(sel) ==
    /\ Executing /\ Room
    /\ Plain(set_seg(Goto(X, Next1(c.ip)), "ds", sel), left - 1)
    /\ shadow' = FALSE /\ UNCHANGED <<intr, halt>> /\ ret' = <<>>

\* Mutant: no shadow after a load of SS.
MovSs_NoShadow(sel) ==
    /\ Executing /\ Room /\ InTable(sel) /\ D(sel).kind = "data" /\ D(sel).dpl = c.cpl /\ ~VM(c.fl)
    /\ Plain(set_seg(Goto(X, Next1(c.ip)), "ss", sel), left - 1)
    /\ shadow' = (left' > 0 \/ status' = "run") /\ UNCHANGED <<intr, halt>> /\ ret' = <<>>

\* A stack switch of the guest within its level; stepcount++.
MovSs(sel) ==
    /\ Executing /\ Room /\ InTable(sel) /\ D(sel).kind = "data" /\ D(sel).dpl = c.cpl /\ ~VM(c.fl)
    /\ LET r == set_seg(Goto(X, Next1(c.ip)), "ss", sel)
       IN  /\ Plain(r, left)
           /\ shadow' = (r.exc = "none")
    /\ UNCHANGED <<intr, halt>> /\ ret' = <<>>

CallFar(sel, isjmp) ==
    /\ Executing /\ Room /\ ~VM(c.fl) /\ c.sp >= D(sel).wc     \* the parameters are there
    /\ LET r == pmcall(X, sel, isjmp, Next1(c.ip))
           params == IF r.c.cpl < c.cpl THEN D(sel).wc ELSE 0     \* the callee pops them
           back == [c EXCEPT !.ip = Next1(c.ip), !.sp = @ - params]
       IN  Finish(r, left - 1,
                  IF D(sel).kind \in {"tss", "taskgate"} THEN <<>>
                  ELSE IF isjmp THEN open ELSE Opened(r, back, FALSE, <<"far", params>>))
    /\ shadow' = FALSE /\ UNCHANGED <<intr, halt>> /\ ret' = <<>>

\* INT n, which a virtual-8086 task may only with IOPL 3; INT3 and INTO raise
\* their exception at the next instruction.
SoftInt(no) ==
    /\ Executing /\ Room
    /\ LET r == IF VM(c.fl) /\ IOPL(c.fl) < 3 THEN Throw(X, "GP", 0)
                ELSE call_isr(Goto(X, Next1(c.ip)), no, FALSE, FALSE)
       IN  Finish(r, left - 1, Opened(r, [c EXCEPT !.ip = Next1(c.ip)], FALSE, <<"int", 0>>))
    /\ shadow' = FALSE /\ UNCHANGED <<intr, halt>> /\ ret' = <<>>
Int3 ==
    /\ Executing /\ Room
    /\ EndAt(Throw(X, "BP", 0), 0, Next1(c.ip)) /\ steps' = steps + 1
    /\ shadow' = FALSE /\ UNCHANGED <<intr, halt, open>> /\ ret' = <<>>

\* A frame the guest was given it leaves by the matching instruction; others
\* it may forge.
OnTop == open # <<>> /\ open[1].at = FrameAt(c)
Returning(kind) == OnTop /\ ~open[1].err /\ open[1].kind = kind
AfterReturn(r, more, kind) ==
    /\ Finish(r, more, IF Returning(kind) /\ r.c.tr = c.tr THEN Tail(open) ELSE <<>>)
    /\ ret' = IF ~Returning(kind) THEN <<>>
              ELSE [want |-> open[1].ctx, exc |-> IF r.abort THEN "abort" ELSE r.exc,
                    got |-> IF kind[1] = "int" THEN Ctx(r.c) ELSE [Ctx(r.c) EXCEPT !.fl = open[1].ctx.fl]]

\* The handler takes the error code off before it returns.
DropError ==
    /\ Executing /\ OnTop /\ open[1].err
    /\ c' = [c EXCEPT !.sp = @ - 1]
    /\ open' = <<[open[1] EXCEPT !.err = FALSE, !.at = <<@[1], c.sp - 1>>]>> \o Tail(open)
    /\ left' = left - 1 /\ steps' = steps + 1 /\ shadow' = FALSE
    /\ UNCHANGED <<mem, task, busy, intr, halt, status, fault>> /\ ret' = <<>>

Iret ==
    /\ Executing /\ Room
    /\ OnTop => Returning(<<"int", 0>>)
    /\ LET r == IF VM(c.fl) /\ IOPL(c.fl) = 3 THEN vmiret(X) ELSE pmret(X, 0, TRUE)
           more == IF Ok(r) /\ intr /\ IF_(r.c.fl) THEN 0 ELSE left - 1
       IN  AfterReturn(r, more, <<"int", 0>>)
    /\ shadow' = FALSE /\ UNCHANGED <<intr, halt>>

RetFar(off) ==
    /\ Executing /\ Room /\ ~VM(c.fl)
    /\ OnTop => Returning(<<"far", off>>)
    /\ LET r == pmret(X, off, FALSE)
       IN  AfterReturn(r, left - 1, <<"far", off>>)
    /\ shadow' = FALSE /\ UNCHANGED <<intr, halt>>

\* The guest writes a frame of its own below the top; what was open is forgotten.
\* (Not as the last instruction of a behaviour: nothing would return through it.)
ForgeFrame(f) ==
    /\ Executing /\ c.sp + 5 <= Depth /\ steps + 1 < MaxSteps
    /\ mem' = Push(X, <<f[5], f[4], f[3], f[2], f[1]>>).mem /\ c' = [c EXCEPT !.sp = @ + 5]
    /\ left' = left - 1 /\ steps' = steps + 1 /\ open' = <<>> /\ shadow' = FALSE
    /\ UNCHANGED <<task, busy, intr, halt, status, fault>> /\ ret' = <<>>

Sysenter ==
    /\ Executing /\ Room
    /\ LET y == [X EXCEPT !.c.fl = ClearIf(ClearVm(@)), !.c.cs = Sel(Index(SysenterCs), 0),
                          !.c.ss = Sel(Index(SysenterCs) + 1, 0), !.c.cpl = 0, !.c.sp = 0, !.c.ip = 0]
       IN  Finish(IF Null(SysenterCs) THEN Throw(X, "GP", 0) ELSE y, left - 1, <<>>)
    /\ shadow' = FALSE /\ UNCHANGED <<intr, halt>> /\ ret' = <<>>

Sysexit ==
    /\ Executing /\ Room /\ ~VM(c.fl)
    /\ LET y == [X EXCEPT !.c.cs = Sel(Index(SysenterCs) + 2, 3), !.c.ss = Sel(Index(SysenterCs) + 3, 3),
                          !.c.cpl = 3, !.c.sp = 0, !.c.ip = 1]
       IN  Finish(IF Null(SysenterCs) \/ c.cpl > 0 THEN Throw(X, "GP", 0) ELSE y, left - 1, <<>>)
    /\ shadow' = FALSE /\ UNCHANGED <<intr, halt>> /\ ret' = <<>>

Popf(f) ==
    /\ Executing /\ Room
    /\ LET vmGp == VM(c.fl) /\ IOPL(c.fl) < 3
           new == LET g == PopFlags(X, f) IN EFlags(IF_(g), IOPL(g) = 3, VM(c.fl), NT(g))
           r == IF vmGp THEN Throw(X, "GP", 0) ELSE Goto([X EXCEPT !.c.fl = new], Next1(c.ip))
       IN  Plain(r, IF intr /\ IF_(r.c.fl) THEN 0 ELSE left - 1)
    /\ shadow' = FALSE /\ UNCHANGED <<intr, halt>> /\ ret' = <<>>

Cli ==
    /\ Executing /\ Room
    /\ Plain(IF IOPL(c.fl) < c.cpl THEN Throw(X, "GP", 0)
             ELSE Goto([X EXCEPT !.c.fl = ClearIf(@)], Next1(c.ip)), left - 1)
    /\ shadow' = FALSE /\ UNCHANGED <<intr, halt>> /\ ret' = <<>>

\* stepcount is at least 2, so that one more instruction runs, and exactly 2
\* when an interrupt is pending.
Sti ==
    /\ Executing /\ Room
    /\ LET r == IF IOPL(c.fl) < c.cpl THEN Throw(X, "GP", 0) ELSE Goto([X EXCEPT !.c.fl = SetIf(@)], Next1(c.ip))
       IN  /\ Plain(r, (IF intr \/ left < 2 THEN 2 ELSE left) - 1)
           /\ shadow' = (r.exc = "none")
    /\ UNCHANGED <<intr, halt>> /\ ret' = <<>>

Hlt ==
    /\ Executing /\ Room
    /\ LET r == IF c.cpl # 0 THEN Throw(X, "GP", 0) ELSE Goto(X, Next1(c.ip))
       IN  Plain(r, 0) /\ halt' = (r.exc = "none")
    /\ shadow' = FALSE /\ UNCHANGED <<intr>> /\ ret' = <<>>

-----------------------------------------------------------------------------
(* The step loop.                                                          *)

RaiseIrq ==
    /\ status = "run" /\ ~intr /\ steps + 1 < MaxSteps /\ intr' = TRUE
    /\ UNCHANGED <<c, mem, task, busy, halt, left, status, fault, steps, shadow, open>> /\ ret' = <<>>

\* The end of cpui386_step: the exception goes to its handler, with the address
\* of the instruction that raised it; failing that, the emulator aborts.
WithCode == {"DF", "TS", "NP", "SS", "GP", "PF"}
Deliver ==
    /\ status = "fault"
    /\ LET at == [c EXCEPT !.ip = fault.ip]
           err == fault.exc \in WithCode
           h == Try1(call_isr([X EXCEPT !.c = at, !.err = fault.err], fault.exc, err, TRUE))
       IN  EndAt(h, 0, 0) /\ open' = Opened(h, at, err, <<"int", 0>>)
    /\ UNCHANGED <<intr, halt, steps, shadow>> /\ ret' = <<>>

\* cpui386_step takes an interrupt only when it starts, and goes on executing.
TakeIrq ==
    /\ status = "run" /\ left = 0 /\ intr /\ IF_(c.fl) /\ Room
    /\ intr' = FALSE /\ halt' = FALSE
    /\ LET h == Try1(call_isr(X, "IRQ", FALSE, TRUE))
       IN  EndAt(h, Batch, 0) /\ open' = Opened(h, c, FALSE, <<"int", 0>>)
    /\ shadow' = FALSE /\ UNCHANGED <<steps>> /\ ret' = <<>>

StepBegin ==
    /\ status = "run" /\ left = 0 /\ steps < MaxSteps /\ ~halt /\ ~(intr /\ IF_(c.fl))
    /\ left' = Batch
    /\ UNCHANGED <<c, mem, task, busy, intr, halt, status, fault, steps, shadow, open>> /\ ret' = <<>>

\* Kernel, user and virtual-8086 code, with and without I/O privilege.
Context(cpl, cs, ss, sp, ip, fl) ==
    [cpl |-> cpl, cs |-> cs, ss |-> ss, ds |-> ss, sp |-> sp, ip |-> ip, fl |-> fl, tr |-> Sel(8, 0)]
Started == {Context(0, Sel(1, 0), Sel(2, 0), 0, 0, 1), Context(3, Sel(3, 3), Sel(4, 3), 2, 2, 1),
            Context(3, 50, 51, 3, 2, 5), Context(3, 50, 51, 3, 2, 7)}

\* sel is present code that runs at level cpl.
CodeAt(sel, cpl) ==
    /\ cpl = Rpl(sel) /\ InTable(sel) /\ D(sel).kind = "code" /\ D(sel).p
    /\ D(sel).conf \/ D(sel).dpl = cpl

\* Tables of a kernel that names its own code: SYSENTER, which looks at no
\* descriptor, has its four segments, the tasks start outside virtual-8086 mode,
\* and no vector is a task gate, which would switch away from that mode (see
\* task_switch: the level is loaded before the flags).
TaskFields == {"ip", "fl", "sp", "cs", "ss", "ds", "back"}
ASSUME TablesSane ==
    /\ DOMAIN Desc \subseteq Nat \ {0} /\ \A i \in DOMAIN Desc : Desc[i].dpl \in 0..3
    /\ \A v \in DOMAIN Idt : Idt[v].gt # "task"
    /\ \A t \in DOMAIN TaskInit :
           /\ TaskInit[t] = [f \in TaskFields |-> TaskInit[t][f]]
           /\ TaskInit[t].fl \in Flags /\ ~VM(TaskInit[t].fl)
           /\ CodeAt(TaskInit[t].cs, Rpl(TaskInit[t].cs))
    /\ SysenterCs \in Nat
    /\ \/ Null(SysenterCs)
       \/ CodeAt(Sel(Index(SysenterCs), 0), 0) /\ CodeAt(Sel(Index(SysenterCs) + 2, 3), 3)
    /\ CodeAt(Sel(1, 0), 0) /\ CodeAt(Sel(3, 3), 3)
    /\ Batch \in Nat \ {0}

PInit ==
    /\ c \in Started
    /\ mem = [s \in {0, 2, 4, 10} |-> [d \in 1..Depth |-> 0]]
    /\ task = TaskInit /\ busy = {8}
    /\ intr = FALSE /\ halt = FALSE /\ left = 0 /\ status = "run" /\ fault = NoFault /\ steps = 0
    /\ shadow = FALSE /\ open = <<>> /\ ret = <<>>

PNext ==
    \/ \E sel \in DataSels : MovDs(sel) \/ MovSs(sel)
    \/ (\E sel \in CallSels : CallFar(sel, FALSE)) \/ (\E sel \in JumpSels : CallFar(sel, TRUE))
    \/ SoftInt("SOFT") \/ SoftInt("KERN") \/ Int3
    \/ DropError \/ Iret \/ (\E off \in {0, 1} : RetFar(off))
    \/ \E f \in Forge : ForgeFrame(f)
    \/ Sysenter \/ Sysexit \/ (Popf(3)) \/ Cli \/ Sti \/ Hlt
    \/ Deliver \/ RaiseIrq \/ TakeIrq \/ StepBegin

PSpec == PInit /\ [][PNext]_pvars

-----------------------------------------------------------------------------
(* Properties.                                                             *)

\* In protected mode CPL is CS's RPL and, for a code segment that does not
\* conform, its DPL: no sequence of calls, gates, forged frames and returns
\* runs such code at another level.
CodeSane == status = "run" /\ ~VM(c.fl) => CodeAt(c.cs, c.cpl)

\* A more privileged level is entered only at an entry point the guest's kernel
\* declared: a gate's target, SYSENTER's, or a task's saved address.
EntryPoints ==
    {Index(Idt[v].to) : v \in {w \in DOMAIN Idt : Idt[w].gt \in {"int", "trap"}}}
    \cup {Index(Desc[i].to) : i \in {j \in DOMAIN Desc : Desc[j].kind = "callgate"}}
    \cup {Index(SysenterCs)}
RingEntry ==
    [][c'.cpl < c.cpl /\ status' # "abort" /\ c'.tr = c.tr =>
          c'.ip = 0 /\ Index(c'.cs) \in EntryPoints]_pvars

\* Only level 0 changes IOPL, and code above IOPL never sets IF, whether by
\* POPF, STI or a forged frame (another task's flags are its own).
FlagsGuard ==
    [][c'.tr = c.tr /\ status' # "abort" =>
          /\ c.cpl > 0 /\ c'.cpl > 0 => IOPL(c'.fl) = IOPL(c.fl)
          /\ c.cpl > IOPL(c.fl) /\ IF_(c'.fl) => IF_(c.fl)]_pvars

\* Who was entered through a gate - from the same level, an outer one or
\* virtual-8086 mode, by an interrupt, an exception, INT or a far call with
\* parameters - and returns through the frame it was given reaches the context
\* it was entered from exactly: CS:IP, SS:SP, level and, by IRET, the flags (IF
\* is not the handler's to restore above IOPL).  The return never aborts, and it
\* faults in one case only: to conforming code at an outer level, of which
\* check_cs_outer asks a DPL above the handler's level (i386.c:5041), so that
\* code of the kernel's DPL running at level 3 cannot be returned to.
ReturnsExactly ==
    ret # <<>> =>
        IF ret.exc = "none"
        THEN [ret.want EXCEPT !.fl = ClearIf(ClearNt(@))] = [ret.got EXCEPT !.fl = ClearIf(ClearNt(@))]
        ELSE /\ ~VM(ret.want.fl) /\ InTable(ret.want.cs)
             /\ D(ret.want.cs).conf /\ D(ret.want.cs).dpl <= ret.got.cpl
             /\ ret.got.cpl < ret.want.cpl /\ ret.exc = "GP"

\* No interrupt is taken between STI or MOV SS and the next instruction.
ShadowHolds == shadow /\ status = "run" => left > 0

\* A return to an outer level leaves no data segment of the inner one
\* (SYSEXIT leaves the data segments alone).
NoInnerData ==
    [][c'.cpl > c.cpl /\ ~VM(c'.fl) /\ status' = "run" /\ c'.tr = c.tr
          /\ InTable(c'.ds) /\ D(c'.ds).dpl < c'.cpl => D(c'.ds).conf \/ Sysexit]_pvars

\* What the guest gains by no path: another level but by an entry point, IOPL
\* or IF, an inner segment (check_cs_ret, PopFlags, clear_segs).
Confined == RingEntry /\ FlagsGuard /\ NoInnerData
=============================================================================
