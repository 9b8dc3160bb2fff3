----------------------------- MODULE CpuString -----------------------------
(***************************************************************************)
(* The string instructions of the i386 interpreter (i386.c): STOS, LODS,   *)
(* SCAS, MOVS, CMPS, INS and OUTS, alone and under REP, REPE and REPNE.    *)
(* STOS, MOVS, INS and OUTS under REP run in passes: each translates once  *)
(* and moves as many elements as fit in the page, by physical address; an  *)
(* unaligned address sends the rest of the instruction element by element. *)
(* A page fault ends the instruction in the middle; the guest maps the     *)
(* page and the instruction starts again from its registers.               *)
(*                                                                         *)
(* Memory is bytes in frames; an element is a sequence of ins.size bytes.  *)
(* Of the flags only ZF is kept (CpuFlags has the rest).                   *)
(***************************************************************************)
EXTENDS Integers, Sequences, FiniteSets, FiniteSetsExt

CONSTANTS
    PageSize,       \* 4096
    Frames,         \* sequence: Frames[p + 1] is the frame of linear page p
    IndexMod,       \* size of the address-size register (2^16)
    Bases,          \* segment bases
    IndexChoice,    \* initial SI and DI
    MaxCount,       \* initial CX
    MemChoice,      \* initial memories
    PresentChoice   \* sets of pages initially present

Ops == {"STOS", "LODS", "SCAS", "MOVS", "CMPS", "INS", "OUTS"}
LinearPage == 0..(Len(Frames) - 1)

VARIABLES
    ins,        \* [op, rep, size, dir, base]: the instruction, its segments' base;
                \* rep 1 is REP/REPE, 2 REPNE
    s,          \* [mem, si, di, cx, ax, zf, inp, out]: what it works on
    present,    \* mapped linear pages
    status,     \* "run", "slow" (the slow path), "fault", "done"
    want,       \* page of the fault (CR2)
    start       \* ghost: s when the instruction was first started

strVars == <<ins, s, present, status, want, start>>

HasSi == ins.op \in {"LODS", "MOVS", "CMPS", "OUTS"}
HasDi == ins.op \in {"STOS", "SCAS", "MOVS", "CMPS", "INS"}
Compares == ins.op \in {"SCAS", "CMPS"}
Chunked == ins.op \in {"STOS", "MOVS", "INS", "OUTS"}
Delta == ins.dir * ins.size         \* xdir8, xdir16, xdir32

-----------------------------------------------------------------------------
(* Translation and the transfer of one element.                            *)

Linear(index) == ins.base + index
PageOf(a) == a \div PageSize
PhysOf(a) == Frames[PageOf(a) + 1] * PageSize + (a % PageSize)

\* The pages an element at index needs, in the order they are translated.
PagesAt(index) ==
    LET p == PageOf(Linear(index))  q == PageOf(Linear(index) + ins.size - 1)
    IN  IF p = q THEN <<p>> ELSE <<p, q>>

Needed == (IF HasSi THEN PagesAt(s.si) ELSE <<>>) \o (IF HasDi THEN PagesAt(s.di) ELSE <<>>)
Missing == {i \in DOMAIN Needed : Needed[i] \notin present}

\* Physical addresses of the bytes of an element.
Bytes(index) == [i \in 1..ins.size |-> PhysOf(Linear(index) + i - 1)]

Port(n) == [i \in 1..ins.size |-> 100 * n + i]      \* what the n-th port read returns

\* The transfer itself, from the bytes at src to the bytes at dst.
Transfer(t, src, dst) ==
    LET Get(at) == [i \in DOMAIN at |-> t.mem[at[i]]]
        Put(at, v) == [a \in DOMAIN t.mem |->
                          IF \E i \in DOMAIN at : at[i] = a THEN v[CHOOSE i \in DOMAIN at : at[i] = a]
                          ELSE t.mem[a]]
    IN  CASE ins.op = "STOS" -> [t EXCEPT !.mem = Put(dst, t.ax)]
          [] ins.op = "LODS" -> [t EXCEPT !.ax = Get(src)]
          [] ins.op = "SCAS" -> [t EXCEPT !.zf = (t.ax = Get(dst))]
          [] ins.op = "MOVS" -> [t EXCEPT !.mem = Put(dst, Get(src))]
          [] ins.op = "CMPS" -> [t EXCEPT !.zf = (Get(src) = Get(dst))]
          [] ins.op = "INS"  -> [t EXCEPT !.mem = Put(dst, Port(t.inp)), !.inp = @ + 1]
          [] ins.op = "OUTS" -> [t EXCEPT !.out = Append(@, Get(src))]

\* sreg(6, lreg(6) + n * dir) and the like, in the width of the address size.
Advance(t, n) ==
    [t EXCEPT !.si = IF HasSi THEN (@ + n * Delta) % IndexMod ELSE @,
              !.di = IF HasDi THEN (@ + n * Delta) % IndexMod ELSE @,
              !.cx = IF ins.rep = 0 THEN @ ELSE @ - n]

\* stdi, ldsi, lddi, ldsistdi, ldsilddi, indxstdi, ldsioutdx
Element(t) ==
    Advance(Transfer(t, IF HasSi THEN Bytes(t.si) ELSE <<>>, IF HasDi THEN Bytes(t.di) ELSE <<>>), 1)

\* (zf && rep == 2) || (!zf && rep == 1)
Breaks(t) == Compares /\ ((t.zf /\ ins.rep = 2) \/ (~t.zf /\ ins.rep = 1))

-----------------------------------------------------------------------------
(* The instruction.                                                        *)

Running == status \in {"run", "slow"}

\* Mutant: CR2 is the address of the element even if its second page is missing.
PageFault_FirstPage ==
    /\ Running /\ (ins.rep = 0 \/ s.cx > 0) /\ Missing # {}
    /\ want' = Needed[1] /\ status' = "fault"
    /\ UNCHANGED <<ins, s, present, start>>

PageFault ==
    /\ Running /\ (ins.rep = 0 \/ s.cx > 0) /\ Missing # {}
    /\ want' = Needed[Min(Missing)] /\ status' = "fault"
    /\ UNCHANGED <<ins, s, present, start>>

\* The guest maps the page and returns to the instruction.
Resume ==
    /\ status = "fault"
    /\ present' = present \cup {want} /\ status' = "run"
    /\ UNCHANGED <<ins, s, want, start>>

Single ==
    /\ Running /\ ins.rep = 0 /\ Missing = {}
    /\ s' = Element(s) /\ status' = "done"
    /\ UNCHANGED <<ins, present, want, start>>

\* Mutant: elements that fit between the address and the page's end, also downwards.
Room_Upwards(index) == (PageSize - (PhysOf(Linear(index)) % PageSize)) \div ins.size

\* countd, counts: the elements left in the page.
Room(index) ==
    LET off == PhysOf(Linear(index)) % PageSize
    IN  IF ins.dir > 0 THEN (PageSize - off) \div ins.size ELSE 1 + off \div ins.size

Aligned(index) == PhysOf(Linear(index)) % ins.size = 0

\* The elements of a pass are addressed physically from the first one's.
Chunk(t, n) ==
    LET At(index, i) == [b \in 1..ins.size |-> PhysOf(Linear(index)) + i * Delta + b - 1]
        c[i \in 0..n] ==
            IF i = 0 THEN t
            ELSE Transfer(c[i - 1], IF HasSi THEN At(t.si, i - 1) ELSE <<>>,
                                    IF HasDi THEN At(t.di, i - 1) ELSE <<>>)
    IN  c[n]

\* One pass of STOS/MOVS/INS/OUTS_helper2 over aligned elements.  The string
\* callback of a port may take fewer elements than fit (count1 > 0, upwards
\* only); taking none, it leaves all of them to the loop.
Pass(n) ==
    /\ status = "run" /\ ins.rep # 0 /\ Chunked /\ s.cx > 0 /\ Missing = {}
    /\ HasSi => Aligned(s.si)
    /\ HasDi => Aligned(s.di)
    /\ LET count == Min({s.cx} \cup (IF HasSi THEN {Room(s.si)} ELSE {})
                               \cup (IF HasDi THEN {Room(s.di)} ELSE {}))
       IN  n = count \/ (ins.op \in {"INS", "OUTS"} /\ ins.dir > 0 /\ n \in 1..count)
    /\ s' = Advance(Chunk(s, n), n)
    /\ UNCHANGED <<ins, present, status, want, start>>

\* Mutant: the count is not taken down by the element that ends a search.
SlowElement_BreakFirst ==
    /\ Running /\ ins.rep # 0 /\ s.cx > 0 /\ Missing = {}
    /\ status = "slow" \/ ~Chunked \/ (HasSi /\ ~Aligned(s.si)) \/ (HasDi /\ ~Aligned(s.di))
    /\ LET t == Element(s)
       IN  IF Breaks(t) THEN status' = "done" /\ s' = [t EXCEPT !.cx = s.cx]
           ELSE s' = t /\ status' = IF Chunked THEN "slow" ELSE status
    /\ UNCHANGED <<ins, present, want, start>>

\* One element of the slow path, or of LODS, SCAS and CMPS under REP.
SlowElement ==
    /\ Running /\ ins.rep # 0 /\ s.cx > 0 /\ Missing = {}
    /\ status = "slow" \/ ~Chunked \/ (HasSi /\ ~Aligned(s.si)) \/ (HasDi /\ ~Aligned(s.di))
    /\ s' = Element(s)
    /\ status' = IF Breaks(s') THEN "done" ELSE IF Chunked THEN "slow" ELSE status
    /\ UNCHANGED <<ins, present, want, start>>

Finish ==
    /\ Running /\ ins.rep # 0 /\ s.cx = 0
    /\ status' = "done"
    /\ UNCHANGED <<ins, s, present, want, start>>

StrInit ==
    /\ ins \in [op : Ops, rep : 0..2, size : {1, 2}, dir : {-1, 1}, base : Bases]
    /\ ins.rep = 2 => Compares      \* INS and OUTS refuse it, the others take it as REP
    /\ present \in PresentChoice
    /\ s \in [mem : MemChoice, si : IndexChoice, di : IndexChoice, cx : 0..MaxCount,
              ax : {[i \in 1..ins.size |-> 0]}, zf : {FALSE}, inp : {0}, out : {<<>>}]
    /\ ~HasSi => s.si = 0
    /\ ~HasDi => s.di = 0
    /\ ins.rep = 0 => s.cx = 0
    /\ status = "run" /\ want = 0 /\ start = s

StrNext == PageFault \/ Resume \/ Single \/ (\E n \in 1..MaxCount : Pass(n)) \/ SlowElement \/ Finish

\* The interpreter keeps stepping and the guest's handler maps what it is asked for.
StrSpec == StrInit /\ [][StrNext]_strVars /\ WF_strVars(StrNext)

-----------------------------------------------------------------------------
(* Properties.                                                             *)

\* The instruction as the architecture has it: one element after another, the
\* count taken down with each.
Reference(n) ==
    LET r[i \in 0..n] == IF i = 0 THEN start ELSE Element(r[i - 1]) IN r[n]

\* A repeated instruction has moved elements in passes through an index that
\* wraps (16 bits) in the middle of a page: a pass goes on past the end of the
\* segment to the end of the page (i386.c:2779, 2896), where the architecture
\* goes back to the segment's start.
WrappedInPage ==
    LET Wraps(i) == i + (start.cx - s.cx - 1) * Delta \notin 0..(IndexMod - 1)
    IN  /\ Chunked /\ ins.rep # 0 /\ ins.base % PageSize # 0
        /\ (HasSi /\ Wraps(start.si)) \/ (HasDi /\ Wraps(start.di))

\* Wherever the instruction is - between passes, at a page fault, done - memory,
\* registers, the port and ZF are those of the first CX0 - CX elements executed
\* one by one: a pass moves no element beyond its page, a fault repeats none
\* and loses none (a port word that was read is stored).  What is moved where
\* is not claimed once the index has wrapped inside a page, the counts still are.
OnTrajectory ==
    LET n == IF ins.rep = 0 THEN (IF status = "done" THEN 1 ELSE 0) ELSE start.cx - s.cx
        t == Reference(n)
    IN  IF WrappedInPage THEN [s EXCEPT !.mem = t.mem, !.out = t.out] = t ELSE s = t

\* A repeated instruction ends exactly when the count is used up or a compare
\* has decided, and no earlier element had decided it.
StopsRight ==
    ins.rep # 0 =>
        LET n == start.cx - s.cx
            decided(i) == i > 0 /\ Breaks(Reference(i))
        IN  /\ status = "done" => s.cx = 0 \/ decided(n)
            /\ \A i \in 0..(n - 1) : ~decided(i)

\* Every string instruction ends, whatever pages have to be mapped on the way.
Terminates == <>(status = "done")
=============================================================================
