--------------------------- MODULE ProtectProofs ---------------------------
EXTENDS Protect, TLAPS

-----------------------------------------------------------------------------
(* Flags. *)

EFlagsIs(i, o, v, n) ==
    LET e == EFlags(i, o, v, n)
    IN  e \in Flags /\ (IF_(e) <=> i) /\ IOPL(e) = (IF o THEN 3 ELSE 0) /\ (VM(e) <=> v) /\ (NT(e) <=> n)

LEMMA EFlagsFields ==
    ASSUME NEW i \in BOOLEAN, NEW o \in BOOLEAN, NEW v \in BOOLEAN, NEW n \in BOOLEAN
    PROVE  EFlagsIs(i, o, v, n)
<1>1. CASE i /\ o BY <1>1 DEF EFlagsIs, EFlags, Bit, Flags, IF_, IOPL, VM, NT
<1>2. CASE i /\ ~o BY <1>2 DEF EFlagsIs, EFlags, Bit, Flags, IF_, IOPL, VM, NT
<1>3. CASE ~i /\ o BY <1>3 DEF EFlagsIs, EFlags, Bit, Flags, IF_, IOPL, VM, NT
<1>4. CASE ~i /\ ~o BY <1>4 DEF EFlagsIs, EFlags, Bit, Flags, IF_, IOPL, VM, NT
<1>5. QED BY <1>1, <1>2, <1>3, <1>4

\* g is f with IF, IOPL and VM as they were.
Keeps(f, g) == g \in Flags /\ (IF_(g) => IF_(f)) /\ IOPL(g) = IOPL(f) /\ (VM(g) <=> VM(f))

FlagFacts(f) ==
    /\ Keeps(f, ClearIf(f)) /\ Keeps(f, SetNt(f)) /\ Keeps(f, ClearNt(f))
    /\ SetIf(f) \in Flags /\ IOPL(SetIf(f)) = IOPL(f) /\ (VM(SetIf(f)) <=> VM(f))
    /\ ClearVm(f) \in Flags /\ (IF_(ClearVm(f)) => IF_(f)) /\ IOPL(ClearVm(f)) = IOPL(f) /\ ~VM(ClearVm(f))

LEMMA FlagsChange == ASSUME NEW f PROVE FlagFacts(f)
<1>1. IF_(f) \in BOOLEAN /\ (IOPL(f) = 3) \in BOOLEAN /\ VM(f) \in BOOLEAN /\ NT(f) \in BOOLEAN
  BY DEF IF_, VM, NT
<1>2. IOPL(f) = (IF IOPL(f) = 3 THEN 3 ELSE 0) BY DEF IOPL
<1>3. EFlagsIs(FALSE, IOPL(f) = 3, VM(f), NT(f)) BY <1>1, EFlagsFields, Zenon
<1>4. EFlagsIs(TRUE, IOPL(f) = 3, VM(f), NT(f)) BY <1>1, EFlagsFields, Zenon
<1>5. EFlagsIs(IF_(f), IOPL(f) = 3, FALSE, NT(f)) BY <1>1, EFlagsFields, Zenon
<1>6. EFlagsIs(IF_(f), IOPL(f) = 3, VM(f), TRUE) BY <1>1, EFlagsFields, Zenon
<1>7. EFlagsIs(IF_(f), IOPL(f) = 3, VM(f), FALSE) BY <1>1, EFlagsFields, Zenon
<1>8. Keeps(f, ClearIf(f)) BY <1>2, <1>3, Zenon DEF EFlagsIs, Keeps, ClearIf
<1>9. Keeps(f, SetNt(f)) BY <1>2, <1>6, Zenon DEF EFlagsIs, Keeps, SetNt
<1>10. Keeps(f, ClearNt(f)) BY <1>2, <1>7, Zenon DEF EFlagsIs, Keeps, ClearNt
<1>11. SetIf(f) \in Flags /\ IOPL(SetIf(f)) = IOPL(f) /\ (VM(SetIf(f)) <=> VM(f))
  BY <1>2, <1>4, Zenon DEF EFlagsIs, SetIf
<1>12. ClearVm(f) \in Flags /\ (IF_(ClearVm(f)) => IF_(f)) /\ IOPL(ClearVm(f)) = IOPL(f) /\ ~VM(ClearVm(f))
  BY <1>2, <1>5, Zenon DEF EFlagsIs, ClearVm
<1>13. QED BY <1>8, <1>9, <1>10, <1>11, <1>12 DEF FlagFacts

-----------------------------------------------------------------------------
(* Segment loads. *)

CFields == {"cpl", "cs", "ss", "ds", "sp", "ip", "fl", "tr"}
XFields == {"c", "mem", "task", "busy", "exc", "err", "abort"}
Record(s, fields) == s = [f \in fields |-> s[f]]
Shape(s) == Record(s, XFields) /\ Record(s.c, CFields) /\ s.abort \in BOOLEAN

\* r is s but for the registers in regs and an exception.
Only(s, r, regs) ==
    /\ Shape(r)
    /\ r.task = s.task /\ r.abort = s.abort
    /\ \A f \in CFields \ regs : r.c[f] = s.c[f]

ThrownIs(s, r, e) == Only(s, r, {}) /\ r.c = s.c /\ r.exc = e

LEMMA Thrown ==
    ASSUME NEW s, Shape(s), NEW e, NEW sel
    PROVE  ThrownIs(s, Throw(s, e, sel), e)
BY DEF Shape, Record, XFields, Throw, Only, ThrownIs

LoadedIs(s, r, seg, sel, cpl) ==
    Only(s, r, {seg, "cpl"}) /\ r.c[seg] = sel /\ r.c.cpl = cpl /\ r.exc = s.exc

LEMMA Loaded ==
    ASSUME NEW s, Shape(s), NEW seg \in {"cs", "ss", "ds"}, NEW sel, NEW cpl
    PROVE  LoadedIs(s, WithSeg(s, seg, sel, cpl), seg, sel, cpl)
<1> DEFINE r == WithSeg(s, seg, sel, cpl)
<1>1. PICK k : k = s.c OBVIOUS
<1>2. Record(k, CFields) BY <1>1 DEF Shape
<1>3. PICK l : l = [k EXCEPT ![seg] = sel, !.cpl = cpl] OBVIOUS
<1>4. /\ Record(l, CFields) /\ l[seg] = sel /\ l.cpl = cpl
      /\ \A f \in CFields \ {seg, "cpl"} : l[f] = k[f]
  BY <1>2, <1>3 DEF Record, CFields
<1>5. r = [s EXCEPT !.c = l] BY <1>1, <1>3 DEF WithSeg
<1>6. QED BY <1>1, <1>4, <1>5 DEF Shape, Record, XFields, Only, LoadedIs

\* A segment load puts the selector in the register, with the level for CS, or
\* throws; the descriptor it found.
Found(s, sel) == VM(s.c.fl) \/ Null(sel) \/ (InTable(sel) /\ D(sel).p)
SegLoaded(s, r, seg, sel) ==
    \/ Only(s, r, {}) /\ r.c = s.c /\ r.exc # "none"
    \/ /\ Only(s, r, {seg, "cpl"}) /\ r.c[seg] = sel /\ r.c.cpl = LevelOf(s, seg, sel)
       /\ r.exc = s.exc /\ Found(s, sel)

LEMMA SegLoads ==
    ASSUME NEW s, Shape(s), NEW seg \in {"cs", "ss", "ds"}, NEW sel
    PROVE  SegLoaded(s, set_seg(s, seg, sel), seg, sel)
<1> DEFINE r == set_seg(s, seg, sel)
           cpl == LevelOf(s, seg, sel)
           l == WithSeg(s, seg, sel, cpl)
<1>3. Only(s, l, {seg, "cpl"}) /\ l.c[seg] = sel /\ l.c.cpl = cpl /\ l.exc = s.exc
  <2>1. LoadedIs(s, l, seg, sel, cpl) BY Loaded, Zenon
  <2>2. QED BY <2>1 DEF LoadedIs
<1>4. \/ r = l /\ (VM(s.c.fl) \/ Null(sel) \/ (InTable(sel) /\ D(sel).p))
      \/ \E e \in {"GP", "NP", "SS"} : r = Throw(s, e, sel)
  <2>1. r = (IF LoadError(s, seg, sel) = "none" THEN l ELSE Throw(s, LoadError(s, seg, sel), sel))
    BY DEF set_seg
  <2>2. LoadError(s, seg, sel) \in {"none", "GP", "NP", "SS"} BY DEF LoadError
  <2>3. LoadError(s, seg, sel) = "none" => VM(s.c.fl) \/ Null(sel) \/ (InTable(sel) /\ D(sel).p)
    BY DEF LoadError
  <2>4. QED BY <2>1, <2>2, <2>3
<1>5. CASE r = l /\ (VM(s.c.fl) \/ Null(sel) \/ (InTable(sel) /\ D(sel).p))
  BY <1>3, <1>5 DEF SegLoaded, Found
<1>6. CASE \E e \in {"GP", "NP", "SS"} : r = Throw(s, e, sel)
  <2>1. PICK e \in {"GP", "NP", "SS"} : r = Throw(s, e, sel) BY <1>6
  <2>2. ThrownIs(s, r, e) BY <2>1, Thrown, Zenon
  <2>3. QED BY <2>1, <2>2 DEF ThrownIs, SegLoaded
<1>7. QED BY <1>4, <1>5, <1>6

\* SS and DS leave everything else alone.
DataLoaded(s, r, seg) == Only(s, r, {seg}) /\ (r.exc = s.exc \/ r.exc # "none")

LEMMA DataLoads ==
    ASSUME NEW s, Shape(s), NEW seg \in {"ss", "ds"}, NEW sel
    PROVE  DataLoaded(s, set_seg(s, seg, sel), seg)
<1>1. SegLoaded(s, set_seg(s, seg, sel), seg, sel) BY SegLoads, Zenon
<1>2. PICK r : r = set_seg(s, seg, sel) OBVIOUS
<1>3. SegLoaded(s, r, seg, sel) BY <1>1, <1>2
<1>4. DataLoaded(s, r, seg) BY <1>3 DEF SegLoaded, DataLoaded, Only, LevelOf
<1>5. QED BY <1>2, <1>4

\* CS takes the level along.
CodeLoaded(s, r, sel) ==
    /\ Only(s, r, {"cs", "cpl"})
    /\ \/ r.c = s.c /\ r.exc # "none"
       \/ /\ r.c.cs = sel /\ r.c.cpl = (IF VM(s.c.fl) THEN 3 ELSE Rpl(sel))
          /\ r.exc = s.exc /\ Found(s, sel)

LEMMA CodeLoads ==
    ASSUME NEW s, Shape(s), NEW sel
    PROVE  CodeLoaded(s, set_seg(s, "cs", sel), sel)
<1>1. SegLoaded(s, set_seg(s, "cs", sel), "cs", sel) BY SegLoads, Zenon
<1>2. PICK r : r = set_seg(s, "cs", sel) OBVIOUS
<1>3. SegLoaded(s, r, "cs", sel) BY <1>1, <1>2
<1>4. CodeLoaded(s, r, sel) BY <1>3 DEF SegLoaded, CodeLoaded, Only, LevelOf
<1>5. QED BY <1>2, <1>4

\* The other steps of a handler.
Moved(s, r, regs) == Only(s, r, regs) /\ r.exc = s.exc

LEMMA Went ==
    ASSUME NEW s, Shape(s), NEW v
    PROVE  Moved(s, Goto(s, v), {"ip"}) /\ Goto(s, v).c.ip = v
BY DEF Goto, Moved, Only, Shape, Record, XFields, CFields

LEMMA FlagsPut ==
    ASSUME NEW s, Shape(s), NEW v
    PROVE  LET r == [s EXCEPT !.c.fl = v] IN Moved(s, r, {"fl"}) /\ r.c.fl = v
BY DEF Moved, Only, Shape, Record, XFields, CFields

LEMMA DepthPut ==
    ASSUME NEW s, Shape(s), NEW v
    PROVE  LET r == [s EXCEPT !.c.sp = v] IN Moved(s, r, {"sp"})
BY DEF Moved, Only, Shape, Record, XFields, CFields

LEMMA Pushed ==
    ASSUME NEW s, Shape(s), NEW vs
    PROVE  Moved(s, Push(s, vs), {"sp"})
BY DEF Push, Moved, Only, Shape, Record, XFields, CFields

\* A step tried aborts when it threw.
Tried(s, r) == Shape(r) /\ r.c = s.c /\ r.task = s.task /\ r.exc = s.exc /\ r.abort = (s.abort \/ s.exc # "none")

LEMMA Try ==
    ASSUME NEW s, Shape(s)
    PROVE  Tried(s, Try1(s))
BY DEF Try1, Abort, Tried, Shape, Record, XFields

-----------------------------------------------------------------------------
(* What every step keeps. *)

\* The level of k is that of its code.
LevelSane(k) ==
    /\ k.fl \in Flags
    /\ IF VM(k.fl) THEN k.cpl = 3 ELSE CodeAt(k.cs, k.cpl)

\* So it is for every task that may be switched to.
TaskSane(t) == Record(t, TaskFields) /\ t.fl \in Flags /\ ~VM(t.fl) /\ CodeAt(t.cs, Rpl(t.cs))
TasksSane(ts) == \A i \in DOMAIN ts : TaskSane(ts[i])

\* A handler started in x with context k and ended in r.
RingOk(k, l) == l.cpl < k.cpl /\ l.tr = k.tr => l.ip = 0 /\ Index(l.cs) \in EntryPoints
FlagsOk(k, l) ==
    l.tr = k.tr =>
        /\ k.cpl > 0 /\ l.cpl > 0 => IOPL(l.fl) = IOPL(k.fl)
        /\ k.cpl > IOPL(k.fl) /\ IF_(l.fl) => IF_(k.fl)
DataOk(k, l) ==
    l.cpl > k.cpl /\ ~VM(l.fl) /\ l.tr = k.tr /\ InTable(l.ds) /\ D(l.ds).dpl < l.cpl => D(l.ds).conf
Outcome(k, r) ==
    Shape(r) /\ (r.abort \/ (/\ LevelSane(r.c) /\ TasksSane(r.task)
                             /\ RingOk(k, r.c) /\ FlagsOk(k, r.c)
                             /\ r.exc = "none" => DataOk(k, r.c)))

Begun(s) == Shape(s) /\ LevelSane(s.c) /\ TasksSane(s.task) /\ s.exc = "none" /\ s.abort = FALSE

LEMMA CplRange ==
    ASSUME NEW k, LevelSane(k)
    PROVE  k.cpl \in 0..3
BY DEF LevelSane, CodeAt, InTable, Rpl

LEMMA IoplRange == ASSUME NEW f PROVE IOPL(f) \in {0, 3}
BY DEF IOPL

\* The level and the task stay, the flags within what the level may.
LEMMA LevelStays ==
    ASSUME NEW s, Begun(s), NEW r, Shape(r), r.task = s.task,
           r.c.cs = s.c.cs, r.c.cpl = s.c.cpl, r.c.tr = s.c.tr,
           r.c.fl \in Flags, VM(r.c.fl) <=> VM(s.c.fl), FlagsOk(s.c, r.c)
    PROVE  Outcome(s.c, r)
<1>1. s.c.cpl \in 0..3 BY CplRange DEF Begun
<1>2. QED BY <1>1 DEF Outcome, Begun, LevelSane, RingOk, DataOk

LEMMA FlagsKept ==
    ASSUME NEW k, NEW l, Keeps(k.fl, l.fl)
    PROVE  FlagsOk(k, l)
BY DEF FlagsOk, Keeps

\* An exception before anything but stack, data segments and flags changed.
LEMMA ThrowStays ==
    ASSUME NEW s, Begun(s), NEW e, NEW sel
    PROVE  Outcome(s.c, Throw(s, e, sel))
<1>1. ThrownIs(s, Throw(s, e, sel), e) BY Thrown, Zenon DEF Begun
<1>2. PICK r : r = Throw(s, e, sel) OBVIOUS
<1>3. Shape(r) /\ r.c = s.c /\ r.task = s.task BY <1>1, <1>2 DEF ThrownIs, Only
<1>4. s.c.fl \in Flags /\ FlagsOk(s.c, r.c) BY <1>3 DEF Begun, LevelSane, FlagsOk
<1>5. Outcome(s.c, r) BY <1>3, <1>4, LevelStays
<1>6. QED BY <1>2, <1>5

\* Loading CS with code of the level it names.
LEMMA SelFields ==
    ASSUME NEW i \in Nat, NEW l \in 0..3
    PROVE  Sel(i, l) \in Nat /\ Index(Sel(i, l)) = i /\ Rpl(Sel(i, l)) = l
BY DEF Sel, Index, Rpl

LEMMA FlagValues == ASSUME NEW f \in Flags PROVE f \in 0..15 BY DEF Flags

EnterIs(y, r, i, l, ip) ==
    /\ Shape(r) /\ r.task = y.task
    /\ \/ r.abort
       \/ /\ r.exc = y.exc /\ r.c.cs = Sel(i, l) /\ r.c.cpl = l /\ r.c.ip = ip
          /\ \A f \in CFields \ {"cs", "cpl", "ip"} : r.c[f] = y.c[f]

LEMMA Entered ==
    ASSUME NEW y, Shape(y), y.exc = "none", y.abort = FALSE, ~VM(y.c.fl),
           NEW i \in Nat, NEW l \in 0..3, NEW ip
    PROVE  EnterIs(y, Goto(Try1(set_seg(y, "cs", Sel(i, l))), ip), i, l, ip)
<1>1. PICK u : u = set_seg(y, "cs", Sel(i, l)) OBVIOUS
<1>2. CodeLoaded(y, u, Sel(i, l)) BY <1>1, CodeLoads, Zenon
<1>3. Rpl(Sel(i, l)) = l BY SelFields
<1>4. Shape(u) /\ u.abort = FALSE /\ u.task = y.task BY <1>2 DEF CodeLoaded, Only
<1>5. PICK v : v = Try1(u) OBVIOUS
<1>6. Tried(u, v) BY <1>4, <1>5, Try
<1>7. PICK r : r = Goto(v, ip) OBVIOUS
<1>8. Moved(v, r, {"ip"}) /\ r.c.ip = ip BY <1>6, <1>7, Went, Zenon DEF Tried
<1>9. Shape(r) /\ r.task = y.task /\ r.abort = v.abort /\ r.exc = v.exc
  BY <1>4, <1>6, <1>8 DEF Moved, Only, Tried
<1>10. CASE v.abort BY <1>1, <1>5, <1>7, <1>9, <1>10 DEF EnterIs
<1>11. CASE ~v.abort
  <2>1. v.exc = "none" /\ v.c = u.c /\ u.exc = "none" BY <1>4, <1>6, <1>11 DEF Tried
  <2>2. u.c.cs = Sel(i, l) /\ u.c.cpl = l BY <2>1, <1>2, <1>3 DEF CodeLoaded
  <2>3. \A f \in CFields \ {"cs", "cpl", "ip"} : r.c[f] = y.c[f]
    BY <2>1, <1>2, <1>8 DEF CodeLoaded, Moved, Only
  <2>4. r.c.cs = Sel(i, l) /\ r.c.cpl = l BY <2>1, <2>2, <1>8 DEF Moved, Only, CFields
  <2>5. QED BY <1>1, <1>5, <1>7, <1>8, <1>9, <2>1, <2>3, <2>4 DEF EnterIs
<1>12. QED BY <1>10, <1>11

\* What is true of the stack switch whether or not SS could be loaded.
Switched(s, w) ==
    /\ Shape(w) /\ w.task = s.task /\ w.abort = s.abort /\ w.c.fl = ClearVm(s.c.fl)
    /\ \A f \in {"cs", "cpl", "tr", "ds"} : w.c[f] = s.c[f]

LEMMA InnerStack ==
    ASSUME NEW s, Shape(s), NEW level
    PROVE  Switched(s, ToInner(s, level))
<1>1. PICK a : a = [s EXCEPT !.c.sp = TssSp[level].sp, !.c.fl = ClearVm(@)] OBVIOUS
<1>2. Shape(a) /\ a.task = s.task /\ a.abort = s.abort /\ a.c.fl = ClearVm(s.c.fl)
      /\ \A f \in CFields \ {"sp", "fl"} : a.c[f] = s.c[f]
  BY <1>1 DEF Shape, Record, XFields, CFields
<1>3. PICK w : w = set_seg(a, "ss", TssSp[level].ss) OBVIOUS
<1>4. DataLoaded(a, w, "ss") BY <1>2, <1>3, DataLoads, Zenon
<1>5. ToInner(s, level) = w BY <1>1, <1>3 DEF ToInner
<1>6. Switched(s, w) BY <1>2, <1>4 DEF Switched, DataLoaded, Only, CFields
<1>7. QED BY <1>5, <1>6

LEMMA InnerFrame ==
    ASSUME NEW s, Shape(s), NEW level, NEW err
    PROVE  Switched(s, InterLevel(s, level, err))
<1>1. PICK w : w = ToInner(s, level) OBVIOUS
<1>2. Switched(s, w) BY <1>1, InnerStack, Zenon
<1>3. PICK r : r = InterLevel(s, level, err) OBVIOUS
<1>4. PICK vs : vs = <<s.c.ss, s.c.sp>> \o Frame(s, err) OBVIOUS
<1>5. r = (IF Ok(w) THEN Push(w, vs) ELSE w) BY <1>1, <1>3, <1>4 DEF InterLevel
<1>6. Moved(w, Push(w, vs), {"sp"}) BY <1>2, Pushed, Zenon DEF Switched
<1>7. Switched(s, Push(w, vs)) BY <1>2, <1>6 DEF Switched, Moved, Only, CFields
<1>8. QED BY <1>2, <1>3, <1>5, <1>7

\* From virtual-8086 mode: either the stack was switched or nothing changed.
VmLeft(s, r) ==
    /\ Shape(r) /\ r.task = s.task
    /\ \/ r.abort
       \/ r.exc # "none" /\ r.c = s.c
       \/ r.exc = "none" /\ r.c.fl = ClearVm(s.c.fl) /\ \A f \in {"cs", "cpl", "tr"} : r.c[f] = s.c[f]

LEMMA VmFrame ==
    ASSUME NEW s, Shape(s), s.abort = FALSE, s.exc = "none", NEW err
    PROVE  VmLeft(s, FromVm(s, err))
<1>1. PICK w : w = ToInner(s, 0) OBVIOUS
<1>2. Switched(s, w) BY <1>1, InnerStack, Zenon
<1>3. PICK vs : vs = <<s.c.ds, s.c.ss, s.c.sp>> \o Frame(s, err) OBVIOUS
<1>4. PICK p : p = Push(w, vs) OBVIOUS
<1>5. Moved(w, p, {"sp"}) BY <1>2, <1>4, Pushed, Zenon DEF Switched
<1>6. PICK u : u = set_seg(p, "ds", 0) OBVIOUS
<1>7. DataLoaded(p, u, "ds") BY <1>5, <1>6, DataLoads, Zenon DEF Moved, Only
<1>8. Shape(u) /\ u.abort = FALSE BY <1>2, <1>5, <1>7 DEF Switched, Moved, Only, DataLoaded
<1>9. PICK t : t = Try1(u) OBVIOUS
<1>10. Tried(u, t) BY <1>8, <1>9, Try
<1>11. PICK r : r = FromVm(s, err) OBVIOUS
<1>12. r = (IF Ok(w) THEN t ELSE [w EXCEPT !.c = s.c])
  BY <1>1, <1>3, <1>4, <1>6, <1>9, <1>11 DEF FromVm
<1>13. CASE Ok(w)
  <2>1. r = t BY <1>12, <1>13
  <2>2. Shape(r) /\ r.task = s.task
    BY <2>1, <1>2, <1>5, <1>7, <1>10 DEF Tried, DataLoaded, Moved, Only, Switched
  <2>3. ~r.abort => u.exc = "none" /\ r.exc = "none" /\ r.c = u.c BY <2>1, <1>8, <1>10 DEF Tried
  <2>4. u.c.fl = ClearVm(s.c.fl) /\ \A f \in {"cs", "cpl", "tr"} : u.c[f] = s.c[f]
    BY <1>2, <1>5, <1>7 DEF DataLoaded, Moved, Only, Switched, CFields
  <2>5. QED BY <1>11, <2>2, <2>3, <2>4 DEF VmLeft
<1>14. CASE ~Ok(w)
  <2>1. r = [w EXCEPT !.c = s.c] BY <1>12, <1>14
  <2>2. Shape(r) /\ r.c = s.c /\ r.task = s.task /\ r.exc = w.exc
    BY <2>1, <1>2 DEF Switched, Shape, Record, XFields
  <2>3. w.exc # "none" BY <1>2, <1>14 DEF Ok, Switched
  <2>4. QED BY <1>11, <2>2, <2>3 DEF VmLeft
<1>15. QED BY <1>13, <1>14

-----------------------------------------------------------------------------
(* Interrupts. *)

\* A handler's flags.
LEMMA EnteredFlags ==
    ASSUME NEW f, NEW gt
    PROVE  LET g == EnterFlags(f, gt)
           IN  g \in Flags /\ (IF_(g) => IF_(f)) /\ IOPL(g) = IOPL(f) /\ ~VM(g)
<1>1. PICK a : a = ClearNt(f) OBVIOUS
<1>2. PICK b : b = ClearVm(a) OBVIOUS
<1>3. PICK d : d = ClearIf(b) OBVIOUS
<1>4. FlagFacts(f) /\ FlagFacts(a) /\ FlagFacts(b) BY FlagsChange, Zenon
<1>5. Keeps(f, a) BY <1>1, <1>4 DEF FlagFacts
<1>6. b \in Flags /\ (IF_(b) => IF_(a)) /\ IOPL(b) = IOPL(a) /\ ~VM(b) BY <1>2, <1>4 DEF FlagFacts
<1>7. Keeps(b, d) BY <1>3, <1>4 DEF FlagFacts
<1>8. EnterFlags(f, gt) = (IF gt = "int" THEN d ELSE b) BY <1>1, <1>2, <1>3 DEF EnterFlags
<1>9. QED BY <1>5, <1>6, <1>7, <1>8 DEF Keeps

\* What the check of a gate's code says of the level it runs at.
CheckedFor(s, sel, r) ==
    LET level == IF r = 1 THEN s.c.cpl ELSE D(sel).dpl
    IN  /\ InTable(sel) /\ D(sel).kind = "code" /\ D(sel).p /\ level \in 0..3
        /\ D(sel).conf \/ D(sel).dpl = level
        /\ level <= s.c.cpl
        /\ r = 3 <=> VM(s.c.fl)

LEMMA GateChecked ==
    ASSUME NEW s, LevelSane(s.c), NEW sel
    PROVE  LET k == check_cs(s, sel)
           IN  k.r \in 0..3 /\ (IF k.r = 0 THEN k.exc # "none" ELSE CheckedFor(s, sel, k.r))
<1>1. s.c.cpl \in 0..3 BY CplRange
<1>2. InTable(sel) => D(sel).dpl \in 0..3 BY TablesSane DEF TablesSane, InTable, D
<1>3. PICK d : d = D(sel) OBVIOUS
<1>4. PICK k : k = check_cs(s, sel) OBVIOUS
<1>5. CASE Null(sel) \/ ~InTable(sel) \/ d.kind # "code" \/ d.dpl > s.c.cpl \/ ~d.p
  BY <1>3, <1>4, <1>5 DEF check_cs
<1>6. CASE ~(Null(sel) \/ ~InTable(sel) \/ d.kind # "code" \/ d.dpl > s.c.cpl \/ ~d.p)
  <2> DEFINE inner == ~d.conf /\ d.dpl < s.c.cpl
  <2>1. k.r = (IF VM(s.c.fl) THEN IF inner /\ d.dpl = 0 THEN 3 ELSE 0 ELSE IF inner THEN 2 ELSE 1)
       /\ (k.r = 0 => k.exc = "GP")
    BY <1>3, <1>4, <1>6 DEF check_cs
  <2>2. InTable(sel) /\ d.kind = "code" /\ d.p /\ d.dpl \in 0..3 /\ d.dpl <= s.c.cpl
    BY <1>1, <1>2, <1>3, <1>6
  <2>3. QED BY <1>1, <1>3, <1>4, <2>1, <2>2 DEF CheckedFor
<1>7. QED BY <1>5, <1>6

\* The end of a far transfer to code of level l at ip.
LEMMA Arrives ==
    ASSUME NEW s, Begun(s), NEW r, NEW y, NEW i \in Nat, NEW l \in 0..3, NEW ip,
           y.exc = "none", y.c.tr = s.c.tr, y.task = s.task, EnterIs(y, r, i, l, ip), CodeAt(Sel(i, l), l),
           NEW q, Shape(q), q.task = r.task, q.abort = r.abort, q.exc = r.exc,
           \A f \in CFields \ {"fl"} : q.c[f] = r.c[f],
           r.abort \/ (q.c.fl \in Flags /\ ~VM(q.c.fl) /\ FlagsOk(s.c, q.c)), l <= s.c.cpl,
           l < s.c.cpl => ip = 0 /\ i \in EntryPoints
    PROVE  Outcome(s.c, q)
<1>1. s.c.cpl \in 0..3 BY CplRange DEF Begun
<1>2. CASE r.abort BY <1>2 DEF Outcome
<1>3. CASE ~r.abort
  <2>1. q.c.cs = Sel(i, l) /\ q.c.cpl = l /\ q.c.ip = ip
    BY <1>3 DEF EnterIs, CFields
  <2>2. LevelSane(q.c) BY <1>3, <2>1 DEF LevelSane
  <2>3. TasksSane(q.task) BY DEF EnterIs, Begun
  <2>4. RingOk(s.c, q.c) BY <2>1, SelFields DEF RingOk
  <2>5. DataOk(s.c, q.c) BY <1>1, <2>1 DEF DataOk
  <2>6. QED BY <2>2, <2>3, <2>4, <2>5 DEF Outcome
<1>4. QED BY <1>2, <1>3

\* The frame has thrown with the level unchanged, or keeps CS and has left
\* virtual-8086 mode.
FramePushed(s, k, y) ==
    /\ Shape(y) /\ y.task = s.task
    /\ y.abort \/ (y.c.cs = s.c.cs /\ y.c.cpl = s.c.cpl /\ y.c.tr = s.c.tr)
    /\ y.abort \/ y.exc = "none" \/ Keeps(s.c.fl, y.c.fl)
    /\ Ok(y) => k.r # 0 /\ ~VM(y.c.fl)

LEMMA GateFramed ==
    ASSUME NEW s, Begun(s), NEW sel, NEW k, k = check_cs(s, sel), NEW level, NEW err
    PROVE  FramePushed(s, k, GateFrame(s, k, level, err))
<1> DEFINE y == GateFrame(s, k, level, err)
<1>1. Shape(s) /\ LevelSane(s.c) /\ s.abort = FALSE /\ s.exc = "none" /\ s.c.fl \in Flags BY DEF Begun, LevelSane
<1>2. k.r \in 0..3 /\ (IF k.r = 0 THEN k.exc # "none" ELSE CheckedFor(s, sel, k.r)) BY <1>1, GateChecked
<1>3. FlagFacts(s.c.fl) BY FlagsChange, Zenon
<1>4. CASE k.r = 0
  <2>1. y = Throw(s, k.exc, k.err) BY <1>4 DEF GateFrame
  <2>2. PICK e, n : e = k.exc /\ n = k.err OBVIOUS
  <2>3. ThrownIs(s, Throw(s, e, n), e) BY <1>1, Thrown, Zenon
  <2>4. Shape(y) /\ y.c = s.c /\ y.task = s.task /\ y.exc = k.exc BY <2>1, <2>2, <2>3 DEF ThrownIs, Only
  <2>5. Keeps(s.c.fl, s.c.fl) BY <1>1 DEF Keeps
  <2>6. QED BY <1>2, <1>4, <2>4, <2>5 DEF Ok, FramePushed
<1>5. CASE k.r = 1
  <2>1. y = Push(s, Frame(s, err)) BY <1>5 DEF GateFrame
  <2>2. Moved(s, Push(s, Frame(s, err)), {"sp"}) BY <1>1, Pushed, Zenon
  <2>3. ~VM(s.c.fl) BY <1>2, <1>5 DEF CheckedFor
  <2>4. QED BY <1>1, <1>5, <2>1, <2>2, <2>3 DEF Moved, Only, CFields, FramePushed
<1>6. CASE k.r = 2
  <2>1. y = InterLevel(s, level, err) BY <1>6 DEF GateFrame
  <2>2. Switched(s, InterLevel(s, level, err)) BY <1>1, InnerFrame, Zenon
  <2>3. ~VM(s.c.fl) BY <1>2, <1>6 DEF CheckedFor
  <2>4. QED BY <1>1, <1>3, <1>6, <2>1, <2>2, <2>3 DEF Switched, Keeps, FlagFacts, FramePushed
<1>7. CASE k.r = 3
  <2>1. y = FromVm(s, err) BY <1>7 DEF GateFrame
  <2>2. VmLeft(s, FromVm(s, err)) BY <1>1, VmFrame, Zenon
  <2>3. Keeps(s.c.fl, s.c.fl) BY <1>1 DEF Keeps
  <2>4. QED BY <1>1, <1>3, <1>7, <2>1, <2>2, <2>3 DEF VmLeft, FlagFacts, Ok, FramePushed
<1>8. QED BY <1>2, <1>4, <1>5, <1>6, <1>7

LEMMA GateOutcome ==
    ASSUME NEW s, Begun(s), NEW no \in DOMAIN Idt, Idt[no].gt \in {"int", "trap"}, NEW err
    PROVE  Outcome(s.c, EnterGate(s, Idt[no], err))
<1>1. PICK g : g = Idt[no] OBVIOUS
<1>2. PICK k : k = check_cs(s, g.to) OBVIOUS
<1>3. PICK level : level = IF k.r = 1 THEN s.c.cpl ELSE D(g.to).dpl OBVIOUS
<1>4. PICK y : y = GateFrame(s, k, level, err) OBVIOUS
<1>5. PICK m : m = Goto(Try1(set_seg(y, "cs", Sel(Index(g.to), level))), 0) OBVIOUS
<1>6. PICK q : q = [m EXCEPT !.c.fl = EnterFlags(s.c.fl, g.gt)] OBVIOUS
<1>7. PICK r : r = EnterGate(s, Idt[no], err) OBVIOUS
<1>8. r = IF ~Ok(y) THEN y ELSE q BY <1>1, <1>2, <1>3, <1>4, <1>5, <1>6, <1>7 DEF EnterGate
<1>9. LevelSane(s.c) BY DEF Begun
<1>10. k.r \in 0..3 /\ (IF k.r = 0 THEN k.exc # "none" ELSE CheckedFor(s, g.to, k.r)) BY <1>2, <1>9, GateChecked
<1>11. FramePushed(s, k, y) BY <1>2, <1>4, GateFramed, Zenon
<1>12. CASE ~Ok(y)
  <2>1. r = y BY <1>8, <1>12
  <2>2. CASE y.abort BY <1>7, <1>11, <2>1, <2>2 DEF Outcome, FramePushed
  <2>3. CASE ~y.abort
    <3>1. Keeps(s.c.fl, y.c.fl) BY <1>11, <1>12, <2>3 DEF Ok, FramePushed
    <3>2. FlagsOk(s.c, y.c) BY <3>1, FlagsKept, Zenon
    <3>3. Outcome(s.c, y) BY <1>11, <2>3, <3>1, <3>2, LevelStays DEF Keeps, FramePushed
    <3>4. QED BY <1>7, <2>1, <3>3
  <2>4. QED BY <2>2, <2>3
<1>13. CASE Ok(y)
  <2>1. r = q BY <1>8, <1>13
  <2>2. CheckedFor(s, g.to, k.r) BY <1>10, <1>11, <1>13 DEF FramePushed
  <2>3. PICK i \in Nat : i = Index(g.to) /\ i \in DOMAIN Desc
    BY <2>2, TablesSane DEF CheckedFor, InTable, TablesSane
  <2>4. PICK l \in 0..3 : l = level BY <1>3, <2>2 DEF CheckedFor
  <2>5. m = Goto(Try1(set_seg(y, "cs", Sel(i, l))), 0) BY <1>5, <2>3, <2>4
  <2>6. y.exc = "none" /\ Shape(y) /\ ~VM(y.c.fl) /\ y.abort = FALSE BY <1>11, <1>13 DEF Ok, FramePushed, Shape
  <2>7. EnterIs(y, m, i, l, 0) BY <2>5, <2>6, Entered, Zenon
  <2>8. CodeAt(Sel(i, l), l)
    <3>1. Sel(i, l) \in Nat /\ Index(Sel(i, l)) = i /\ Rpl(Sel(i, l)) = l BY SelFields
    <3>2. D(Sel(i, l)) = D(g.to) BY <2>3, <3>1 DEF D
    <3>3. D(g.to).conf \/ D(g.to).dpl = l BY <1>3, <2>2, <2>4 DEF CheckedFor
    <3>4. D(g.to).kind = "code" /\ D(g.to).p BY <2>2 DEF CheckedFor
    <3>5. QED BY <2>3, <3>1, <3>2, <3>3, <3>4 DEF CodeAt, InTable
  <2>9. PICK fl : fl = EnterFlags(s.c.fl, g.gt) OBVIOUS
  <2>10. fl \in Flags /\ (IF_(fl) => IF_(s.c.fl)) /\ IOPL(fl) = IOPL(s.c.fl) /\ ~VM(fl)
    BY <2>9, EnteredFlags
  <2>11. Moved(m, q, {"fl"}) /\ q.c.fl = fl
    <3>1. Shape(m) BY <2>7 DEF EnterIs
    <3>2. q = [m EXCEPT !.c.fl = fl] BY <1>6, <2>9
    <3>3. QED BY <3>1, <3>2, FlagsPut
  <2>12. l <= s.c.cpl BY <1>3, <2>2, <2>4 DEF CheckedFor
  <2>13. i \in EntryPoints BY <1>1, <2>3 DEF EntryPoints
  <2>14. FlagsOk(s.c, q.c) BY <2>10, <2>11 DEF FlagsOk
  <2>15. q.task = m.task /\ q.abort = m.abort /\ q.exc = m.exc /\ Shape(q)
         /\ \A f \in CFields \ {"fl"} : q.c[f] = m.c[f]
    BY <2>11 DEF Moved, Only
  <2>16. y.c.tr = s.c.tr /\ y.task = s.task BY <1>11, <1>13 DEF FramePushed, Ok
  <2>17. Outcome(s.c, q)
    BY <2>6, <2>7, <2>8, <2>10, <2>11, <2>12, <2>13, <2>14, <2>15, <2>16, Arrives
  <2>18. QED BY <1>7, <2>1, <2>17
<1>14. QED BY <1>12, <1>13

LEMMA IsrOutcome ==
    ASSUME NEW s, Begun(s), NEW no, NEW err, NEW ext
    PROVE  Outcome(s.c, call_isr(s, no, err, ext))
<1>1. no \in DOMAIN Idt => Idt[no].gt # "task" BY TablesSane DEF TablesSane
<1>2. \/ \E e \in {"GP", "NP"} : call_isr(s, no, err, ext) = Throw(s, e, 0)
      \/ /\ no \in DOMAIN Idt /\ Idt[no].gt \in {"int", "trap"}
         /\ call_isr(s, no, err, ext) = EnterGate(s, Idt[no], err)
  BY <1>1 DEF call_isr
<1>3. QED BY <1>2, ThrowStays, GateOutcome

-----------------------------------------------------------------------------
(* Tasks. *)

\* SS or DS loaded or the emulator aborts.
DataOrAbort(s, r, seg) ==
    /\ Shape(r) /\ r.task = s.task
    /\ r.abort \/ (~s.abort /\ r.exc = "none" /\ \A f \in CFields \ {seg} : r.c[f] = s.c[f])

LEMMA DataTried ==
    ASSUME NEW s, Shape(s), s.abort \/ s.exc = "none", NEW seg \in {"ss", "ds"}, NEW sel
    PROVE  DataOrAbort(s, Try1(set_seg(s, seg, sel)), seg)
<1>1. PICK u : u = set_seg(s, seg, sel) OBVIOUS
<1>2. DataLoaded(s, u, seg) BY <1>1, DataLoads, Zenon
<1>3. Shape(u) BY <1>2 DEF DataLoaded, Only
<1>4. PICK r : r = Try1(u) OBVIOUS
<1>5. Tried(u, r) BY <1>3, <1>4, Try, Zenon
<1>6. DataOrAbort(s, r, seg) BY <1>2, <1>5 DEF DataLoaded, Only, Tried, DataOrAbort, Shape
<1>7. QED BY <1>1, <1>4, <1>6

\* The same of CS, outside virtual-8086 mode.
CodeOrAbort(s, r, sel) ==
    /\ Shape(r) /\ r.task = s.task
    /\ \/ r.abort
       \/ /\ r.exc = "none" /\ r.c.cs = sel /\ r.c.cpl = Rpl(sel)
          /\ \A f \in CFields \ {"cs", "cpl"} : r.c[f] = s.c[f]

LEMMA CodeTried ==
    ASSUME NEW s, Shape(s), s.exc = "none", ~VM(s.c.fl), NEW sel
    PROVE  CodeOrAbort(s, Try1(set_seg(s, "cs", sel)), sel)
<1>1. PICK u : u = set_seg(s, "cs", sel) OBVIOUS
<1>2. CodeLoaded(s, u, sel) BY <1>1, CodeLoads, Zenon
<1>3. Shape(u) BY <1>2 DEF CodeLoaded, Only
<1>4. PICK r : r = Try1(u) OBVIOUS
<1>5. Tried(u, r) BY <1>3, <1>4, Try, Zenon
<1>6. CodeOrAbort(s, r, sel) BY <1>2, <1>5 DEF CodeLoaded, Only, Tried, CodeOrAbort, Shape
<1>7. QED BY <1>1, <1>4, <1>6

LEMMA SwitchOutcome ==
    ASSUME NEW s, Begun(s), ~VM(s.c.fl), NEW tss, NEW how
    PROVE  Outcome(s.c, task_switch(s, tss, how))
<1> DEFINE old == Index(s.c.tr)
           new == Index(tss)
<1>1. PICK saved : saved = Saved(s, how) OBVIOUS
<1>2. PICK b : b = BusyAfter(s, new, how) OBVIOUS
<1>3. PICK tasks : tasks = [s.task EXCEPT ![old] = saved] OBVIOUS
<1>4. PICK t : t = tasks[new] OBVIOUS
<1>5. PICK y : y = [s EXCEPT !.task = tasks, !.busy = b, !.c.tr = tss, !.c.sp = t.sp] OBVIOUS
<1>6. PICK u : u = Try1(set_seg(y, "cs", t.cs)) OBVIOUS
<1>7. PICK v : v = Try1(set_seg(u, "ss", t.ss)) OBVIOUS
<1>8. PICK z : z = Try1(set_seg(v, "ds", t.ds)) OBVIOUS
<1>9. PICK l : l = Goto(z, t.ip) OBVIOUS
<1>10. PICK r : r = task_switch(s, tss, how) OBVIOUS
<1>11. r = IF new \notin DOMAIN s.task THEN Abort(s)
           ELSE IF how = "call"
           THEN [l EXCEPT !.task = [tasks EXCEPT ![new] = [t EXCEPT !.back = s.c.tr]], !.c.fl = SetNt(t.fl)]
           ELSE [l EXCEPT !.c.fl = t.fl]
  <2>1. l = LoadContext(y, t) BY <1>6, <1>7, <1>8, <1>9 DEF LoadContext
  <2>2. QED BY <1>1, <1>2, <1>3, <1>4, <1>5, <1>10, <2>1 DEF task_switch
<1>12. CASE new \notin DOMAIN s.task
  <2>1. r = Abort(s) BY <1>11, <1>12
  <2>2. Shape(r) /\ r.abort BY <2>1 DEF Begun, Abort, Shape, Record, XFields
  <2>3. QED BY <1>10, <2>2 DEF Outcome
<1>13. CASE new \in DOMAIN s.task
  <2>1. FlagFacts(s.c.fl) /\ FlagFacts(t.fl) BY FlagsChange, Zenon
  <2>2. LevelSane(s.c) /\ CodeAt(s.c.cs, s.c.cpl) BY DEF Begun, LevelSane
  <2>3. Keeps(s.c.fl, saved.fl) BY <1>1, <2>1, <2>2 DEF FlagFacts, Keeps, LevelSane, Saved
  <2>4. TaskSane(saved)
    <3>1. CodeAt(s.c.cs, Rpl(s.c.cs)) BY <2>2 DEF CodeAt
    <3>2. Record(saved, TaskFields) BY <1>1 DEF Record, TaskFields, Saved
    <3>3. saved.cs = s.c.cs BY <1>1 DEF Saved
    <3>4. QED BY <2>3, <3>1, <3>2, <3>3 DEF TaskSane, Keeps
  <2>5. DOMAIN tasks = DOMAIN s.task /\ TasksSane(tasks) BY <1>3, <2>4 DEF TasksSane, Begun
  <2>6. TaskSane(t) BY <1>4, <1>13, <2>5 DEF TasksSane
  <2>7. tss = s.c.tr => t = saved BY <1>3, <1>4, <1>13
  <2>8. /\ Shape(y) /\ y.task = tasks /\ y.exc = "none" /\ y.c.tr = tss
        /\ \A f \in CFields \ {"tr", "sp"} : y.c[f] = s.c[f]
    BY <1>5 DEF Begun, Shape, Record, XFields, CFields
  <2>9. ~VM(y.c.fl) BY <2>8 DEF CFields
  <2>10. CodeOrAbort(y, u, t.cs) BY <1>6, <2>8, <2>9, CodeTried, Zenon
  <2>11. DataOrAbort(u, v, "ss") BY <1>7, <2>10, DataTried, Zenon DEF CodeOrAbort
  <2>12. DataOrAbort(v, z, "ds")
    <3>1. Shape(v) /\ (v.abort \/ v.exc = "none") BY <2>11 DEF DataOrAbort
    <3>2. QED BY <1>8, <3>1, DataTried, Zenon
  <2>13. /\ Shape(z) /\ z.task = tasks
         /\ z.abort \/ (z.exc = "none" /\ z.c.cs = t.cs /\ z.c.cpl = Rpl(t.cs) /\ z.c.tr = tss)
    BY <2>8, <2>10, <2>11, <2>12 DEF CodeOrAbort, DataOrAbort, CFields
  <2>14. /\ Shape(l) /\ l.task = tasks /\ l.abort = z.abort
         /\ l.abort \/ (l.c.cs = t.cs /\ l.c.cpl = Rpl(t.cs) /\ l.c.tr = tss)
    BY <1>9, <2>13 DEF Goto, Shape, Record, XFields, CFields
  <2>15. PICK fl : fl = IF how = "call" THEN SetNt(t.fl) ELSE t.fl OBVIOUS
  <2>16. Keeps(t.fl, fl) BY <2>1, <2>6, <2>15 DEF FlagFacts, Keeps, TaskSane
  <2>17. PICK ts : ts = IF how = "call" THEN [tasks EXCEPT ![new] = [t EXCEPT !.back = s.c.tr]] ELSE tasks
    OBVIOUS
  <2>18. TasksSane(ts)
    <3>1. TaskSane([t EXCEPT !.back = s.c.tr])
      BY <2>6 DEF TaskSane, Record, TaskFields
    <3>2. QED BY <2>5, <2>17, <3>1 DEF TasksSane
  <2>19. /\ Shape(r) /\ r.abort = l.abort /\ r.task = ts /\ r.c.fl = fl
         /\ r.abort \/ (r.c.cs = t.cs /\ r.c.cpl = Rpl(t.cs) /\ r.c.tr = tss)
    <3>1. CASE how = "call"
      <4>1. r = [l EXCEPT !.task = ts, !.c.fl = fl]
        BY <1>4, <1>11, <1>13, <2>14, <2>15, <2>17, <3>1
      <4>2. QED BY <2>14, <4>1 DEF Shape, Record, XFields, CFields
    <3>2. CASE how # "call"
      <4>1. r = [l EXCEPT !.c.fl = fl] BY <1>11, <1>13, <2>15, <3>2
      <4>2. ts = tasks BY <2>17, <3>2
      <4>3. QED BY <2>14, <4>1, <4>2 DEF Shape, Record, XFields, CFields
    <3>3. QED BY <3>1, <3>2
  <2>20. CASE r.abort BY <1>10, <2>19, <2>20 DEF Outcome
  <2>21. CASE ~r.abort
    <3>1. LevelSane(r.c) BY <2>6, <2>16, <2>19, <2>21 DEF LevelSane, TaskSane, Keeps
    <3>2. r.c.tr = s.c.tr => r.c.cpl = s.c.cpl /\ Keeps(s.c.fl, r.c.fl)
      <4>1. SUFFICES ASSUME r.c.tr = s.c.tr PROVE r.c.cpl = s.c.cpl /\ Keeps(s.c.fl, r.c.fl)
        OBVIOUS
      <4>2. t = saved BY <2>7, <2>19, <2>21, <4>1
      <4>3. r.c.cpl = s.c.cpl BY <1>1, <2>2, <2>19, <2>21, <4>2 DEF CodeAt, Saved
      <4>4. QED BY <2>3, <2>16, <2>19, <4>2, <4>3 DEF Keeps
    <3>3. s.c.cpl \in 0..3 BY <2>2, CplRange
    <3>4. RingOk(s.c, r.c) /\ DataOk(s.c, r.c) BY <3>2, <3>3 DEF RingOk, DataOk
    <3>5. FlagsOk(s.c, r.c) BY <3>2 DEF FlagsOk, Keeps
    <3>6. TasksSane(r.task) BY <2>18, <2>19
    <3>7. QED BY <1>10, <2>19, <3>1, <3>4, <3>5, <3>6 DEF Outcome
  <2>22. QED BY <2>20, <2>21
<1>14. QED BY <1>12, <1>13

-----------------------------------------------------------------------------
(* Far calls and jumps. *)

\* Ready to load CS: nothing the level depends on has changed.
Ready(s, y) ==
    /\ Shape(y) /\ y.task = s.task /\ y.abort = FALSE /\ Keeps(s.c.fl, y.c.fl)
    /\ y.c.cs = s.c.cs /\ y.c.cpl = s.c.cpl /\ y.c.tr = s.c.tr

LEMMA ReadyOutcome ==
    ASSUME NEW s, Begun(s), NEW y, Ready(s, y)
    PROVE  Outcome(s.c, y)
<1>1. FlagsOk(s.c, y.c) BY FlagsKept, Zenon DEF Ready
<1>2. QED BY <1>1, LevelStays DEF Ready, Keeps

\* CS loaded with code of level l that the caller may reach there.
LEMMA ArrivesReady ==
    ASSUME NEW s, Begun(s), ~VM(s.c.fl), NEW y, Ready(s, y), y.exc = "none",
           NEW sel, InTable(sel), NEW l \in 0..3, NEW ip, D(sel).kind = "code", D(sel).p,
           D(sel).conf \/ D(sel).dpl = l, l <= s.c.cpl,
           l < s.c.cpl => ip = 0 /\ Index(sel) \in EntryPoints
    PROVE  Outcome(s.c, Goto(Try1(set_seg(y, "cs", Sel(Index(sel), l))), ip))
<1>1. PICK i \in Nat : i = Index(sel) /\ i \in DOMAIN Desc BY TablesSane DEF InTable, TablesSane
<1>2. PICK r : r = Goto(Try1(set_seg(y, "cs", Sel(i, l))), ip) OBVIOUS
<1>3. Shape(y) /\ ~VM(y.c.fl) /\ y.abort = FALSE BY DEF Ready, Keeps
<1>4. EnterIs(y, r, i, l, ip) BY <1>2, <1>3, Entered, Zenon
<1>5. CodeAt(Sel(i, l), l)
  <2>1. Sel(i, l) \in Nat /\ Index(Sel(i, l)) = i /\ Rpl(Sel(i, l)) = l BY SelFields
  <2>2. QED BY <1>1, <2>1 DEF CodeAt, InTable, D
<1>6. r.abort \/ (r.c.fl \in Flags /\ ~VM(r.c.fl) /\ FlagsOk(s.c, r.c))
  <2>1. SUFFICES ASSUME ~r.abort PROVE r.c.fl \in Flags /\ ~VM(r.c.fl) /\ FlagsOk(s.c, r.c) OBVIOUS
  <2>2. r.c.fl = y.c.fl BY <1>4, <2>1 DEF EnterIs, CFields
  <2>3. Keeps(s.c.fl, r.c.fl) BY <2>2 DEF Ready
  <2>4. QED BY <2>3, FlagsKept DEF Keeps
<1>7. Outcome(s.c, r)
  <2>1. Shape(r) /\ y.c.tr = s.c.tr /\ y.task = s.task BY <1>4 DEF EnterIs, Ready
  <2>2. QED BY <1>1, <1>4, <1>5, <1>6, <2>1, Arrives
<1>8. QED BY <1>1, <1>2, <1>7

LEMMA SameReady ==
    ASSUME NEW s, Begun(s), NEW isjmp, NEW next
    PROVE  Ready(s, ToSame(s, isjmp, next)) /\ ToSame(s, isjmp, next).exc = "none"
<1>1. PICK vs : vs = <<s.c.cs, next>> OBVIOUS
<1>2. Moved(s, Push(s, vs), {"sp"}) BY Pushed, Zenon DEF Begun
<1>3. Ready(s, Push(s, vs)) /\ Push(s, vs).exc = "none"
  BY <1>2 DEF Moved, Only, Begun, Ready, Keeps, LevelSane, CFields
<1>4. Ready(s, s) /\ s.exc = "none" BY DEF Begun, Ready, Keeps, LevelSane
<1>5. QED BY <1>1, <1>3, <1>4 DEF ToSame

LEMMA InnerReady ==
    ASSUME NEW s, Begun(s), ~VM(s.c.fl), NEW level, NEW wc, NEW isjmp, NEW next
    PROVE  Ready(s, GateInner(s, level, wc, isjmp, next))
<1>1. PICK params : params = [i \in 1..wc |-> Slot(s, s.c.sp - wc + i)] OBVIOUS
<1>2. PICK vs : vs = <<s.c.ss, s.c.sp>> \o params \o <<s.c.cs, next>> OBVIOUS
<1>3. PICK w : w = ToInner(s, level) OBVIOUS
<1>4. Switched(s, w) BY <1>3, InnerStack, Zenon DEF Begun
<1>5. Moved(w, Push(w, vs), {"sp"}) BY <1>4, Pushed, Zenon DEF Switched
<1>6. FlagFacts(s.c.fl) BY FlagsChange, Zenon
<1>7. Ready(s, w) BY <1>4, <1>6 DEF Switched, Ready, Begun, FlagFacts, Keeps
<1>8. Ready(s, Push(w, vs)) BY <1>5, <1>7 DEF Moved, Only, Ready, CFields
<1>9. GateInner(s, level, wc, isjmp, next) = IF isjmp \/ ~Ok(w) THEN w ELSE Push(w, vs)
  BY <1>1, <1>2, <1>3 DEF GateInner
<1>10. QED BY <1>7, <1>8, <1>9

LEMMA CodeOutcome ==
    ASSUME NEW s, Begun(s), ~VM(s.c.fl), NEW sel, InTable(sel), D(sel).kind = "code", D(sel).p,
           NEW isjmp, NEW next
    PROVE  Outcome(s.c, ToCode(s, sel, isjmp, next))
<1>1. PICK d : d = D(sel) OBVIOUS
<1>2. PICK r : r = ToCode(s, sel, isjmp, next) OBVIOUS
<1>3. PICK y : y = ToSame(s, isjmp, next) OBVIOUS
<1>4. PICK l \in 0..3 : l = s.c.cpl BY CplRange DEF Begun
<1>5. r = IF IF d.conf THEN d.dpl > l ELSE Rpl(sel) > l \/ d.dpl # l THEN Throw(s, "GP", sel)
          ELSE Goto(Try1(set_seg(y, "cs", Sel(Index(sel), l))), 1)
  BY <1>1, <1>2, <1>3, <1>4 DEF ToCode
<1>6. CASE IF d.conf THEN d.dpl > l ELSE Rpl(sel) > l \/ d.dpl # l
  <2>1. r = Throw(s, "GP", sel) BY <1>5, <1>6
  <2>2. QED BY <1>2, <2>1, ThrowStays
<1>7. CASE ~(IF d.conf THEN d.dpl > l ELSE Rpl(sel) > l \/ d.dpl # l)
  <2>1. r = Goto(Try1(set_seg(y, "cs", Sel(Index(sel), l))), 1) BY <1>5, <1>7
  <2>2. D(sel).conf \/ D(sel).dpl = l BY <1>1, <1>7
  <2>3. Ready(s, y) /\ y.exc = "none" BY <1>3, SameReady
  <2>4. l <= s.c.cpl /\ ~(l < s.c.cpl) BY <1>4
  <2>5. Outcome(s.c, Goto(Try1(set_seg(y, "cs", Sel(Index(sel), l))), 1))
    BY <2>2, <2>3, <2>4, ArrivesReady
  <2>6. QED BY <1>2, <2>1, <2>5
<1>8. QED BY <1>6, <1>7

LEMMA GateCallOutcome ==
    ASSUME NEW s, Begun(s), ~VM(s.c.fl), NEW n \in DOMAIN Desc, Desc[n].kind = "callgate",
           NEW isjmp, NEW next
    PROVE  Outcome(s.c, ThroughGate(s, Desc[n], isjmp, next))
<1>1. PICK sel : sel = Desc[n].to OBVIOUS
<1>2. PICK g : g = D(sel) OBVIOUS
<1>3. PICK inner \in BOOLEAN : inner = (~g.conf /\ g.dpl < s.c.cpl) OBVIOUS
<1>4. PICK y : y = IF inner THEN GateInner(s, g.dpl, Desc[n].wc, isjmp, next) ELSE ToSame(s, isjmp, next)
  OBVIOUS
<1>5. PICK l : l = IF inner THEN g.dpl ELSE s.c.cpl OBVIOUS
<1>6. PICK r : r = ThroughGate(s, Desc[n], isjmp, next) OBVIOUS
<1>7. r = IF Null(sel) THEN Throw(s, "GP", 0)
          ELSE IF ~InTable(sel) \/ g.kind # "code" THEN Throw(s, "GP", sel)
          ELSE IF ~g.p THEN Throw(s, "NP", sel)
          ELSE IF g.dpl > s.c.cpl THEN Throw(s, "GP", sel)
          ELSE IF ~Ok(y) THEN y
          ELSE Goto(Try1(set_seg(y, "cs", Sel(Index(sel), l))), 0)
  BY <1>1, <1>2, <1>3, <1>4, <1>5, <1>6 DEF ThroughGate
<1>8. CASE Null(sel) \/ ~InTable(sel) \/ g.kind # "code" \/ ~g.p \/ g.dpl > s.c.cpl
  <2>1. \E e, x : r = Throw(s, e, x) BY <1>7, <1>8
  <2>2. QED BY <1>6, <2>1, ThrowStays
<1>9. CASE InTable(sel) /\ g.kind = "code" /\ g.p /\ ~(g.dpl > s.c.cpl) /\ ~Null(sel)
  <2>1. s.c.cpl \in 0..3 BY CplRange DEF Begun
  <2>2. g.dpl \in 0..3 BY <1>2, <1>9, TablesSane DEF TablesSane, InTable, D
  <2>3. l \in 0..3 /\ l <= s.c.cpl /\ (g.conf \/ g.dpl = l)
    <3>1. ~(g.dpl > s.c.cpl) BY <1>9
    <3>2. CASE inner
      <4>1. l = g.dpl BY <1>5, <3>2
      <4>2. QED BY <2>1, <2>2, <3>1, <4>1
    <3>3. CASE ~inner
      <4>1. l = s.c.cpl BY <1>5, <3>3
      <4>2. g.conf \/ ~(g.dpl < s.c.cpl) BY <1>3, <3>3
      <4>3. QED BY <2>1, <2>2, <3>1, <4>1, <4>2
    <3>4. QED BY <3>2, <3>3
  <2>4. Ready(s, y) BY <1>4, SameReady, InnerReady
  <2>5. Index(sel) \in EntryPoints BY <1>1 DEF EntryPoints
  <2>6. CASE ~Ok(y) BY <1>6, <1>7, <1>9, <2>4, <2>6, ReadyOutcome
  <2>7. CASE Ok(y)
    <3>1. r = Goto(Try1(set_seg(y, "cs", Sel(Index(sel), l))), 0) BY <1>7, <1>9, <2>7
    <3>2. y.exc = "none" BY <2>7 DEF Ok
    <3>3. Outcome(s.c, Goto(Try1(set_seg(y, "cs", Sel(Index(sel), l))), 0))
      BY <1>2, <1>9, <2>3, <2>4, <2>5, <3>2, ArrivesReady
    <3>4. QED BY <1>6, <3>1, <3>3
  <2>8. QED BY <2>6, <2>7
<1>10. QED BY <1>8, <1>9

\* The outcome of a handler that first moves EIP.
LEMMA WentBegun ==
    ASSUME NEW s, Begun(s), NEW ip
    PROVE  LET y == Goto(s, ip)
           IN  Begun(y) /\ y.c.fl = s.c.fl /\ \A r : Outcome(y.c, r) => Outcome(s.c, r)
<1>1. PICK y : y = Goto(s, ip) OBVIOUS
<1>2. Moved(s, y, {"ip"}) BY <1>1, Went, Zenon DEF Begun
<1>3. Begun(y) /\ y.c.fl = s.c.fl /\ y.c.cpl = s.c.cpl /\ y.c.tr = s.c.tr
  BY <1>2 DEF Moved, Only, Begun, LevelSane, CFields
<1>4. \A r : Outcome(y.c, r) => Outcome(s.c, r) BY <1>3 DEF Outcome, RingOk, FlagsOk, DataOk
<1>5. QED BY <1>1, <1>3, <1>4

LEMMA CallOutcome ==
    ASSUME NEW s, Begun(s), ~VM(s.c.fl), NEW sel, NEW isjmp, NEW next
    PROVE  Outcome(s.c, pmcall(s, sel, isjmp, next))
<1>1. PICK how : how = IF isjmp THEN "jmp" ELSE "call" OBVIOUS
<1>2. PICK y : y = Goto(s, next) OBVIOUS
<1>3. PICK r : r = pmcall(s, sel, isjmp, next) OBVIOUS
<1>4. \/ \E e, x : r = Throw(s, e, x)
      \/ InTable(sel) /\ D(sel).kind = "code" /\ D(sel).p /\ r = ToCode(s, sel, isjmp, next)
      \/ \E tss : r = task_switch(y, tss, how)
      \/ r = Abort(s)
      \/ InTable(sel) /\ D(sel).kind = "callgate" /\ r = ThroughGate(s, D(sel), isjmp, next)
  BY <1>1, <1>2, <1>3 DEF pmcall
<1>5. CASE \E e, x : r = Throw(s, e, x) BY <1>3, <1>5, ThrowStays
<1>6. CASE InTable(sel) /\ D(sel).kind = "code" /\ D(sel).p /\ r = ToCode(s, sel, isjmp, next)
  BY <1>3, <1>6, CodeOutcome
<1>7. CASE \E tss : r = task_switch(y, tss, how)
  BY <1>2, <1>3, <1>7, WentBegun, SwitchOutcome
<1>8. CASE r = Abort(s) BY <1>3, <1>8 DEF Begun, Outcome, Abort, Shape, Record, XFields
<1>9. CASE InTable(sel) /\ D(sel).kind = "callgate" /\ r = ThroughGate(s, D(sel), isjmp, next)
  BY <1>3, <1>9, GateCallOutcome DEF InTable, D
<1>10. QED BY <1>4, <1>5, <1>6, <1>7, <1>8, <1>9

-----------------------------------------------------------------------------
(* Returns. *)

\* What IRET and POPF may do to the flags at level k.cpl.
LEMMA PoppedFlags ==
    ASSUME NEW s, s.c.cpl \in 0..3, NEW f
    PROVE  LET g == PopFlags(s, f)
           IN  /\ g \in Flags
               /\ s.c.cpl > 0 => IOPL(g) = IOPL(s.c.fl)
               /\ s.c.cpl > IOPL(s.c.fl) /\ IF_(g) => IF_(s.c.fl)
<1> DEFINE i == IF IOPL(s.c.fl) < s.c.cpl THEN IF_(s.c.fl) ELSE IF_(f)
           o == IF s.c.cpl > 0 THEN IOPL(s.c.fl) = 3 ELSE IOPL(f) = 3
<1>1. i \in BOOLEAN /\ o \in BOOLEAN /\ VM(f) \in BOOLEAN /\ NT(f) \in BOOLEAN BY DEF IF_, VM, NT
<1>2. EFlagsIs(i, o, VM(f), NT(f)) BY <1>1, EFlagsFields, Zenon
<1>3. PICK g : g = PopFlags(s, f) OBVIOUS
<1>4. g = EFlags(i, o, VM(f), NT(f)) BY <1>3 DEF PopFlags
<1>5. g \in Flags /\ (IF_(g) <=> i) /\ IOPL(g) = (IF o THEN 3 ELSE 0) BY <1>2, <1>4, Zenon DEF EFlagsIs
<1>6. IOPL(s.c.fl) \in {0, 3} BY IoplRange
<1>7. QED BY <1>3, <1>5, <1>6

\* Code that may be returned to.
LEMMA ReturnChecked ==
    ASSUME NEW s, s.c.cpl \in 0..3, NEW sel, check_cs_ret(s, sel) = "none"
    PROVE  CodeAt(sel, Rpl(sel)) /\ s.c.cpl <= Rpl(sel)
<1>1. /\ check_cs_same(s, sel) = "none" \/ check_cs_outer(s, sel) = "none"
      /\ ~(Rpl(sel) < s.c.cpl) /\ (Rpl(sel) = s.c.cpl => check_cs_same(s, sel) = "none")
      /\ (Rpl(sel) # s.c.cpl => check_cs_outer(s, sel) = "none")
  BY DEF check_cs_ret
<1>2. InTable(sel) /\ D(sel).kind = "code" /\ D(sel).p
  BY <1>1 DEF check_cs_same, check_cs_outer
<1>3. Rpl(sel) \in 0..3 BY <1>2 DEF InTable, Rpl
<1>4. Rpl(sel) = s.c.cpl => D(sel).conf \/ D(sel).dpl = s.c.cpl BY <1>1 DEF check_cs_same
<1>5. Rpl(sel) # s.c.cpl => D(sel).conf \/ D(sel).dpl = Rpl(sel) BY <1>1 DEF check_cs_outer
<1>6. s.c.cpl <= Rpl(sel) BY <1>1, <1>3
<1>7. QED BY <1>2, <1>3, <1>4, <1>5, <1>6 DEF CodeAt

\* Flags a level may set.
MayHave(s, fl) ==
    /\ fl \in Flags
    /\ s.c.cpl > 0 => IOPL(fl) = IOPL(s.c.fl)
    /\ s.c.cpl > IOPL(s.c.fl) /\ IF_(fl) => IF_(s.c.fl)

\* Return address and flags taken off the stack.
TakenOff(s, y, fl) ==
    /\ Shape(y) /\ y.task = s.task /\ y.exc = "none" /\ y.abort = FALSE
    /\ y.c.fl = fl /\ MayHave(s, fl)
    /\ y.c.cs = s.c.cs /\ y.c.cpl = s.c.cpl /\ y.c.tr = s.c.tr

\* The end of a return to code that was checked.
LEMMA Returned ==
    ASSUME NEW s, Begun(s), NEW sel, CodeAt(sel, Rpl(sel)), s.c.cpl <= Rpl(sel),
           NEW fl, MayHave(s, fl), ~VM(fl),
           NEW r, Shape(r), r.task = s.task,
           r.abort \/ (r.c.cs = sel /\ r.c.cpl = Rpl(sel) /\ r.c.tr = s.c.tr /\ r.c.fl = fl),
           r.abort \/ r.exc # "none" \/ DataOk(s.c, r.c)
    PROVE  Outcome(s.c, r)
<1>1. s.c.cpl \in 0..3 BY CplRange DEF Begun
<1>2. CASE r.abort BY <1>2 DEF Outcome
<1>3. CASE ~r.abort
  <2>1. LevelSane(r.c) BY <1>3 DEF LevelSane, MayHave
  <2>2. TasksSane(r.task) BY DEF Begun
  <2>3. Rpl(sel) \in 0..3 BY DEF CodeAt, InTable, Rpl
  <2>4. RingOk(s.c, r.c) BY <1>1, <1>3, <2>3 DEF RingOk
  <2>5. FlagsOk(s.c, r.c) BY <1>3 DEF FlagsOk, MayHave
  <2>6. QED BY <1>3, <2>1, <2>2, <2>4, <2>5 DEF Outcome
<1>4. QED BY <1>2, <1>3

LEMMA SameReturn ==
    ASSUME NEW s, Begun(s), NEW y, NEW fl, TakenOff(s, y, fl), ~VM(fl), NEW sel,
           CodeAt(sel, Rpl(sel)), s.c.cpl = Rpl(sel), NEW sp
    PROVE  Outcome(s.c, [Try1(set_seg(y, "cs", sel)) EXCEPT !.c.sp = sp])
<1>1. PICK u : u = Try1(set_seg(y, "cs", sel)) OBVIOUS
<1>2. CodeOrAbort(y, u, sel) BY <1>1, CodeTried, Zenon DEF TakenOff
<1>3. PICK r : r = [u EXCEPT !.c.sp = sp] OBVIOUS
<1>4. Moved(u, r, {"sp"}) BY <1>2, <1>3, DepthPut DEF CodeOrAbort
<1>5. /\ Shape(r) /\ r.task = s.task
      /\ r.abort \/ (r.c.cs = sel /\ r.c.cpl = Rpl(sel) /\ r.c.tr = s.c.tr /\ r.c.fl = fl)
  BY <1>2, <1>4 DEF CodeOrAbort, Moved, Only, TakenOff, CFields
<1>6. s.c.cpl \in 0..3 BY CplRange DEF Begun
<1>7. r.abort \/ DataOk(s.c, r.c) BY <1>5, <1>6 DEF DataOk
<1>8. s.c.cpl <= Rpl(sel) BY <1>6
<1>9. Outcome(s.c, r) BY <1>5, <1>7, <1>8, Returned DEF TakenOff
<1>10. QED BY <1>1, <1>3, <1>9

\* DS after a return outwards.
LEMMA Cleared ==
    ASSUME NEW s, Shape(s)
    PROVE  LET r == clear_segs(s)
           IN  Moved(s, r, {"ds"}) /\ (InTable(r.c.ds) /\ D(r.c.ds).dpl < s.c.cpl => D(r.c.ds).conf)
<1> DEFINE bad == InTable(s.c.ds) /\ ~(D(s.c.ds).kind = "code" /\ D(s.c.ds).conf) /\ D(s.c.ds).dpl < s.c.cpl
<1>1. PICK z : z = [s EXCEPT !.c.ds = 0] OBVIOUS
<1>2. Moved(s, z, {"ds"}) /\ z.c.ds = 0 BY <1>1 DEF Moved, Only, Shape, Record, XFields, CFields
<1>3. ~InTable(0) BY TablesSane DEF InTable, Index, TablesSane
<1>4. PICK r : r = clear_segs(s) OBVIOUS
<1>5. r = IF bad THEN z ELSE s BY <1>1, <1>4 DEF clear_segs
<1>6. CASE bad BY <1>2, <1>3, <1>4, <1>5, <1>6
<1>7. CASE ~bad
  <2>1. r = s BY <1>5, <1>7
  <2>2. Moved(s, s, {"ds"}) BY DEF Moved, Only
  <2>3. QED BY <1>4, <1>7, <2>1, <2>2
<1>8. QED BY <1>6, <1>7

LEMMA OuterReturn ==
    ASSUME NEW s, Begun(s), NEW y, NEW fl, TakenOff(s, y, fl), ~VM(fl), NEW sel,
           CodeAt(sel, Rpl(sel)), s.c.cpl <= Rpl(sel), NEW ss, NEW sp
    PROVE  Outcome(s.c, ToOuter(y, sel, ss, sp))
<1>1. PICK u : u = Try1(set_seg(y, "cs", sel)) OBVIOUS
<1>2. CodeOrAbort(y, u, sel) BY <1>1, CodeTried, Zenon DEF TakenOff
<1>3. PICK v : v = Try1(set_seg(u, "ss", ss)) OBVIOUS
<1>4. Shape(u) /\ (u.abort \/ u.exc = "none") BY <1>2 DEF CodeOrAbort
<1>5. DataOrAbort(u, v, "ss") BY <1>3, <1>4, DataTried, Zenon
<1>6. PICK w : w = [v EXCEPT !.c.sp = sp] OBVIOUS
<1>7. Moved(v, w, {"sp"}) BY <1>5, <1>6, DepthPut DEF DataOrAbort
<1>8. PICK r : r = clear_segs(w) OBVIOUS
<1>9. Moved(w, r, {"ds"}) /\ (InTable(r.c.ds) /\ D(r.c.ds).dpl < w.c.cpl => D(r.c.ds).conf)
  BY <1>7, <1>8, Cleared DEF Moved, Only
<1>10. /\ Shape(r) /\ r.task = s.task
       /\ r.abort \/ (r.c.cs = sel /\ r.c.cpl = Rpl(sel) /\ r.c.tr = s.c.tr /\ r.c.fl = fl /\ w.c.cpl = r.c.cpl)
  BY <1>2, <1>5, <1>7, <1>9 DEF CodeOrAbort, DataOrAbort, Moved, Only, TakenOff, CFields
<1>11. r.abort \/ DataOk(s.c, r.c) BY <1>9, <1>10 DEF DataOk
<1>12. Outcome(s.c, r) BY <1>10, <1>11, Returned DEF TakenOff
<1>13. ToOuter(y, sel, ss, sp) = r BY <1>1, <1>3, <1>6, <1>8 DEF ToOuter
<1>14. QED BY <1>12, <1>13

\* Loads in virtual-8086 mode always succeed, at level 3.
VmLoaded(s, r) == Only(s, r, {"cs", "ss", "ds", "cpl"}) /\ r.exc = s.exc

LEMMA VmLoads ==
    ASSUME NEW s, Shape(s), VM(s.c.fl), NEW seg \in {"cs", "ss", "ds"}, NEW sel
    PROVE  LET r == set_seg(s, seg, sel)
           IN  VmLoaded(s, r) /\ r.c.cpl = (IF seg = "cs" THEN 3 ELSE s.c.cpl)
<1>1. PICK cpl : cpl = LevelOf(s, seg, sel) OBVIOUS
<1>2. PICK r : r = WithSeg(s, seg, sel, cpl) OBVIOUS
<1>3. LoadedIs(s, r, seg, sel, cpl) BY <1>2, Loaded, Zenon
<1>4. set_seg(s, seg, sel) = r BY <1>1, <1>2 DEF set_seg, LoadError
<1>5. VmLoaded(s, r) BY <1>3 DEF LoadedIs, VmLoaded, Only
<1>6. r.c.cpl = (IF seg = "cs" THEN 3 ELSE s.c.cpl) BY <1>1, <1>3 DEF LoadedIs, LevelOf
<1>7. QED BY <1>4, <1>5, <1>6

LEMMA VmReturn ==
    ASSUME NEW s, Begun(s), s.c.cpl = 0, NEW y, NEW fl, TakenOff(s, y, fl), VM(fl),
           NEW cs, NEW ss, NEW ds, NEW sp
    PROVE  Outcome(s.c, [ToVm(y, cs, ss, ds) EXCEPT !.c.sp = sp])
<1>1. PICK u : u = set_seg(y, "cs", cs) OBVIOUS
<1>2. VmLoaded(y, u) /\ u.c.cpl = 3 BY <1>1, VmLoads DEF TakenOff
<1>3. Shape(u) /\ VM(u.c.fl) /\ u.c.fl = fl BY <1>2 DEF VmLoaded, Only, TakenOff, CFields
<1>4. PICK v : v = set_seg(u, "ss", ss) OBVIOUS
<1>5. VmLoaded(u, v) /\ v.c.cpl = 3 BY <1>2, <1>3, <1>4, VmLoads
<1>6. Shape(v) /\ VM(v.c.fl) /\ v.c.fl = fl BY <1>3, <1>5 DEF VmLoaded, Only, CFields
<1>7. PICK w : w = set_seg(v, "ds", ds) OBVIOUS
<1>8. VmLoaded(v, w) /\ w.c.cpl = 3 BY <1>5, <1>6, <1>7, VmLoads
<1>9. Shape(w) BY <1>8 DEF VmLoaded, Only
<1>10. PICK r : r = [w EXCEPT !.c.sp = sp] OBVIOUS
<1>11. Moved(w, r, {"sp"}) BY <1>9, <1>10, DepthPut
<1>12. Shape(r) /\ r.c.cpl = 3 /\ r.c.fl = fl /\ r.task = s.task
  BY <1>2, <1>5, <1>6, <1>8, <1>11 DEF VmLoaded, Moved, Only, TakenOff, CFields
<1>13. LevelSane(r.c) /\ TasksSane(r.task) BY <1>12 DEF LevelSane, TakenOff, MayHave, Begun
<1>14. RingOk(s.c, r.c) /\ DataOk(s.c, r.c) BY <1>12 DEF RingOk, DataOk
<1>15. IOPL(s.c.fl) \in {0, 3} BY IoplRange
<1>16. FlagsOk(s.c, r.c) BY <1>15 DEF FlagsOk
<1>17. Outcome(s.c, r) BY <1>12, <1>13, <1>14, <1>16 DEF Outcome
<1>18. ToVm(y, cs, ss, ds) = w BY <1>1, <1>4, <1>7 DEF ToVm
<1>19. QED BY <1>10, <1>17, <1>18

LEMMA ReturnOutcome ==
    ASSUME NEW s, Begun(s), NEW off, NEW isiret \in BOOLEAN, isiret \/ ~VM(s.c.fl)
    PROVE  Outcome(s.c, pmret(s, off, isiret))
<1>1. PICK d : d = s.c.sp OBVIOUS
<1>2. PICK cs : cs = Slot(s, d - 1) OBVIOUS
<1>3. PICK fl : fl = IF isiret THEN PopFlags(s, Slot(s, d - 2)) ELSE s.c.fl OBVIOUS
<1>4. PICK below : below = IF isiret THEN d - 3 ELSE d - 2 - off OBVIOUS
<1>5. PICK ss : ss = Slot(s, below - 1) OBVIOUS
<1>6. PICK sp : sp = AtDepth(Slot(s, below) - (IF isiret THEN 0 ELSE off)) OBVIOUS
<1>7. PICK m : m = [s EXCEPT !.c.fl = fl] OBVIOUS
<1>8. PICK y : y = Goto(m, Slot(s, d)) OBVIOUS
<1>9. PICK r : r = pmret(s, off, isiret) OBVIOUS
<1>10. r = IF isiret /\ VM(s.c.fl) THEN Throw(s, "GP", 0)
           ELSE IF isiret /\ NT(s.c.fl) THEN TaskReturn(s)
           ELSE IF isiret /\ VM(fl)
           THEN IF s.c.cpl # 0 THEN Abort(s) ELSE [ToVm(y, cs, ss, Slot(s, below - 2)) EXCEPT !.c.sp = sp]
           ELSE IF check_cs_ret(s, cs) # "none" THEN Throw(s, check_cs_ret(s, cs), cs)
           ELSE IF Rpl(cs) = s.c.cpl THEN [Try1(set_seg(y, "cs", cs)) EXCEPT !.c.sp = AtDepth(below)]
           ELSE ToOuter(y, cs, ss, sp)
  BY <1>1, <1>2, <1>3, <1>4, <1>5, <1>6, <1>7, <1>8, <1>9 DEF pmret
<1>11. LevelSane(s.c) /\ s.c.cpl \in 0..3 BY CplRange DEF Begun
<1>12. TakenOff(s, y, fl)
  <2>1. MayHave(s, fl) BY <1>3, <1>11, PoppedFlags DEF MayHave, LevelSane
  <2>2. Moved(s, m, {"fl"}) /\ m.c.fl = fl BY <1>7, FlagsPut DEF Begun
  <2>3. Shape(m) BY <2>2 DEF Moved, Only
  <2>4. Moved(m, y, {"ip"}) BY <1>8, <2>3, Went, Zenon
  <2>5. QED BY <2>1, <2>2, <2>4 DEF Moved, Only, Begun, TakenOff, CFields
<1>13. CASE (isiret /\ VM(s.c.fl)) \/ (r = Throw(s, check_cs_ret(s, cs), cs))
  <2>1. \E e, x : r = Throw(s, e, x) BY <1>10, <1>13
  <2>2. QED BY <1>9, <2>1, ThrowStays
<1>14. CASE r = TaskReturn(s) /\ ~VM(s.c.fl)
  <2>1. PICK z : z = Goto(s, Next1(s.c.ip)) OBVIOUS
  <2>2. (\E e, x : r = Throw(s, e, x)) \/ (\E tss : r = task_switch(z, tss, "iret"))
    BY <1>14, <2>1 DEF TaskReturn
  <2>3. CASE \E e, x : r = Throw(s, e, x) BY <1>9, <2>3, ThrowStays
  <2>4. CASE \E tss : r = task_switch(z, tss, "iret")
    <3>1. Begun(z) /\ z.c.fl = s.c.fl /\ \A q : Outcome(z.c, q) => Outcome(s.c, q) BY <2>1, WentBegun
    <3>2. QED BY <1>9, <1>14, <2>4, <3>1, SwitchOutcome
  <2>5. QED BY <2>2, <2>3, <2>4
<1>15. CASE r = Abort(s) BY <1>9, <1>15 DEF Begun, Outcome, Abort, Shape, Record, XFields
<1>16. CASE VM(fl) /\ s.c.cpl = 0 /\ r = [ToVm(y, cs, ss, Slot(s, below - 2)) EXCEPT !.c.sp = sp]
  <2>1. PICK ds : ds = Slot(s, below - 2) OBVIOUS
  <2>2. Outcome(s.c, [ToVm(y, cs, ss, ds) EXCEPT !.c.sp = sp]) BY <1>12, <1>16, VmReturn
  <2>3. QED BY <1>9, <1>16, <2>1, <2>2
<1>17. CASE /\ ~VM(fl) /\ check_cs_ret(s, cs) = "none" /\ Rpl(cs) = s.c.cpl
            /\ r = [Try1(set_seg(y, "cs", cs)) EXCEPT !.c.sp = AtDepth(below)]
  <2>1. CodeAt(cs, Rpl(cs)) BY <1>11, <1>17, ReturnChecked
  <2>2. QED BY <1>9, <1>12, <1>17, <2>1, SameReturn
<1>18. CASE ~VM(fl) /\ check_cs_ret(s, cs) = "none" /\ r = ToOuter(y, cs, ss, sp)
  <2>1. CodeAt(cs, Rpl(cs)) /\ s.c.cpl <= Rpl(cs) BY <1>11, <1>18, ReturnChecked
  <2>2. QED BY <1>9, <1>12, <1>18, <2>1, OuterReturn
<1>19. isiret \/ ~VM(fl) BY <1>3
<1>20. QED BY <1>10, <1>13, <1>14, <1>15, <1>16, <1>17, <1>18, <1>19

LEMMA VmIretOutcome ==
    ASSUME NEW s, Begun(s), VM(s.c.fl), IOPL(s.c.fl) = 3
    PROVE  Outcome(s.c, vmiret(s))
<1>1. PICK f : f = Slot(s, s.c.sp - 2) OBVIOUS
<1>2. PICK fl : fl = EFlags(IF_(f), IOPL(s.c.fl) = 3, TRUE, NT(f)) OBVIOUS
<1>3. PICK y : y = Goto(s, Slot(s, s.c.sp)) OBVIOUS
<1>4. PICK u : u = set_seg(y, "cs", Slot(s, s.c.sp - 1)) OBVIOUS
<1>5. PICK r : r = vmiret(s) OBVIOUS
<1>6. r = [u EXCEPT !.c.fl = fl, !.c.sp = AtDepth(s.c.sp - 3)] BY <1>1, <1>2, <1>3, <1>4, <1>5 DEF vmiret
<1>7. Moved(s, y, {"ip"}) BY <1>3, Went, Zenon DEF Begun
<1>8. Shape(y) /\ VM(y.c.fl) BY <1>7 DEF Moved, Only, CFields
<1>9. VmLoaded(y, u) /\ u.c.cpl = 3 BY <1>4, <1>8, VmLoads
<1>10. Shape(u) BY <1>9 DEF VmLoaded, Only
<1>11. Shape(r) /\ r.task = u.task /\ r.c.cpl = 3 /\ r.c.fl = fl
  BY <1>6, <1>9, <1>10 DEF Shape, Record, XFields, CFields
<1>12. fl \in Flags /\ VM(fl) /\ IOPL(fl) = 3
  <2>1. EFlagsIs(IF_(f), IOPL(s.c.fl) = 3, TRUE, NT(f)) BY EFlagsFields, Zenon DEF IF_, NT
  <2>2. QED BY <1>2, <2>1 DEF EFlagsIs
<1>13. r.task = s.task BY <1>7, <1>9, <1>11 DEF Moved, VmLoaded, Only
<1>14. LevelSane(r.c) /\ TasksSane(r.task) BY <1>11, <1>12, <1>13 DEF LevelSane, Begun
<1>15. s.c.cpl = 3 BY DEF Begun, LevelSane
<1>16. RingOk(s.c, r.c) /\ DataOk(s.c, r.c) /\ FlagsOk(s.c, r.c)
  BY <1>11, <1>12, <1>15 DEF RingOk, DataOk, FlagsOk
<1>17. QED BY <1>5, <1>11, <1>14, <1>16 DEF Outcome

-----------------------------------------------------------------------------
(* Instructions. *)

Levels ==
    /\ status \in {"run", "fault", "abort"} /\ Record(c, CFields)
    /\ status # "abort" => LevelSane(c) /\ TasksSane(task)

\* A step of the processor, whatever instruction it executes.
StepOk ==
    status' = "abort" \/ (/\ RingOk(c, c') /\ FlagsOk(c, c')
                          /\ status' = "run" => DataOk(c, c') \/ Sysexit)

LEMMA XBegun ==
    ASSUME Levels, status # "abort"
    PROVE  Begun(X) /\ X.c = c
BY DEF Levels, X, Begun, Shape, Record, XFields

LEMMA EndStep ==
    ASSUME Levels, NEW r, Outcome(c, r), NEW more, NEW ip, EndAt(r, more, ip)
    PROVE  Levels' /\ StepOk
<1>1. /\ c' = r.c /\ task' = r.task
      /\ status' = (IF r.abort THEN "abort" ELSE IF r.exc = "none" THEN "run" ELSE "fault")
  BY DEF EndAt
<1>2. Shape(r) BY DEF Outcome
<1>3. CASE r.abort BY <1>1, <1>2, <1>3 DEF Levels, StepOk, Shape, Record
<1>4. CASE ~r.abort
  <2>1. LevelSane(c') /\ TasksSane(task') /\ RingOk(c, c') /\ FlagsOk(c, c')
        /\ (status' = "run" => DataOk(c, c'))
    BY <1>1, <1>4 DEF Outcome
  <2>2. LevelSane(c)' /\ TasksSane(task)' /\ Record(c, CFields)'
    BY <1>1, <1>2, <2>1 DEF LevelSane, TasksSane, TaskSane, CodeAt, InTable, D, Record, CFields, TaskFields, Shape
  <2>3. QED BY <1>1, <1>4, <2>1, <2>2 DEF Levels, StepOk
<1>5. QED BY <1>3, <1>4

\* A load of SS or DS.
LEMMA MovStep ==
    ASSUME Levels, status # "abort", NEW seg \in {"ss", "ds"}, NEW sel, NEW ip
    PROVE  Outcome(c, set_seg(Goto(X, ip), seg, sel))
<1>1. PICK y : y = Goto(X, ip) OBVIOUS
<1>2. Begun(X) /\ X.c = c BY XBegun
<1>3. Begun(y) /\ y.c.fl = c.fl /\ \A r : Outcome(y.c, r) => Outcome(c, r) BY <1>1, <1>2, WentBegun
<1>4. PICK r : r = set_seg(y, seg, sel) OBVIOUS
<1>5. DataLoaded(y, r, seg) BY <1>3, <1>4, DataLoads, Zenon DEF Begun
<1>6. /\ Shape(r) /\ r.task = y.task /\ r.c.cs = y.c.cs /\ r.c.cpl = y.c.cpl /\ r.c.tr = y.c.tr
      /\ r.c.fl = y.c.fl
  BY <1>5 DEF DataLoaded, Only, CFields
<1>7. r.c.fl \in Flags /\ FlagsOk(y.c, r.c) BY <1>3, <1>6 DEF Begun, LevelSane, FlagsOk
<1>8. Outcome(y.c, r) BY <1>3, <1>6, <1>7, LevelStays
<1>9. QED BY <1>1, <1>3, <1>4, <1>8

\* A change of the flags that keeps virtual-8086 mode.
LEMMA FlagStep ==
    ASSUME Levels, status # "abort", NEW fl, MayHave(X, fl), VM(fl) <=> VM(c.fl), NEW ip
    PROVE  Outcome(c, Goto([X EXCEPT !.c.fl = fl], ip))
<1>1. Begun(X) /\ X.c = c BY XBegun
<1>2. PICK m : m = [X EXCEPT !.c.fl = fl] OBVIOUS
<1>3. Moved(X, m, {"fl"}) /\ m.c.fl = fl BY <1>1, <1>2, FlagsPut DEF Begun
<1>4. Shape(m) BY <1>3 DEF Moved, Only
<1>5. PICK r : r = Goto(m, ip) OBVIOUS
<1>6. Moved(m, r, {"ip"}) BY <1>4, <1>5, Went, Zenon
<1>7. /\ Shape(r) /\ r.task = X.task /\ r.c.cs = X.c.cs /\ r.c.cpl = X.c.cpl /\ r.c.tr = X.c.tr
      /\ r.c.fl = fl
  BY <1>3, <1>6 DEF Moved, Only, CFields
<1>8. FlagsOk(X.c, r.c) /\ r.c.fl \in Flags BY <1>7 DEF FlagsOk, MayHave
<1>9. Outcome(X.c, r) BY <1>1, <1>7, <1>8, LevelStays
<1>10. QED BY <1>1, <1>2, <1>5, <1>9

LEMMA ThrowStep ==
    ASSUME Levels, status # "abort", NEW e, NEW sel
    PROVE  Outcome(c, Throw(X, e, sel))
<1>1. Begun(X) /\ X.c = c BY XBegun
<1>2. Outcome(X.c, Throw(X, e, sel)) BY <1>1, ThrowStays
<1>3. QED BY <1>1, <1>2

\* Steps of the guest that only move SP, and those of the step loop that leave
\* the processor alone.
LEMMA StillStep ==
    ASSUME Levels, UNCHANGED <<task, status>>, NEW sp, c' = c \/ c' = [c EXCEPT !.sp = sp]
    PROVE  Levels' /\ StepOk
<1>1. Record(c', CFields) /\ c'.cs = c.cs /\ c'.cpl = c.cpl /\ c'.fl = c.fl /\ c'.tr = c.tr
  BY DEF Levels, Record, CFields
<1>2. LevelSane(c) => LevelSane(c)' BY <1>1 DEF LevelSane, CodeAt, InTable, D
<1>3. TasksSane(task) => TasksSane(task)' BY DEF TasksSane, TaskSane, CodeAt, InTable, D, Record, TaskFields
<1>4. Levels' BY <1>1, <1>2, <1>3 DEF Levels, Record
<1>5. status # "abort" => c.cpl \in 0..3 BY CplRange DEF Levels
<1>6. StepOk BY <1>1, <1>5 DEF StepOk, RingOk, FlagsOk, DataOk
<1>7. QED BY <1>4, <1>6

LEMMA MovAction ==
    ASSUME Levels, NEW sel, MovDs(sel) \/ MovSs(sel)
    PROVE  Levels' /\ StepOk
<1>1. PICK seg, r, more :
        seg \in {"ss", "ds"} /\ status = "run" /\ r = set_seg(Goto(X, Next1(c.ip)), seg, sel) /\ EndAt(r, more, c.ip)
  BY DEF MovDs, MovSs, Executing, Plain, Finish
<1>2. Outcome(c, r) BY <1>1, MovStep
<1>3. QED BY <1>1, <1>2, EndStep

LEMMA CallAction ==
    ASSUME Levels, NEW sel, NEW isjmp, CallFar(sel, isjmp)
    PROVE  Levels' /\ StepOk
<1>1. PICK r, more :
        status = "run" /\ ~VM(c.fl) /\ r = pmcall(X, sel, isjmp, Next1(c.ip)) /\ EndAt(r, more, c.ip)
  BY DEF CallFar, Executing, Finish
<1>2. Begun(X) /\ X.c = c BY <1>1, XBegun
<1>3. Outcome(X.c, pmcall(X, sel, isjmp, Next1(c.ip))) BY <1>1, <1>2, CallOutcome
<1>4. QED BY <1>1, <1>2, <1>3, EndStep

LEMMA IntAction ==
    ASSUME Levels, NEW no, SoftInt(no)
    PROVE  Levels' /\ StepOk
<1>1. PICK y : y = Goto(X, Next1(c.ip)) OBVIOUS
<1>2. PICK r, more : status = "run" /\ EndAt(r, more, c.ip)
                     /\ (r = Throw(X, "GP", 0) \/ r = call_isr(y, no, FALSE, FALSE))
  BY <1>1 DEF SoftInt, Executing, Finish
<1>3. Begun(X) /\ X.c = c BY <1>2, XBegun
<1>4. Begun(y) /\ \A q : Outcome(y.c, q) => Outcome(c, q) BY <1>1, <1>3, WentBegun
<1>5. Outcome(y.c, call_isr(y, no, FALSE, FALSE)) BY <1>4, IsrOutcome
<1>6. Outcome(c, Throw(X, "GP", 0)) BY <1>2, ThrowStep
<1>7. Outcome(c, r) BY <1>2, <1>4, <1>5, <1>6
<1>8. QED BY <1>2, <1>7, EndStep

LEMMA IretAction ==
    ASSUME Levels, Iret
    PROVE  Levels' /\ StepOk
<1>1. PICK r, more :
        /\ status = "run" /\ EndAt(r, more, c.ip)
        /\ r = IF VM(c.fl) /\ IOPL(c.fl) = 3 THEN vmiret(X) ELSE pmret(X, 0, TRUE)
  BY DEF Iret, Executing, AfterReturn, Finish
<1>2. Begun(X) /\ X.c = c BY <1>1, XBegun
<1>3. Outcome(X.c, r) BY <1>1, <1>2, VmIretOutcome, ReturnOutcome
<1>4. QED BY <1>1, <1>2, <1>3, EndStep

LEMMA RetAction ==
    ASSUME Levels, NEW off, RetFar(off)
    PROVE  Levels' /\ StepOk
<1>1. PICK r, more :
        status = "run" /\ ~VM(c.fl) /\ EndAt(r, more, c.ip) /\ r = pmret(X, off, FALSE)
  BY DEF RetFar, Executing, AfterReturn, Finish
<1>2. Begun(X) /\ X.c = c BY <1>1, XBegun
<1>3. Outcome(X.c, r) BY <1>1, <1>2, ReturnOutcome
<1>4. QED BY <1>1, <1>2, <1>3, EndStep

LEMMA SysenterAction ==
    ASSUME Levels, Sysenter
    PROVE  Levels' /\ StepOk
<1>1. PICK i : i = Index(SysenterCs) OBVIOUS
<1>2. PICK fl : fl = ClearIf(ClearVm(c.fl)) OBVIOUS
<1>3. PICK y : y = [X EXCEPT !.c.fl = fl, !.c.cs = Sel(i, 0), !.c.ss = Sel(i + 1, 0),
                             !.c.cpl = 0, !.c.sp = 0, !.c.ip = 0]
  OBVIOUS
<1>4. PICK r, more : status = "run" /\ EndAt(r, more, c.ip)
                     /\ r = IF Null(SysenterCs) THEN Throw(X, "GP", 0) ELSE y
  BY <1>1, <1>2, <1>3 DEF Sysenter, Executing, Finish, X
<1>5. Begun(X) /\ X.c = c BY <1>4, XBegun
<1>6. CASE Null(SysenterCs) BY <1>4, <1>6, ThrowStep, EndStep
<1>7. CASE ~Null(SysenterCs)
  <2>1. r = y BY <1>4, <1>7
  <2>2. /\ Shape(y) /\ y.task = X.task /\ y.c.fl = fl /\ y.c.cs = Sel(i, 0) /\ y.c.cpl = 0
        /\ y.c.ip = 0 /\ y.c.tr = c.tr
    BY <1>3, <1>5 DEF Begun, Shape, Record, XFields, CFields
  <2>3. FlagFacts(c.fl) /\ FlagFacts(ClearVm(c.fl)) BY FlagsChange, Zenon
  <2>4. fl \in Flags /\ ~VM(fl) /\ (IF_(fl) => IF_(c.fl)) BY <1>2, <2>3 DEF FlagFacts, Keeps
  <2>5. CodeAt(Sel(i, 0), 0) BY <1>1, <1>7, TablesSane DEF TablesSane
  <2>6. LevelSane(y.c) /\ TasksSane(y.task) BY <1>5, <2>2, <2>4, <2>5 DEF LevelSane, Begun
  <2>7. i \in Nat BY <1>1, TablesSane DEF TablesSane, Index
  <2>8. Index(Sel(i, 0)) = i BY <2>7, SelFields
  <2>9. RingOk(c, y.c) BY <1>1, <2>2, <2>8 DEF RingOk, EntryPoints
  <2>10. FlagsOk(c, y.c) BY <2>2, <2>4 DEF FlagsOk
  <2>11. c.cpl \in 0..3 BY <1>5, CplRange DEF Begun
  <2>12. DataOk(c, y.c) BY <2>2, <2>11 DEF DataOk
  <2>13. Outcome(c, y) BY <2>2, <2>6, <2>9, <2>10, <2>12 DEF Outcome
  <2>14. QED BY <1>4, <2>1, <2>13, EndStep
<1>8. QED BY <1>6, <1>7

\* SYSEXIT leaves the data segments to the kernel.
LEMMA SysexitAction ==
    ASSUME Levels, Sysexit
    PROVE  Levels' /\ StepOk
<1>1. PICK i : i = Index(SysenterCs) OBVIOUS
<1>2. PICK y : y = [X EXCEPT !.c.cs = Sel(i + 2, 3), !.c.ss = Sel(i + 3, 3),
                             !.c.cpl = 3, !.c.sp = 0, !.c.ip = 1]
  OBVIOUS
<1>3. PICK r, more : /\ status = "run" /\ ~VM(c.fl) /\ EndAt(r, more, c.ip)
                     /\ r = IF Null(SysenterCs) \/ c.cpl > 0 THEN Throw(X, "GP", 0) ELSE y
  BY <1>1, <1>2 DEF Sysexit, Executing, Finish
<1>4. Begun(X) /\ X.c = c BY <1>3, XBegun
<1>5. CASE Null(SysenterCs) \/ c.cpl > 0 BY <1>3, <1>5, ThrowStep, EndStep
<1>6. CASE ~(Null(SysenterCs) \/ c.cpl > 0)
  <2>1. r = y BY <1>3, <1>6
  <2>2. /\ Shape(y) /\ y.task = X.task /\ y.c.fl = c.fl /\ y.c.cs = Sel(i + 2, 3) /\ y.c.cpl = 3
        /\ y.abort = FALSE /\ y.exc = "none"
    BY <1>2, <1>4 DEF Begun, Shape, Record, XFields, CFields
  <2>3. c.cpl = 0
    <3>1. c.cpl \in 0..3 BY <1>4, CplRange DEF Begun
    <3>2. QED BY <1>6, <3>1
  <2>4. CodeAt(Sel(i + 2, 3), 3) BY <1>1, <1>6, TablesSane DEF TablesSane
  <2>5. LevelSane(y.c) /\ TasksSane(y.task) BY <1>3, <1>4, <2>2, <2>4 DEF LevelSane, Begun
  <2>6. IOPL(c.fl) \in {0, 3} BY IoplRange
  <2>7. RingOk(c, y.c) /\ FlagsOk(c, y.c) BY <2>2, <2>3, <2>6 DEF RingOk, FlagsOk
  <2>8. c' = y.c /\ task' = y.task /\ status' = "run" BY <1>3, <2>1, <2>2 DEF EndAt
  <2>9. LevelSane(c)' /\ TasksSane(task)' /\ Record(c, CFields)'
    BY <2>2, <2>5, <2>8 DEF LevelSane, TasksSane, TaskSane, CodeAt, InTable, D, Record, CFields, TaskFields, Shape
  <2>10. QED BY <2>7, <2>8, <2>9 DEF Levels, StepOk
<1>7. QED BY <1>5, <1>6

\* POPF, CLI, STI and HLT.
LEMMA FlagsAction ==
    ASSUME Levels, (\E f : Popf(f)) \/ Cli \/ Sti \/ Hlt
    PROVE  Levels' /\ StepOk
<1>1. status = "run" BY DEF Popf, Cli, Sti, Hlt, Executing
<1>2. Begun(X) /\ X.c = c /\ LevelSane(c) BY <1>1, XBegun DEF Begun
<1>3. c.cpl \in 0..3 /\ FlagFacts(c.fl) /\ IOPL(c.fl) \in {0, 3}
  <2>1. c.cpl \in 0..3 BY <1>2, CplRange
  <2>2. FlagFacts(c.fl) BY FlagsChange, Zenon
  <2>3. QED BY <2>1, <2>2, IoplRange
<1>4. PICK ip : ip = Next1(c.ip) OBVIOUS
<1>5. Outcome(c, Throw(X, "GP", 0)) BY <1>1, ThrowStep
<1>6. ASSUME NEW f, Popf(f) PROVE Levels' /\ StepOk
  <2>1. PICK g : g = PopFlags(X, f) OBVIOUS
  <2>2. g \in Flags /\ (c.cpl > 0 => IOPL(g) = IOPL(c.fl)) /\ (c.cpl > IOPL(c.fl) /\ IF_(g) => IF_(c.fl))
    BY <1>2, <1>3, <2>1, PoppedFlags
  <2>3. PICK new : new = EFlags(IF_(g), IOPL(g) = 3, VM(c.fl), NT(g)) OBVIOUS
  <2>4. EFlagsIs(IF_(g), IOPL(g) = 3, VM(c.fl), NT(g)) BY EFlagsFields, Zenon DEF IF_, VM, NT
  <2>5. new \in Flags /\ (IF_(new) <=> IF_(g)) /\ (VM(new) <=> VM(c.fl)) /\ IOPL(new) = (IF IOPL(g) = 3 THEN 3 ELSE 0)
    BY <2>3, <2>4 DEF EFlagsIs
  <2>6. IOPL(new) = IOPL(g)
    <3>1. IOPL(g) \in {0, 3} BY IoplRange
    <3>2. QED BY <2>5, <3>1
  <2>7. MayHave(X, new) BY <1>2, <2>2, <2>5, <2>6 DEF MayHave
  <2>8. Outcome(c, Goto([X EXCEPT !.c.fl = new], ip)) BY <1>1, <2>5, <2>7, FlagStep
  <2>9. PICK r, more : EndAt(r, more, c.ip)
                       /\ (r = Throw(X, "GP", 0) \/ r = Goto([X EXCEPT !.c.fl = new], ip))
    BY <1>6, <1>4, <2>1, <2>3 DEF Popf, Plain, Finish
  <2>10. Outcome(c, r) BY <1>5, <2>8, <2>9
  <2>11. QED BY <2>9, <2>10, EndStep
<1>7. CASE Cli
  <2>1. PICK fl : fl = ClearIf(c.fl) OBVIOUS
  <2>2. MayHave(X, fl) /\ (VM(fl) <=> VM(c.fl)) BY <1>2, <1>3, <2>1 DEF MayHave, FlagFacts, Keeps
  <2>3. Outcome(c, Goto([X EXCEPT !.c.fl = fl], ip)) BY <1>1, <2>2, FlagStep
  <2>4. PICK r, more : EndAt(r, more, c.ip)
                       /\ (r = Throw(X, "GP", 0) \/ r = Goto([X EXCEPT !.c.fl = fl], ip))
    BY <1>2, <1>4, <1>7, <2>1 DEF Cli, Plain, Finish
  <2>5. Outcome(c, r) BY <1>5, <2>3, <2>4
  <2>6. QED BY <2>4, <2>5, EndStep
<1>8. CASE Sti
  <2>1. PICK fl : fl = SetIf(c.fl) OBVIOUS
  <2>2. PICK r, more :
          /\ EndAt(r, more, c.ip)
          /\ r = IF IOPL(c.fl) < c.cpl THEN Throw(X, "GP", 0) ELSE Goto([X EXCEPT !.c.fl = fl], ip)
    BY <1>2, <1>4, <1>8, <2>1 DEF Sti, Plain, Finish
  <2>3. ~(IOPL(c.fl) < c.cpl) => Outcome(c, Goto([X EXCEPT !.c.fl = fl], ip))
    <3>1. SUFFICES ASSUME ~(IOPL(c.fl) < c.cpl) PROVE Outcome(c, Goto([X EXCEPT !.c.fl = fl], ip))
      OBVIOUS
    <3>2. MayHave(X, fl) /\ (VM(fl) <=> VM(c.fl)) BY <1>2, <1>3, <2>1, <3>1 DEF MayHave, FlagFacts
    <3>3. QED BY <1>1, <3>2, FlagStep
  <2>4. Outcome(c, r) BY <1>5, <2>2, <2>3
  <2>5. QED BY <2>2, <2>4, EndStep
<1>9. CASE Hlt
  <2>1. PICK r, more : EndAt(r, more, c.ip) /\ (r = Throw(X, "GP", 0) \/ r = Goto(X, ip))
    BY <1>4, <1>9 DEF Hlt, Plain, Finish
  <2>2. Outcome(c, Goto(X, ip))
    <3>1. PICK y : y = Goto(X, ip) OBVIOUS
    <3>2. Begun(y) /\ \A q : Outcome(y.c, q) => Outcome(c, q) BY <1>2, <3>1, WentBegun
    <3>3. Outcome(y.c, y) BY <3>2, LevelStays DEF Begun, LevelSane, FlagsOk
    <3>4. QED BY <3>1, <3>2, <3>3
  <2>3. Outcome(c, r) BY <1>5, <2>1, <2>2
  <2>4. QED BY <2>1, <2>3, EndStep
<1>10. QED BY <1>6, <1>7, <1>8, <1>9

\* A handler that must not fail.
LEMMA TryOutcome ==
    ASSUME NEW k, NEW s, Outcome(k, s)
    PROVE  Outcome(k, Try1(s))
<1>1. PICK r : r = Try1(s) OBVIOUS
<1>2. Tried(s, r) BY <1>1, Try DEF Outcome
<1>3. Outcome(k, r) BY <1>2 DEF Tried, Outcome
<1>4. QED BY <1>1, <1>3

\* An exception delivered, or an interrupt taken.
LEMMA DeliverAction ==
    ASSUME Levels, Deliver \/ TakeIrq
    PROVE  Levels' /\ StepOk
<1>1. status # "abort" BY DEF Deliver, TakeIrq
<1>2. Begun(X) /\ X.c = c BY <1>1, XBegun
<1>3. CASE Deliver
  <2>1. PICK at : at = [c EXCEPT !.ip = fault.ip] OBVIOUS
  <2>2. PICK y : y = [X EXCEPT !.c = at, !.err = fault.err] OBVIOUS
  <2>3. PICK q, h, err :
          q = call_isr(y, fault.exc, err, TRUE) /\ h = Try1(q) /\ EndAt(h, 0, 0)
    BY <1>3, <2>1, <2>2 DEF Deliver
  <2>4. Record(at, CFields) /\ at.cs = c.cs /\ at.cpl = c.cpl /\ at.fl = c.fl /\ at.tr = c.tr
    BY <2>1 DEF Levels, Record, CFields
  <2>5. Shape(y) /\ y.c = at /\ y.task = X.task /\ y.exc = "none" /\ y.abort = FALSE
    BY <1>2, <2>2, <2>4 DEF Begun, Shape, Record, XFields
  <2>6. Begun(y) BY <1>2, <2>4, <2>5 DEF Begun, LevelSane
  <2>7. Outcome(y.c, q) BY <2>3, <2>6, IsrOutcome
  <2>8. Outcome(c, q) BY <2>4, <2>5, <2>7 DEF Outcome, RingOk, FlagsOk, DataOk
  <2>9. Outcome(c, h) BY <2>3, <2>8, TryOutcome
  <2>10. QED BY <2>3, <2>9, EndStep
<1>4. CASE TakeIrq
  <2>1. PICK q, h, more : q = call_isr(X, "IRQ", FALSE, TRUE) /\ h = Try1(q) /\ EndAt(h, more, 0)
    BY <1>4 DEF TakeIrq
  <2>2. Outcome(X.c, q) BY <1>2, <2>1, IsrOutcome
  <2>3. Outcome(c, h) BY <1>2, <2>1, <2>2, TryOutcome
  <2>4. QED BY <2>1, <2>3, EndStep
<1>5. QED BY <1>3, <1>4

-----------------------------------------------------------------------------
(* The theorems. *)

LEMMA LevelsInit == PInit => Levels
<1>1. SUFFICES ASSUME PInit PROVE Levels OBVIOUS
<1>2. Record(c, CFields) BY <1>1 DEF PInit, Started, Context, Record, CFields
<1>3. LevelSane(c)
  <2>1. CodeAt(Sel(1, 0), 0) /\ CodeAt(Sel(3, 3), 3) BY TablesSane DEF TablesSane
  <2>2. ~VM(1) /\ VM(5) /\ VM(7) /\ {1, 5, 7} \subseteq Flags BY DEF VM, Flags
  <2>3. QED BY <1>1, <2>1, <2>2 DEF PInit, Started, Context, LevelSane
<1>4. TasksSane(task) BY <1>1, TablesSane DEF PInit, TablesSane, TasksSane, TaskSane, Record
<1>5. QED BY <1>1, <1>2, <1>3, <1>4 DEF PInit, Levels

LEMMA LevelsNext == Levels /\ [PNext]_pvars => Levels' /\ (UNCHANGED pvars \/ StepOk)
<1>1. SUFFICES ASSUME Levels, [PNext]_pvars PROVE Levels' /\ (UNCHANGED pvars \/ StepOk) OBVIOUS
<1>2. CASE UNCHANGED pvars BY <1>1, <1>2, StillStep DEF pvars
<1>3. ASSUME NEW sel, MovDs(sel) \/ MovSs(sel) PROVE Levels' /\ StepOk BY <1>1, <1>3, MovAction
<1>4. ASSUME NEW sel, NEW isjmp, CallFar(sel, isjmp) PROVE Levels' /\ StepOk BY <1>1, <1>4, CallAction
<1>5. ASSUME NEW no, SoftInt(no) PROVE Levels' /\ StepOk BY <1>1, <1>5, IntAction
<1>6. CASE Int3
  <2>1. status = "run" /\ \E r, ip : r = Throw(X, "BP", 0) /\ EndAt(r, 0, ip)
    BY <1>6 DEF Int3, Executing
  <2>2. QED BY <1>1, <2>1, ThrowStep, EndStep
<1>7. CASE DropError
  <2>1. UNCHANGED <<task, status>> /\ \E sp : c' = [c EXCEPT !.sp = sp] BY <1>7 DEF DropError
  <2>2. QED BY <1>1, <2>1, StillStep
<1>8. CASE Iret BY <1>1, <1>8, IretAction
<1>9. ASSUME NEW off, RetFar(off) PROVE Levels' /\ StepOk BY <1>1, <1>9, RetAction
<1>10. ASSUME NEW f, ForgeFrame(f) PROVE Levels' /\ StepOk
  <2>1. UNCHANGED <<task, status>> /\ \E sp : c' = [c EXCEPT !.sp = sp] BY <1>10 DEF ForgeFrame
  <2>2. QED BY <1>1, <2>1, StillStep
<1>11. CASE Sysenter BY <1>1, <1>11, SysenterAction
<1>12. CASE Sysexit BY <1>1, <1>12, SysexitAction
<1>13. CASE Popf(3) \/ Cli \/ Sti \/ Hlt BY <1>1, <1>13, FlagsAction
<1>14. CASE Deliver \/ TakeIrq BY <1>1, <1>14, DeliverAction
<1>15. CASE RaiseIrq \/ StepBegin
  <2>1. UNCHANGED <<task, status>> /\ c' = c BY <1>15 DEF RaiseIrq, StepBegin
  <2>2. QED BY <1>1, <2>1, StillStep
<1>16. QED BY <1>1, <1>2, <1>3, <1>4, <1>5, <1>6, <1>7, <1>8, <1>9, <1>10, <1>11, <1>12, <1>13, <1>14, <1>15
  DEF PNext

\* In protected mode CPL is the level of the code that runs (set_seg, pmcall,
\* call_isr, pmret, task_switch): CPL is CS's RPL and, unless the code
\* conforms, its DPL, whatever the guest calls, forges and returns to.
THEOREM CodeSafe == PSpec => []CodeSane
<1>1. PInit => Levels BY LevelsInit
<1>2. Levels /\ [PNext]_pvars => Levels' BY LevelsNext
<1>3. Levels => CodeSane BY DEF Levels, LevelSane, CodeSane
<1>4. QED BY <1>1, <1>2, <1>3, PTL DEF PSpec

\* What no step of the processor does: gain a level but by an entry point, IOPL
\* or IF without the right, or keep an inner level's data segment (call_isr,
\* pmcall, pmret, clear_segs).
THEOREM Confinement == PSpec => Confined
<1>1. PInit => Levels BY LevelsInit
<1>2. Levels /\ [PNext]_pvars => Levels' BY LevelsNext
<1>3. Levels /\ [PNext]_pvars =>
        [c'.cpl < c.cpl /\ status' # "abort" /\ c'.tr = c.tr =>
            c'.ip = 0 /\ Index(c'.cs) \in EntryPoints]_pvars
  BY LevelsNext DEF StepOk, RingOk
<1>4. Levels /\ [PNext]_pvars =>
        [c'.tr = c.tr /\ status' # "abort" =>
            /\ c.cpl > 0 /\ c'.cpl > 0 => IOPL(c'.fl) = IOPL(c.fl)
            /\ c.cpl > IOPL(c.fl) /\ IF_(c'.fl) => IF_(c.fl)]_pvars
  BY LevelsNext DEF StepOk, FlagsOk
<1>5. Levels /\ [PNext]_pvars =>
        [c'.cpl > c.cpl /\ ~VM(c'.fl) /\ status' = "run" /\ c'.tr = c.tr
            /\ InTable(c'.ds) /\ D(c'.ds).dpl < c'.cpl => D(c'.ds).conf \/ Sysexit]_pvars
  BY LevelsNext DEF StepOk, DataOk
<1>6. PSpec => RingEntry BY <1>1, <1>2, <1>3, PTL DEF PSpec, RingEntry
<1>7. PSpec => FlagsGuard BY <1>1, <1>2, <1>4, PTL DEF PSpec, FlagsGuard
<1>8. PSpec => NoInnerData BY <1>1, <1>2, <1>5, PTL DEF PSpec, NoInnerData
<1>9. QED BY <1>6, <1>7, <1>8 DEF Confined

\* Where the interrupt shadow stands: an exception ends it, and while it lasts
\* the batch goes on.
ShadowInv ==
    /\ left \in Int
    /\ status = "fault" => ~shadow
    /\ ShadowHolds

LEMMA ShadowNext == ShadowInv /\ [PNext]_pvars => ShadowInv'
<1>1. SUFFICES ASSUME ShadowInv, [PNext]_pvars PROVE ShadowInv' OBVIOUS
<1>2. Batch \in Nat \ {0} BY TablesSane DEF TablesSane
<1>3. CASE UNCHANGED pvars BY <1>1, <1>3 DEF ShadowInv, ShadowHolds, pvars
\* An instruction without a shadow, or one that casts it and does not end the batch.
<1>4. ASSUME NEW r, NEW more \in Int, NEW ip, EndAt(r, more, ip),
             shadow' = FALSE \/ (shadow' = (r.exc = "none") /\ more > 0)
      PROVE  ShadowInv'
  <2>1. /\ left' = (IF r.exc = "none" THEN more ELSE 0)
        /\ status' = (IF r.abort THEN "abort" ELSE IF r.exc = "none" THEN "run" ELSE "fault")
    BY <1>4 DEF EndAt
  <2>2. CASE shadow' = FALSE BY <1>4, <2>1, <2>2 DEF ShadowInv, ShadowHolds
  <2>3. CASE shadow' = (r.exc = "none") /\ more > 0
    <3>1. CASE r.exc = "none"
      <4>1. left' = more /\ status' # "fault" BY <2>1, <3>1
      <4>2. QED BY <1>4, <2>3, <4>1 DEF ShadowInv, ShadowHolds
    <3>2. CASE r.exc # "none"
      <4>1. ~shadow' /\ left' = 0 BY <2>1, <2>3, <3>2
      <4>2. QED BY <4>1 DEF ShadowInv, ShadowHolds
    <3>3. QED BY <3>1, <3>2
  <2>4. QED BY <1>4, <2>2, <2>3
<1>5. left \in Int /\ left - 1 \in Int /\ 0 \in Int /\ Batch \in Int BY <1>1, <1>2 DEF ShadowInv
<1>6. ASSUME NEW sel, MovDs(sel) PROVE ShadowInv'
  BY <1>4, <1>5, <1>6 DEF MovDs, Plain, Finish
<1>7. ASSUME NEW sel, MovSs(sel) PROVE ShadowInv'
  <2>1. left > 0 BY <1>7 DEF MovSs, Executing
  <2>2. QED BY <1>4, <1>5, <1>7, <2>1 DEF MovSs, Plain, Finish
<1>8. ASSUME NEW sel, NEW isjmp, CallFar(sel, isjmp) PROVE ShadowInv'
  BY <1>4, <1>5, <1>8 DEF CallFar, Finish
<1>9. ASSUME NEW no, SoftInt(no) PROVE ShadowInv'
  BY <1>4, <1>5, <1>9 DEF SoftInt, Finish
<1>10. CASE Int3 BY <1>4, <1>5, <1>10 DEF Int3
<1>11. CASE DropError BY <1>1, <1>5, <1>11 DEF DropError, ShadowInv, ShadowHolds
<1>12. CASE Iret
  <2>1. PICK r, more : EndAt(r, more, c.ip) /\ more \in {0, left - 1} /\ shadow' = FALSE
    BY <1>12 DEF Iret, AfterReturn, Finish
  <2>2. QED BY <1>4, <1>5, <2>1
<1>13. ASSUME NEW off, RetFar(off) PROVE ShadowInv'
  BY <1>4, <1>5, <1>13 DEF RetFar, AfterReturn, Finish
<1>14. ASSUME NEW f, ForgeFrame(f) PROVE ShadowInv'
  BY <1>1, <1>5, <1>14 DEF ForgeFrame, ShadowInv, ShadowHolds
<1>15. CASE Sysenter BY <1>4, <1>5, <1>15 DEF Sysenter, Finish
<1>16. CASE Sysexit BY <1>4, <1>5, <1>16 DEF Sysexit, Finish
<1>17. CASE Popf(3)
  <2>1. PICK r, more : EndAt(r, more, c.ip) /\ more \in {0, left - 1} /\ shadow' = FALSE
    BY <1>17 DEF Popf, Plain, Finish
  <2>2. QED BY <1>4, <1>5, <2>1
<1>18. CASE Cli BY <1>4, <1>5, <1>18 DEF Cli, Plain, Finish
<1>19. CASE Sti
  <2>1. PICK r, more : EndAt(r, more, c.ip) /\ shadow' = (r.exc = "none")
                       /\ more = (IF intr \/ left < 2 THEN 2 ELSE left) - 1
    BY <1>19 DEF Sti, Plain, Finish
  <2>2. more \in Int /\ more > 0 BY <1>5, <2>1
  <2>3. QED BY <1>4, <2>1, <2>2
<1>20. CASE Hlt
  <2>1. PICK r : EndAt(r, 0, c.ip) /\ shadow' = FALSE BY <1>20 DEF Hlt, Plain, Finish
  <2>2. QED BY <1>4, <1>5, <2>1
<1>21. CASE Deliver
  <2>1. shadow' = FALSE \/ ~shadow' BY <1>1, <1>21 DEF Deliver, ShadowInv
  <2>2. PICK h : EndAt(h, 0, 0) BY <1>21 DEF Deliver
  <2>3. left' \in Int BY <1>5, <2>2 DEF EndAt
  <2>4. QED BY <2>1, <2>3 DEF ShadowInv, ShadowHolds
<1>22. CASE TakeIrq BY <1>4, <1>5, <1>22 DEF TakeIrq
<1>23. CASE RaiseIrq BY <1>1, <1>23 DEF RaiseIrq, ShadowInv, ShadowHolds
<1>24. CASE StepBegin BY <1>1, <1>2, <1>24 DEF StepBegin, ShadowInv, ShadowHolds
<1>25. QED BY <1>1, <1>3, <1>6, <1>7, <1>8, <1>9, <1>10, <1>11, <1>12, <1>13, <1>14, <1>15, <1>16, <1>17,
           <1>18, <1>19, <1>20, <1>21, <1>22, <1>23, <1>24
  DEF PNext

\* No interrupt is taken between STI or MOV SS and the instruction after it,
\* whatever size of batch cpui386_step was given.
THEOREM ShadowSafe == PSpec => []ShadowHolds
<1>1. PInit => ShadowInv BY DEF PInit, ShadowInv, ShadowHolds
<1>2. ShadowInv => ShadowHolds BY DEF ShadowInv
<1>3. QED BY <1>1, <1>2, ShadowNext, PTL DEF PSpec
=============================================================================
