-------------------------------- MODULE Mmu --------------------------------
(***************************************************************************)
(* Address translation of the i386 interpreter (i386.c): the two-level     *)
(* page walk, the direct-mapped software TLB, the page-fault report and    *)
(* the page held by the instruction fetcher (ifetch.laddr/xaddr).  The     *)
(* guest operating system edits its page tables in memory and flushes as   *)
(* the architecture asks: always when it takes a right or a frame away,    *)
(* not when it only grants (a fault is then taken and retried).            *)
(*                                                                         *)
(* Only the contents of the tables matter here, not those of the pages: a  *)
(* page table entry is a record of its bits and its frame.                 *)
(***************************************************************************)
EXTENDS Integers, FiniteSets

CONSTANTS
    NPages,         \* linear pages
    DirSize,        \* pages under one directory entry (1024)
    TlbSize,        \* tlb_size
    Frame,          \* physical pages
    Space,          \* values of CR3
    PteChoice       \* entries the guest writes

ASSUME MmuAssumption ==
    /\ NPages \in Nat \ {0} /\ DirSize \in Nat \ {0} /\ TlbSize \in Nat \ {0}
    /\ PteChoice \subseteq [p : BOOLEAN, w : BOOLEAN, u : BOOLEAN, frame : Frame, d : BOOLEAN]

Page == 0..(NPages - 1)
Dir(p) == p \div DirSize
Dirs == {Dir(p) : p \in Page}
Slot(p) == p % TlbSize
None == "none"
NoPage == -1
Pde == [p : BOOLEAN, w : BOOLEAN, u : BOOLEAN]
Pte == [p : BOOLEAN, w : BOOLEAN, u : BOOLEAN, frame : Frame, d : BOOLEAN]

VARIABLES
    pde,        \* [Space -> [Dir -> entry]]
    pte,        \* [Space -> [Page -> entry]], d is the dirty bit
    cr3, wp,    \* current table, CR0.WP
    user,       \* cpl > 0
    tlb,        \* [slot -> entry]; page = NoPage when invalid
    fetch,      \* ifetch.laddr and its frame
    wrote       \* ghost: <<space, page>> written since the guest cleaned them

mmuVars == <<pde, pte, cr3, wp, user, tlb, fetch, wrote>>

Empty == [page |-> NoPage, frame |-> None, deny |-> {}]
tlb_empty == [s \in 0..(TlbSize - 1) |-> Empty]
NoFetch == [page |-> NoPage, frame |-> None]

-----------------------------------------------------------------------------
(* Translation.  A translation may refill the TLB, drop an entry and set a *)
(* dirty bit, whatever its outcome; t carries these: [tlb, pte].           *)

\* pte_lookup[wp][(pte >> 1) & 3]: the <<user, write>> accesses denied.
pte_lookup(wpv, r) ==
    LET kernelWrite == <<FALSE, TRUE>>  userRead == <<TRUE, FALSE>>  userWrite == <<TRUE, TRUE>>
    IN  CASE ~r.u /\ ~r.w -> {userRead, userWrite} \cup (IF wpv THEN {kernelWrite} ELSE {})
          [] ~r.u /\ r.w  -> {userRead, userWrite}
          [] r.u /\ ~r.w  -> {userWrite} \cup (IF wpv THEN {kernelWrite} ELSE {})
          [] r.u /\ r.w   -> {}

\* Rights are those of both levels: pte & ((pde & 7) | ~7).
Combined(t, p) ==
    LET e == pde[cr3][Dir(p)]  q == t.pte[cr3][p] IN [w |-> e.w /\ q.w, u |-> e.u /\ q.u]

\* Mutant: the rights of the page table entry alone.
tlb_refill_PteOnly(t, p) ==
    [t.tlb EXCEPT ![Slot(p)] =
        [page |-> p, frame |-> t.pte[cr3][p].frame, deny |-> pte_lookup(wp, t.pte[cr3][p])]]

tlb_refill(t, p) ==
    [t.tlb EXCEPT ![Slot(p)] =
        [page |-> p, frame |-> t.pte[cr3][p].frame, deny |-> pte_lookup(wp, Combined(t, p))]]

Present(t, p) == pde[cr3][Dir(p)].p /\ t.pte[cr3][p].p

Fault(t, p, wr, present) ==
    [ok |-> FALSE, t |-> t, frame |-> None, page |-> p, present |-> present, write |-> wr, user |-> user]

\* The dirty bit, set through the pointer kept in the TLB entry.
Dirtied(tab, p) ==
    LET row == tab[cr3] IN [tab EXCEPT ![cr3] = [row EXCEPT ![p] = [row[p] EXCEPT !.d = TRUE]]]

\* Mutant: a denied access leaves the entry in the TLB.
translate_lpgno_KeepEntry(t, p, wr) ==
    LET hit == t.tlb[Slot(p)].page = p
        r == IF hit THEN t.tlb ELSE tlb_refill(t, p)
        e == r[Slot(p)]
    IN  IF ~hit /\ ~Present(t, p) THEN Fault(t, p, wr, FALSE)
        ELSE IF <<user, wr>> \in e.deny THEN Fault([t EXCEPT !.tlb = r], p, wr, TRUE)
        ELSE [ok |-> TRUE, t |-> [tlb |-> r, pte |-> IF wr THEN Dirtied(t.pte, p) ELSE t.pte],
              frame |-> e.frame, page |-> p, present |-> TRUE, write |-> wr, user |-> user]

\* Mutant: the dirty bit is set when the entry is loaded, not on a hit.
translate_lpgno_DirtyOnRefill(t, p, wr) ==
    LET hit == t.tlb[Slot(p)].page = p
        r == IF hit THEN t.tlb ELSE tlb_refill(t, p)
        e == r[Slot(p)]
    IN  IF ~hit /\ ~Present(t, p) THEN Fault(t, p, wr, FALSE)
        ELSE IF <<user, wr>> \in e.deny
        THEN Fault([t EXCEPT !.tlb = [r EXCEPT ![Slot(p)] = [@ EXCEPT !.page = NoPage]]], p, wr, TRUE)
        ELSE [ok |-> TRUE, t |-> [tlb |-> r, pte |-> IF wr /\ ~hit THEN Dirtied(t.pte, p) ELSE t.pte],
              frame |-> e.frame, page |-> p, present |-> TRUE, write |-> wr, user |-> user]

translate_lpgno(t, p, wr) ==
    LET hit == t.tlb[Slot(p)].page = p
        r == IF hit THEN t.tlb ELSE tlb_refill(t, p)
        e == r[Slot(p)]
    IN  IF ~hit /\ ~Present(t, p) THEN Fault(t, p, wr, FALSE)
        ELSE IF <<user, wr>> \in e.deny
        THEN Fault([t EXCEPT !.tlb = [r EXCEPT ![Slot(p)] = [@ EXCEPT !.page = NoPage]]], p, wr, TRUE)
        ELSE [ok |-> TRUE, t |-> [tlb |-> r, pte |-> IF wr THEN Dirtied(t.pte, p) ELSE t.pte],
              frame |-> e.frame, page |-> p, present |-> TRUE, write |-> wr, user |-> user]

\* Mutant: the second page is translated before the first.
translate_laddr_SecondFirst(t, p, wr, crosses) ==
    LET b == translate_lpgno(t, p + 1, wr)
        a == translate_lpgno(b.t, p, wr)
    IN  IF ~crosses THEN <<translate_lpgno(t, p, wr)>> ELSE IF ~b.ok THEN <<b>> ELSE <<b, a>>

\* An access that runs into the next page needs both translations before it
\* touches memory; the first fault is the one reported.
translate_laddr(t, p, wr, crosses) ==
    LET a == translate_lpgno(t, p, wr)
        b == translate_lpgno(a.t, p + 1, wr)
    IN  IF ~crosses THEN <<a>> ELSE IF ~a.ok THEN <<a>> ELSE <<a, b>>

Now == [tlb |-> tlb, pte |-> pte]

-----------------------------------------------------------------------------
(* The processor.                                                          *)

\* Mutant: the fetcher keeps its page.
tlb_clear_KeepFetch == tlb' = tlb_empty /\ UNCHANGED fetch

tlb_clear == /\ tlb' = tlb_empty /\ fetch' = NoFetch

\* A load or a store, possibly across a page boundary.
Access(p, wr, crosses) ==
    /\ crosses => p + 1 \in Page
    /\ LET rs == translate_laddr(Now, p, wr, crosses)
           done == \A i \in DOMAIN rs : rs[i].ok
           pages == IF crosses THEN {p, p + 1} ELSE {p}
           last == rs[IF 2 \in DOMAIN rs THEN 2 ELSE 1]
       IN  /\ tlb' = last.t.tlb /\ pte' = last.t.pte
           /\ wrote' = IF done /\ wr THEN wrote \cup ({cr3} \X pages) ELSE wrote
    /\ UNCHANGED <<pde, cr3, wp, user, fetch>>

\* Instruction fetch.  Within the held page neither the TLB nor the tables are
\* looked at.  Otherwise a byte's page is translated and held (peek8); a wider
\* fetch is translated as a load and holds nothing, as is one that runs into
\* the next page (fetch16, fetch32).
Fetch(p, wide, crosses) ==
    /\ crosses => wide /\ p + 1 \in Page
    /\ IF fetch.page = p /\ ~crosses
       THEN UNCHANGED <<tlb, fetch>>
       ELSE LET rs == translate_laddr(Now, p, FALSE, crosses)
                last == rs[IF 2 \in DOMAIN rs THEN 2 ELSE 1]
            IN  /\ tlb' = last.t.tlb
                /\ fetch' = IF last.ok /\ ~wide THEN [page |-> p, frame |-> last.frame] ELSE fetch
    /\ UNCHANGED <<pde, pte, cr3, wp, user, wrote>>

MovCr3(s) ==
    /\ ~user /\ cr3' = s /\ tlb_clear
    /\ UNCHANGED <<pde, pte, wp, user, wrote>>

\* Mutant: toggling WP keeps the TLB.
MovCr0_NoFlush ==
    /\ ~user /\ wp' = ~wp
    /\ UNCHANGED <<pde, pte, cr3, user, tlb, fetch, wrote>>

MovCr0 ==
    /\ ~user /\ wp' = ~wp /\ tlb_clear
    /\ UNCHANGED <<pde, pte, cr3, user, wrote>>

\* Interrupts and returns change the privilege level without a flush.
SwitchRing ==
    /\ user' = ~user
    /\ UNCHANGED <<pde, pte, cr3, wp, tlb, fetch, wrote>>

-----------------------------------------------------------------------------
(* The guest operating system.                                             *)

Grants(old, new) ==     \* nothing is taken away
    old.p => new.p /\ new.frame = old.frame /\ (old.w => new.w) /\ (old.u => new.u)

\* An entry is written; INVLPG follows (the code flushes the whole TLB) unless
\* the entry only grants.  Writing an entry clears its dirty bit.
EditPte(p, e, invlpg) ==
    LET old == pte[cr3][p]
    IN  /\ ~user
        /\ invlpg \/ (Grants(old, e) /\ ~old.d)
        /\ pte' = [pte EXCEPT ![cr3] = [@ EXCEPT ![p] = e]]
        /\ wrote' = wrote \ {<<cr3, p>>}
        /\ IF invlpg THEN tlb_clear ELSE UNCHANGED <<tlb, fetch>>
        /\ UNCHANGED <<pde, cr3, wp, user>>

EditPde(d, e, invlpg) ==
    LET old == pde[cr3][d]
    IN  /\ ~user
        /\ invlpg \/ (e.p /\ (old.p => (old.w => e.w) /\ (old.u => e.u)))
        /\ pde' = [pde EXCEPT ![cr3] = [@ EXCEPT ![d] = e]]
        /\ IF invlpg THEN tlb_clear ELSE UNCHANGED <<tlb, fetch>>
        /\ UNCHANGED <<pte, cr3, wp, user, wrote>>

MmuInit ==
    /\ pde = [s \in Space |-> [d \in Dirs |-> [p |-> TRUE, w |-> TRUE, u |-> TRUE]]]
    /\ pte \in [Space -> [Page -> PteChoice]]
    /\ cr3 \in Space /\ wp \in BOOLEAN /\ user = FALSE
    /\ tlb = tlb_empty /\ fetch = NoFetch /\ wrote = {}

MmuNext ==
    \/ \E p \in Page, wr, crosses \in BOOLEAN : Access(p, wr, crosses)
    \/ \E p \in Page, wide, crosses \in BOOLEAN : Fetch(p, wide, crosses)
    \/ \E s \in Space : MovCr3(s)
    \/ MovCr0
    \/ SwitchRing
    \/ \E p \in Page, e \in PteChoice, i \in BOOLEAN : EditPte(p, e, i)
    \/ \E d \in Dirs, e \in Pde, i \in BOOLEAN : EditPde(d, e, i)

MmuSpec == MmuInit /\ [][MmuNext]_mmuVars

-----------------------------------------------------------------------------
(* Properties.                                                             *)

\* The architecture's rule, on the tables as they are: both levels present;
\* user code needs the user bit of both, and a write the write bit of both,
\* except a supervisor's with WP clear.
Permits(p, wr) ==
    LET e == pde[cr3][Dir(p)]  q == pte[cr3][p]
    IN  /\ e.p /\ q.p
        /\ user => e.u /\ q.u
        /\ wr /\ (user \/ wp) => e.w /\ q.w

\* The TLB never grants more than the page tables: an access it lets through is
\* permitted by the tables as they are now, and reaches the frame they name.
GrantSound ==
    \A p \in Page, wr \in BOOLEAN :
        LET r == translate_lpgno(Now, p, wr)
        IN  r.ok => Permits(p, wr) /\ r.frame = pte[cr3][p].frame

\* A page fault is either due to the tables or, after a grant without a flush,
\* taken at most once: the retried access succeeds.
FaultOnce ==
    \A p \in Page, wr \in BOOLEAN :
        LET r == translate_lpgno(Now, p, wr)
        IN  ~r.ok /\ Permits(p, wr) => translate_lpgno(r.t, p, wr).ok

\* A page fault of an access that may cross a page boundary names the first
\* page that denies it, a page that permits it only when its entry was stale, and
\* its error code says whether the page is present; only an access both pages
\* permit is let through.
CrossingReport ==
    \A p \in Page, wr, crosses \in BOOLEAN : (crosses => p + 1 \in Page) =>
        LET rs == translate_laddr(Now, p, wr, crosses)
            last == rs[IF 2 \in DOMAIN rs THEN 2 ELSE 1]
        IN  IF last.ok THEN Permits(p, wr) /\ (crosses => Permits(p + 1, wr))
            ELSE /\ last.page # p => last.page = p + 1 /\ crosses /\ Permits(p, wr)
                 /\ Permits(last.page, wr) => tlb[Slot(last.page)].page = last.page
                 /\ last.present <=> pde[cr3][Dir(last.page)].p /\ pte[cr3][last.page].p

\* A page written since its entry was last written has its dirty bit set,
\* although the bit is set through the pointer kept in the TLB entry.
DirtyTracked == \A sp \in wrote : pte[sp[1]][sp[2]].d

\* The page held by the fetcher is present and in the frame the tables name.
FetchSound ==
    fetch.page # NoPage =>
        /\ pde[cr3][Dir(fetch.page)].p /\ pte[cr3][fetch.page].p
        /\ fetch.frame = pte[cr3][fetch.page].frame

\* TLB and fetch cache agree with the tables, and a written page is marked
\* dirty (translate_lpgno, tlb_clear).
TranslationSound == GrantSound /\ DirtyTracked /\ FetchSound

\* A page fault has a reason, is taken once and names the page that denies a
\* crossing access (translate_laddr).
FaultsReported == FaultOnce /\ CrossingReport
=============================================================================
