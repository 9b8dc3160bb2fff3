----------------------------- MODULE CoreProofs -----------------------------
(***************************************************************************)
(* Proofs about two parts of the interpreter.                              *)
(*                                                                         *)
(* Mmu: the software TLB and the fetcher never grant more than the page    *)
(* tables, and the faults reported are those of the tables, for every      *)
(* number of pages, size of the TLB and contents of the tables.            *)
(*                                                                         *)
(* CpuStack: whatever mixture of pushes, calls, frames and far transfers   *)
(* of either width a guest makes, on a stack of either width, every entry  *)
(* keeps its value and its place; and an instruction that fails, wherever  *)
(* it does, leaves the machine as it was.                                  *)
(***************************************************************************)
EXTENDS Mmu, CpuStack, WellFoundedInduction, TLAPS

Slots == 0..(TlbSize - 1)
TlbEntry == [page : Page \cup {NoPage}, frame : Frame \cup {None}, deny : SUBSET (BOOLEAN \X BOOLEAN)]
Tables == [Space -> [Page -> Pte]]
Walk == [tlb : [Slots -> TlbEntry], pte : Tables]

\* An entry of the TLB stands for a present page: its frame, and no more rights.
Agrees(t, e) ==
    /\ Present(t, e.page)
    /\ e.frame = t.pte[cr3][e.page].frame
    /\ pte_lookup(wp, Combined(t, e.page)) \subseteq e.deny

\* The TLB agrees with the tables.
TlbAgrees(t) ==
    \A s \in Slots : t.tlb[s].page # NoPage => Slot(t.tlb[s].page) = s /\ Agrees(t, t.tlb[s])

\* The tables say the same of every page, but for dirty bits, which are only set.
SameTables(a, b) ==
    \A s \in Space, p \in Page :
        /\ a[s][p].p = b[s][p].p /\ a[s][p].w = b[s][p].w /\ a[s][p].u = b[s][p].u
        /\ a[s][p].frame = b[s][p].frame
        /\ a[s][p].d => b[s][p].d

MmuTypeOK ==
    /\ pde \in [Space -> [Dirs -> Pde]]
    /\ pte \in Tables
    /\ cr3 \in Space /\ wp \in BOOLEAN /\ user \in BOOLEAN
    /\ tlb \in [Slots -> TlbEntry]
    /\ fetch \in [page : Page \cup {NoPage}, frame : Frame \cup {None}]
    /\ wrote \subseteq Space \X Page

MmuInv == MmuTypeOK /\ TlbAgrees(Now) /\ DirtyTracked /\ FetchSound

\* What the tables in t permit.
PermitsIn(t, p, wr) == Present(t, p) /\ <<user, wr>> \notin pte_lookup(wp, Combined(t, p))

-----------------------------------------------------------------------------
(* Operators.                                                              *)

LEMMA SlotRange ==
    ASSUME NEW p \in Page
    PROVE  /\ Slot(p) \in Slots /\ p \in Nat /\ p # NoPage /\ Dir(p) \in Dirs
BY MmuAssumption DEF Slot, Slots, Page, NoPage, Dirs

\* Fewer rights deny more.
LEMMA LookupMonotone ==
    ASSUME NEW wpv \in BOOLEAN, NEW a, NEW b, a.w => b.w, a.u => b.u
    PROVE  pte_lookup(wpv, b) \subseteq pte_lookup(wpv, a)
BY Zenon DEF pte_lookup

LEMMA LookupType ==
    ASSUME NEW wpv \in BOOLEAN, NEW a \in [w : BOOLEAN, u : BOOLEAN]
    PROVE  pte_lookup(wpv, a) \subseteq BOOLEAN \X BOOLEAN
<1> DEFINE x == <<FALSE, TRUE>>  y == <<TRUE, FALSE>>  z == <<TRUE, TRUE>>
<1>1. a.w \in BOOLEAN /\ a.u \in BOOLEAN
  OBVIOUS
<1>2. x \in BOOLEAN \X BOOLEAN /\ y \in BOOLEAN \X BOOLEAN /\ z \in BOOLEAN \X BOOLEAN
  OBVIOUS
<1>3. /\ ~a.u /\ ~a.w => pte_lookup(wpv, a) = {y, z} \cup (IF wpv THEN {x} ELSE {})
      /\ ~a.u /\ a.w => pte_lookup(wpv, a) = {y, z}
      /\ a.u /\ ~a.w => pte_lookup(wpv, a) = {z} \cup (IF wpv THEN {x} ELSE {})
      /\ a.u /\ a.w => pte_lookup(wpv, a) = {}
  BY <1>1 DEF pte_lookup
<1> HIDE DEF x, y, z
<1> QED BY <1>1, <1>2, <1>3

\* pte_lookup denies exactly what the rule of the architecture does not permit.
LEMMA LookupRule ==
    ASSUME NEW wpv \in BOOLEAN, NEW us \in BOOLEAN, NEW wr \in BOOLEAN,
           NEW a \in [w : BOOLEAN, u : BOOLEAN]
    PROVE  <<us, wr>> \notin pte_lookup(wpv, a) <=> (us => a.u) /\ (wr /\ (us \/ wpv) => a.w)
<1>1. a.w \in BOOLEAN /\ a.u \in BOOLEAN
  OBVIOUS
<1> QED BY <1>1 DEF pte_lookup

LEMMA CombinedType ==
    ASSUME MmuTypeOK, NEW t \in Walk, NEW p \in Page
    PROVE  /\ Combined(t, p) \in [w : BOOLEAN, u : BOOLEAN]
           /\ t.pte[cr3] \in [Page -> Pte] /\ t.pte[cr3][p] \in Pte
           /\ pde[cr3][Dir(p)] \in Pde
<1>1. t.pte[cr3][p] \in Pte /\ t.pte[cr3] \in [Page -> Pte]
  BY DEF MmuTypeOK, Walk, Tables
<1>2. pde[cr3][Dir(p)] \in Pde
  BY SlotRange DEF MmuTypeOK
<1> QED BY <1>1, <1>2 DEF Combined

LEMMA PermitsRule ==
    ASSUME MmuTypeOK, NEW p \in Page, NEW wr \in BOOLEAN
    PROVE  Permits(p, wr) <=> PermitsIn(Now, p, wr)
<1>1. Now \in Walk
  BY DEF Now, Walk, MmuTypeOK
<1>2. Combined(Now, p) \in [w : BOOLEAN, u : BOOLEAN] /\ pte[cr3][p] \in Pte /\ pde[cr3][Dir(p)] \in Pde
  BY <1>1, CombinedType DEF Now
<1>3. /\ Combined(Now, p).w = (pde[cr3][Dir(p)].w /\ pte[cr3][p].w)
      /\ Combined(Now, p).u = (pde[cr3][Dir(p)].u /\ pte[cr3][p].u)
  BY <1>2 DEF Combined, Now
<1>4. <<user, wr>> \notin pte_lookup(wp, Combined(Now, p))
        <=> (user => Combined(Now, p).u) /\ (wr /\ (user \/ wp) => Combined(Now, p).w)
  BY <1>2, LookupRule DEF MmuTypeOK
<1>5. Present(Now, p) <=> pde[cr3][Dir(p)].p /\ pte[cr3][p].p
  BY DEF Present, Now
<1> QED BY <1>2, <1>3, <1>4, <1>5, Zenon DEF Permits, PermitsIn

\* Tables that differ in dirty bits only give the same rights.
LEMMA SameRights ==
    ASSUME MmuTypeOK, NEW a \in Walk, NEW b \in Walk, SameTables(a.pte, b.pte), NEW p \in Page
    PROVE  /\ Combined(a, p) = Combined(b, p) /\ Present(a, p) = Present(b, p)
           /\ a.pte[cr3][p].frame = b.pte[cr3][p].frame
           /\ \A wr \in BOOLEAN : PermitsIn(a, p, wr) = PermitsIn(b, p, wr)
<1>1. cr3 \in Space
  BY DEF MmuTypeOK
<1>2. /\ a.pte[cr3][p].p = b.pte[cr3][p].p /\ a.pte[cr3][p].w = b.pte[cr3][p].w
      /\ a.pte[cr3][p].u = b.pte[cr3][p].u /\ a.pte[cr3][p].frame = b.pte[cr3][p].frame
  BY <1>1 DEF SameTables
<1>3. Combined(a, p) = Combined(b, p) /\ Present(a, p) = Present(b, p)
  BY <1>2, Zenon DEF Combined, Present
<1> QED BY <1>2, <1>3 DEF PermitsIn

\* Setting a dirty bit.
LEMMA DirtiedTables ==
    ASSUME NEW tab \in Tables, cr3 \in Space, NEW p \in Page
    PROVE  /\ Dirtied(tab, p) \in Tables
           /\ SameTables(tab, Dirtied(tab, p))
           /\ Dirtied(tab, p)[cr3][p].d
<1> DEFINE row == [tab[cr3] EXCEPT ![p] = [tab[cr3][p] EXCEPT !.d = TRUE]]
           new == [tab[cr3][p] EXCEPT !.d = TRUE]
<1>1. tab[cr3] \in [Page -> Pte] /\ tab[cr3][p] \in Pte
  BY DEF Tables
<1>2. new \in Pte /\ new.d /\ new.p = tab[cr3][p].p /\ new.w = tab[cr3][p].w /\ new.u = tab[cr3][p].u
      /\ new.frame = tab[cr3][p].frame
  BY <1>1 DEF Pte
<1>3. row = [tab[cr3] EXCEPT ![p] = new]
  BY <1>1
<1>4. Dirtied(tab, p) = [tab EXCEPT ![cr3] = row]
  BY Zenon DEF Dirtied
<1> HIDE DEF new
<1>5. row \in [Page -> Pte] /\ row[p] = new /\ \A q \in Page : q # p => row[q] = tab[cr3][q]
  BY <1>1, <1>2, <1>3
<1> HIDE DEF row
<1>6. /\ Dirtied(tab, p) \in Tables
      /\ Dirtied(tab, p)[cr3] = row
      /\ \A s \in Space : s # cr3 => Dirtied(tab, p)[s] = tab[s]
  BY <1>4, <1>5 DEF Tables
<1>7. ASSUME NEW s \in Space, NEW q \in Page
      PROVE  \/ Dirtied(tab, p)[s][q] = tab[s][q]
             \/ s = cr3 /\ q = p /\ Dirtied(tab, p)[s][q] = new
  BY <1>5, <1>6
<1>8. SameTables(tab, Dirtied(tab, p))
  BY <1>2, <1>7 DEF SameTables
<1> QED BY <1>2, <1>5, <1>6, <1>8

-----------------------------------------------------------------------------
(* One translation.                                                        *)

Hit(t, p) == t.tlb[Slot(p)].page = p
Filled(t, p) == IF Hit(t, p) THEN t.tlb ELSE tlb_refill(t, p)
Denied(t, p, wr) == <<user, wr>> \in Filled(t, p)[Slot(p)].deny

\* The three outcomes r of a translation: a page not present, a refusal which
\* drops the entry, and a frame.
Missing(t, p, r) ==
    /\ ~Hit(t, p) /\ ~Present(t, p)
    /\ r.ok = FALSE /\ r.t = t /\ r.page = p /\ r.present = FALSE

Refused(t, p, wr, r) ==
    /\ Hit(t, p) \/ Present(t, p)
    /\ Denied(t, p, wr)
    /\ r.ok = FALSE /\ r.page = p /\ r.present = TRUE
    /\ r.t = [tlb |-> [Filled(t, p) EXCEPT ![Slot(p)] = [@ EXCEPT !.page = NoPage]], pte |-> t.pte]

Granted(t, p, wr, r) ==
    /\ Hit(t, p) \/ Present(t, p)
    /\ ~Denied(t, p, wr)
    /\ r.ok = TRUE /\ r.page = p /\ r.present = TRUE
    /\ r.frame = Filled(t, p)[Slot(p)].frame
    /\ r.t = [tlb |-> Filled(t, p), pte |-> IF wr THEN Dirtied(t.pte, p) ELSE t.pte]

LEMMA Outcomes ==
    ASSUME NEW t \in Walk, NEW p \in Page, NEW wr \in BOOLEAN, NEW r, r = translate_lpgno(t, p, wr)
    PROVE  Missing(t, p, r) \/ Refused(t, p, wr, r) \/ Granted(t, p, wr, r)
<1> DEFINE drop == [Filled(t, p) EXCEPT ![Slot(p)] = [@ EXCEPT !.page = NoPage]]
<1>1. [t EXCEPT !.tlb = drop] = [tlb |-> drop, pte |-> t.pte]
  <2> HIDE DEF drop
  <2> QED BY DEF Walk
<1>2. r = IF ~Hit(t, p) /\ ~Present(t, p) THEN Fault(t, p, wr, FALSE)
          ELSE IF Denied(t, p, wr) THEN Fault([t EXCEPT !.tlb = drop], p, wr, TRUE)
          ELSE [ok |-> TRUE,
                t |-> [tlb |-> Filled(t, p), pte |-> IF wr THEN Dirtied(t.pte, p) ELSE t.pte],
                frame |-> Filled(t, p)[Slot(p)].frame,
                page |-> p, present |-> TRUE, write |-> wr, user |-> user]
  BY Zenon DEF translate_lpgno, Hit, Filled, Denied
<1> HIDE DEF drop
<1>3. CASE ~Hit(t, p) /\ ~Present(t, p)
  BY <1>2, <1>3 DEF Fault, Missing
<1>4. CASE (Hit(t, p) \/ Present(t, p)) /\ Denied(t, p, wr)
  <2>1. r = Fault([tlb |-> drop, pte |-> t.pte], p, wr, TRUE)
    BY <1>1, <1>2, <1>4
  <2> QED BY <1>4, <2>1 DEF Fault, drop, Refused
<1>5. CASE (Hit(t, p) \/ Present(t, p)) /\ ~Denied(t, p, wr)
  <2> DEFINE n == [tlb |-> Filled(t, p), pte |-> IF wr THEN Dirtied(t.pte, p) ELSE t.pte]
             f == Filled(t, p)[Slot(p)].frame
  <2>1. r = [ok |-> TRUE, t |-> n, frame |-> f, page |-> p, present |-> TRUE, write |-> wr, user |-> user]
    BY <1>2, <1>5, Zenon
  <2> HIDE DEF n, f
  <2>2. r.ok = TRUE /\ r.t = n /\ r.frame = f /\ r.page = p /\ r.present = TRUE
    BY <2>1
  <2> QED BY <1>5, <2>2, Zenon DEF n, f, Granted
<1> QED BY <1>3, <1>4, <1>5

\* The TLB with the entry of p loaded.
LEMMA FilledEntry ==
    ASSUME MmuTypeOK, NEW t \in Walk, TlbAgrees(t), NEW p \in Page, Hit(t, p) \/ Present(t, p)
    PROVE  /\ Filled(t, p) \in [Slots -> TlbEntry]
           /\ Present(t, p)
           /\ Filled(t, p)[Slot(p)].page = p
           /\ Agrees(t, Filled(t, p)[Slot(p)])
           /\ \A s \in Slots : s # Slot(p) => Filled(t, p)[s] = t.tlb[s]
<1>1. Slot(p) \in Slots /\ p # NoPage
  BY SlotRange
<1>2. CASE Hit(t, p)
  <2>1. Filled(t, p) = t.tlb /\ t.tlb[Slot(p)].page = p
    BY <1>2 DEF Filled, Hit
  <2>2. Agrees(t, t.tlb[Slot(p)])
    BY <1>1, <2>1 DEF TlbAgrees
  <2> QED BY <2>1, <2>2 DEF Walk, Agrees
<1>3. CASE ~Hit(t, p)
  <2> DEFINE e == [page |-> p, frame |-> t.pte[cr3][p].frame, deny |-> pte_lookup(wp, Combined(t, p))]
  <2>1. Filled(t, p) = [t.tlb EXCEPT ![Slot(p)] = e]
    BY <1>3 DEF Filled, tlb_refill
  <2>2. t.pte[cr3][p].frame \in Frame /\ pte_lookup(wp, Combined(t, p)) \subseteq BOOLEAN \X BOOLEAN
    BY CombinedType, LookupType DEF MmuTypeOK, Pte
  <2>3. e \in TlbEntry
    BY <2>2 DEF TlbEntry
  <2>4. e.page = p /\ e.frame = t.pte[cr3][p].frame /\ e.deny = pte_lookup(wp, Combined(t, p))
    OBVIOUS
  <2> HIDE DEF e
  <2>5. /\ Filled(t, p) \in [Slots -> TlbEntry] /\ Filled(t, p)[Slot(p)] = e
        /\ \A s \in Slots : s # Slot(p) => Filled(t, p)[s] = t.tlb[s]
    BY <1>1, <2>1, <2>3 DEF Walk
  <2>6. Present(t, p)
    BY <1>3
  <2>7. Agrees(t, e)
    BY <2>4, <2>6 DEF Agrees
  <2> QED BY <2>4, <2>5, <2>6, <2>7
<1> QED BY <1>2, <1>3

\* A TLB that agrees with one set of tables agrees with one that differs from it
\* in dirty bits only.
LEMMA AgreesSame ==
    ASSUME MmuTypeOK, NEW a \in Walk, NEW b \in Walk, SameTables(a.pte, b.pte),
           NEW e \in TlbEntry, e.page # NoPage, Agrees(a, e)
    PROVE  Agrees(b, e)
<1>1. e.page \in Page
  BY DEF TlbEntry
<1> QED BY <1>1, SameRights DEF Agrees

\* What a translation with result r leaves behind.
Kept(t, p, wr, r) ==
    /\ r.t \in Walk /\ TlbAgrees(r.t) /\ SameTables(t.pte, r.t.pte)
    /\ r.ok \in BOOLEAN /\ r.page = p
    /\ r.ok /\ wr => r.t.pte[cr3][p].d
    /\ \A s \in Slots : \/ r.t.tlb[s] = t.tlb[s]
                        \/ s = Slot(p) /\ r.t.tlb[s].page \in {p, NoPage}
    /\ ~wr => r.t.pte = t.pte

LEMMA TranslateKeeps ==
    ASSUME MmuTypeOK, NEW t \in Walk, TlbAgrees(t), NEW p \in Page, NEW wr \in BOOLEAN
    PROVE  Kept(t, p, wr, translate_lpgno(t, p, wr))
<1> SUFFICES ASSUME NEW r, r = translate_lpgno(t, p, wr) PROVE Kept(t, p, wr, r)
  OBVIOUS
<1> USE DEF Kept
<1>1. /\ Slot(p) \in Slots /\ p # NoPage /\ cr3 \in Space
      /\ t.pte \in Tables /\ t.tlb \in [Slots -> TlbEntry] /\ SameTables(t.pte, t.pte)
  BY SlotRange DEF MmuTypeOK, Walk, SameTables
<1>2. CASE Missing(t, p, r)
  BY <1>1, <1>2 DEF Missing
<1>3. CASE Refused(t, p, wr, r)
  <2> DEFINE e == [Filled(t, p)[Slot(p)] EXCEPT !.page = NoPage]
  <2>1. /\ Filled(t, p) \in [Slots -> TlbEntry]
        /\ \A s \in Slots : s # Slot(p) => Filled(t, p)[s] = t.tlb[s]
    BY <1>3, FilledEntry DEF Refused
  <2>2. e \in TlbEntry /\ e.page = NoPage
    BY <1>1, <2>1 DEF TlbEntry
  <2>3. r.t = [tlb |-> [Filled(t, p) EXCEPT ![Slot(p)] = e], pte |-> t.pte]
    BY <1>3 DEF Refused
  <2> HIDE DEF e
  <2>4. /\ r.t \in Walk /\ r.t.pte = t.pte /\ r.t.tlb[Slot(p)] = e
        /\ \A s \in Slots : s # Slot(p) => r.t.tlb[s] = t.tlb[s]
    BY <1>1, <2>1, <2>2, <2>3 DEF Walk
  <2>5. TlbAgrees(r.t)
    BY <2>2, <2>4 DEF TlbAgrees, Agrees, Present, Combined
  <2> QED BY <1>1, <1>3, <2>2, <2>4, <2>5 DEF Refused
<1>4. CASE Granted(t, p, wr, r)
  <2> DEFINE tab == IF wr THEN Dirtied(t.pte, p) ELSE t.pte
  <2>1. tab \in Tables /\ SameTables(t.pte, tab) /\ (wr => tab[cr3][p].d) /\ (~wr => tab = t.pte)
    BY <1>1, DirtiedTables
  <2> HIDE DEF tab
  <2>2. /\ Filled(t, p) \in [Slots -> TlbEntry]
        /\ Filled(t, p)[Slot(p)].page = p
        /\ Agrees(t, Filled(t, p)[Slot(p)])
        /\ \A s \in Slots : s # Slot(p) => Filled(t, p)[s] = t.tlb[s]
    BY <1>4, FilledEntry DEF Granted
  <2>3. r.t \in Walk /\ r.t.tlb = Filled(t, p) /\ r.t.pte = tab
    BY <1>4, <2>1, <2>2 DEF Walk, tab, Granted
  <2>4. ASSUME NEW s \in Slots, r.t.tlb[s].page # NoPage
        PROVE  Slot(r.t.tlb[s].page) = s /\ Agrees(r.t, r.t.tlb[s])
    <3>1. r.t.tlb[s] \in TlbEntry
      BY <2>2, <2>3
    <3>2. Slot(r.t.tlb[s].page) = s /\ Agrees(t, r.t.tlb[s])
      BY <2>2, <2>3, <2>4 DEF TlbAgrees
    <3> QED BY <2>1, <2>3, <2>4, <3>1, <3>2, AgreesSame
  <2>5. TlbAgrees(r.t)
    BY <2>4 DEF TlbAgrees
  <2> QED BY <1>4, <2>1, <2>2, <2>3, <2>5 DEF Granted
<1> QED BY <1>2, <1>3, <1>4, Outcomes

\* What a translation answers.
Answered(t, p, wr, r) ==
    /\ r.ok => PermitsIn(t, p, wr) /\ r.frame = t.pte[cr3][p].frame
    /\ ~r.ok => /\ PermitsIn(t, p, wr) => Hit(t, p) /\ ~Hit(r.t, p)
                /\ r.present = Present(t, p)

LEMMA TranslateAnswers ==
    ASSUME MmuTypeOK, NEW t \in Walk, TlbAgrees(t), NEW p \in Page, NEW wr \in BOOLEAN
    PROVE  Answered(t, p, wr, translate_lpgno(t, p, wr))
<1> SUFFICES ASSUME NEW r, r = translate_lpgno(t, p, wr) PROVE Answered(t, p, wr, r)
  OBVIOUS
<1> USE DEF Answered
<1>1. CASE Missing(t, p, r)
  <2>1. Present(t, p) = FALSE
    BY <1>1, CombinedType DEF Missing, Present, Pte, Pde
  <2> QED BY <1>1, <2>1 DEF Missing, PermitsIn
<1>2. CASE Refused(t, p, wr, r)
  <2>1. Present(t, p) /\ Filled(t, p) \in [Slots -> TlbEntry]
    BY <1>2, FilledEntry DEF Refused
  <2>2. Present(t, p) = TRUE
    BY <2>1, CombinedType DEF Present, Pte, Pde
  <2>3. ~Hit(r.t, p)
    <3>1. r.t.tlb[Slot(p)] = [Filled(t, p)[Slot(p)] EXCEPT !.page = NoPage]
      BY <1>2, <2>1, SlotRange DEF Refused
    <3>2. Filled(t, p)[Slot(p)] \in TlbEntry
      BY <2>1, SlotRange
    <3> QED BY <3>1, <3>2, SlotRange DEF Hit, TlbEntry
  <2>4. PermitsIn(t, p, wr) => Hit(t, p)
    <3>1. SUFFICES ASSUME ~Hit(t, p) PROVE <<user, wr>> \in pte_lookup(wp, Combined(t, p))
      BY DEF PermitsIn
    <3>2. Filled(t, p) = [t.tlb EXCEPT ![Slot(p)] =
              [page |-> p, frame |-> t.pte[cr3][p].frame, deny |-> pte_lookup(wp, Combined(t, p))]]
      BY <3>1 DEF Filled, tlb_refill
    <3>3. Filled(t, p)[Slot(p)].deny = pte_lookup(wp, Combined(t, p))
      BY <3>2, SlotRange DEF Walk
    <3> QED BY <1>2, <3>3 DEF Denied, Refused
  <2> QED BY <1>2, <2>2, <2>3, <2>4 DEF Refused
<1>3. CASE Granted(t, p, wr, r)
  <2>1. /\ Filled(t, p)[Slot(p)].page = p /\ Agrees(t, Filled(t, p)[Slot(p)]) /\ Present(t, p)
    BY <1>3, FilledEntry DEF Granted
  <2>2. /\ Filled(t, p)[Slot(p)].frame = t.pte[cr3][p].frame
        /\ pte_lookup(wp, Combined(t, p)) \subseteq Filled(t, p)[Slot(p)].deny
    BY <2>1 DEF Agrees
  <2> QED BY <1>3, <2>1, <2>2 DEF Denied, Granted, PermitsIn
<1> QED BY <1>1, <1>2, <1>3, Outcomes

-----------------------------------------------------------------------------
(* An access of one page or two.                                           *)

Last(rs) == rs[IF 2 \in DOMAIN rs THEN 2 ELSE 1]
Done(rs) == \A i \in DOMAIN rs : rs[i].ok

\* rs is the result a alone, or that and b.
Pages(rs, a, b, crosses) ==
    /\ ~crosses \/ ~a.ok => Last(rs) = a /\ (Done(rs) <=> a.ok)
    /\ crosses /\ a.ok => Last(rs) = b /\ (Done(rs) <=> b.ok)

LEMMA Walked ==
    ASSUME NEW t, NEW p, NEW wr, NEW crosses \in BOOLEAN,
           NEW a, a = translate_lpgno(t, p, wr), a.ok \in BOOLEAN,
           NEW b, b = translate_lpgno(a.t, p + 1, wr),
           NEW rs, rs = translate_laddr(t, p, wr, crosses)
    PROVE  Pages(rs, a, b, crosses)
<1> USE DEF Pages
<1>1. rs = IF ~crosses THEN <<a>> ELSE IF ~a.ok THEN <<a>> ELSE <<a, b>>
  BY Zenon DEF translate_laddr
<1>2. CASE ~crosses \/ ~a.ok
  <2>1. rs = <<a>>
    BY <1>1, <1>2
  <2>2. DOMAIN rs = {1} /\ rs[1] = a
    BY <2>1
  <2>3. 2 \notin DOMAIN rs
    BY <2>2
  <2> QED BY <1>2, <2>2, <2>3 DEF Last, Done
<1>3. CASE crosses /\ a.ok
  <2>1. rs = <<a, b>>
    BY <1>1, <1>3
  <2>2. DOMAIN rs = {1, 2} /\ rs[1] = a /\ rs[2] = b
    BY <2>1
  <2> QED BY <1>3, <2>2 DEF Last, Done
<1> QED BY <1>2, <1>3

LEMMA SameTransitive ==
    ASSUME NEW a, NEW b, NEW c, SameTables(a, b), SameTables(b, c)
    PROVE  SameTables(a, c)
BY DEF SameTables

LEMMA NowWalk == MmuTypeOK => Now \in Walk
BY DEF MmuTypeOK, Now, Walk

\* What an access with the results rs leaves behind.
AccessLeaves(rs, p, wr, crosses) ==
    /\ Last(rs).t \in Walk /\ TlbAgrees(Last(rs).t) /\ SameTables(pte, Last(rs).t.pte)
    /\ Done(rs) /\ wr => Last(rs).t.pte[cr3][p].d
    /\ Done(rs) /\ wr /\ crosses => Last(rs).t.pte[cr3][p + 1].d
    /\ ~wr => Last(rs).t.pte = pte
    /\ Last(rs).ok /\ ~crosses => PermitsIn(Now, p, wr) /\ Last(rs).frame = pte[cr3][p].frame

LEMMA AccessKeeps ==
    ASSUME MmuTypeOK, TlbAgrees(Now), NEW p \in Page, NEW wr \in BOOLEAN, NEW crosses \in BOOLEAN,
           crosses => p + 1 \in Page,
           NEW rs, rs = translate_laddr(Now, p, wr, crosses)
    PROVE  AccessLeaves(rs, p, wr, crosses)
<1> USE DEF AccessLeaves
<1>a. PICK a : a = translate_lpgno(Now, p, wr)
  OBVIOUS
<1>b. PICK b : b = translate_lpgno(a.t, p + 1, wr)
  OBVIOUS
<1>0. Now \in Walk /\ Now.pte = pte
  BY NowWalk DEF Now
<1>1. Kept(Now, p, wr, a) /\ Answered(Now, p, wr, a)
  BY <1>a, <1>0, TranslateKeeps, TranslateAnswers, Zenon
<1>2. Pages(rs, a, b, crosses)
  <2>1. a.ok \in BOOLEAN
    BY <1>1 DEF Kept
  <2> QED BY <1>a, <1>b, <2>1, Walked, Zenon
<1>3. CASE ~crosses \/ ~a.ok
  <2>1. Last(rs) = a /\ (Done(rs) <=> a.ok)
    BY <1>2, <1>3 DEF Pages
  <2> QED BY <1>0, <1>1, <1>3, <2>1 DEF Kept, Answered
<1>4. CASE crosses /\ a.ok
  <2>1. Last(rs) = b /\ (Done(rs) <=> b.ok)
    BY <1>2, <1>4 DEF Pages
  <2>2. Kept(a.t, p + 1, wr, b)
    <3>1. a.t \in Walk /\ TlbAgrees(a.t) /\ p + 1 \in Page
      BY <1>1, <1>4 DEF Kept
    <3> QED BY <1>b, <3>1, TranslateKeeps, Zenon
  <2>3. SameTables(pte, b.t.pte)
    BY <1>0, <1>1, <2>2, SameTransitive DEF Kept
  <2>4. wr => b.t.pte[cr3][p].d
    BY <1>1, <1>4, <2>2 DEF Kept, SameTables, MmuTypeOK
  <2> QED BY <1>0, <1>1, <1>4, <2>1, <2>2, <2>3, <2>4 DEF Kept
<1>5. a.ok \in BOOLEAN
  BY <1>1 DEF Kept
<1> QED BY <1>3, <1>4, <1>5

-----------------------------------------------------------------------------
(* The invariant.                                                          *)

\* A step that flushes.
LEMMA Flushed ==
    ASSUME tlb' = tlb_empty, fetch' = NoFetch
    PROVE  /\ TlbAgrees(Now)' /\ FetchSound'
           /\ tlb' \in [Slots -> TlbEntry]
           /\ fetch' \in [page : Page \cup {NoPage}, frame : Frame \cup {None}]
<1>1. Empty \in TlbEntry /\ Empty.page = NoPage
  BY DEF Empty, TlbEntry
<1>2. tlb' \in [Slots -> TlbEntry] /\ \A s \in Slots : tlb'[s].page = NoPage
  BY <1>1 DEF tlb_empty, Slots
<1>3. fetch'.page = NoPage /\ fetch' \in [page : Page \cup {NoPage}, frame : Frame \cup {None}]
  BY DEF NoFetch
<1> QED BY <1>2, <1>3 DEF TlbAgrees, Now, FetchSound

\* A step that keeps the TLB and the fetcher's page, and takes nothing away.
LEMMA OnlyGranted ==
    ASSUME MmuInv, UNCHANGED <<cr3, wp, tlb, fetch>>,
           \A p \in Page : Present(Now, p) =>
               /\ Present(Now, p)' /\ pte'[cr3][p].frame = pte[cr3][p].frame
               /\ Combined(Now, p).w => Combined(Now, p)'.w
               /\ Combined(Now, p).u => Combined(Now, p)'.u
    PROVE  TlbAgrees(Now)' /\ FetchSound'
<1>1. ASSUME NEW s \in Slots, tlb[s].page # NoPage
      PROVE  Slot(tlb[s].page) = s /\ Agrees(Now, tlb[s])'
  <2> DEFINE p == tlb[s].page
  <2>1. Slot(p) = s /\ Agrees(Now, tlb[s])
    BY <1>1 DEF MmuInv, TlbAgrees, Now
  <2>2. p \in Page
    BY <1>1 DEF MmuInv, MmuTypeOK, TlbEntry
  <2>3. Present(Now, p) /\ tlb[s].frame = pte[cr3][p].frame /\ pte_lookup(wp, Combined(Now, p)) \subseteq tlb[s].deny
    BY <2>1 DEF Agrees, Now
  <2>4. /\ Present(Now, p)' /\ pte'[cr3][p].frame = pte[cr3][p].frame
        /\ Combined(Now, p).w => Combined(Now, p)'.w
        /\ Combined(Now, p).u => Combined(Now, p)'.u
    BY <2>2, <2>3
  <2>5. pte_lookup(wp, Combined(Now, p)') \subseteq pte_lookup(wp, Combined(Now, p))
    BY <2>4, LookupMonotone DEF MmuInv, MmuTypeOK
  <2>6. pte_lookup(wp, Combined(Now, p))' = pte_lookup(wp, Combined(Now, p)')
    BY DEF pte_lookup
  <2> QED BY <2>1, <2>3, <2>4, <2>5, <2>6 DEF Agrees, Now
<1>2. TlbAgrees(Now)'
  BY <1>1 DEF TlbAgrees, Now
<1>3. FetchSound'
  <2>1. SUFFICES ASSUME fetch.page # NoPage
                 PROVE  /\ pde'[cr3][Dir(fetch.page)].p /\ pte'[cr3][fetch.page].p
                        /\ fetch.frame = pte'[cr3][fetch.page].frame
    BY DEF FetchSound
  <2>2. fetch.page \in Page
    BY <2>1 DEF MmuInv, MmuTypeOK
  <2>3. Present(Now, fetch.page) /\ fetch.frame = pte[cr3][fetch.page].frame
    BY <2>1 DEF MmuInv, FetchSound, Present, Now
  <2> QED BY <2>2, <2>3 DEF Present, Now
<1> QED BY <1>2, <1>3

LEMMA MmuInitInv == MmuInit => MmuInv
<1> SUFFICES ASSUME MmuInit PROVE MmuInv
  OBVIOUS
<1>1. /\ cr3 \in Space /\ wp \in BOOLEAN /\ user \in BOOLEAN /\ wrote = {}
      /\ tlb = tlb_empty /\ fetch = NoFetch
  BY DEF MmuInit
<1>2. pde \in [Space -> [Dirs -> Pde]]
  BY DEF MmuInit, Pde
<1>3. pte \in Tables
  BY MmuAssumption DEF MmuInit, Tables, Pte
<1>4. /\ Empty \in TlbEntry /\ Empty.page = NoPage
      /\ NoFetch \in [page : Page \cup {NoPage}, frame : Frame \cup {None}] /\ NoFetch.page = NoPage
  BY DEF Empty, TlbEntry, NoFetch
<1>5. tlb \in [Slots -> TlbEntry] /\ \A s \in Slots : tlb[s].page = NoPage
  BY <1>1, <1>4 DEF tlb_empty, Slots
<1> QED BY <1>1, <1>2, <1>3, <1>4, <1>5 DEF MmuInv, MmuTypeOK, TlbAgrees, Now, DirtyTracked, FetchSound

\* A step that keeps the registers and leaves the tables and the TLB of t.
LEMMA Adopted ==
    ASSUME MmuInv, NEW t \in Walk, TlbAgrees(t), SameTables(pte, t.pte),
           UNCHANGED <<pde, cr3, wp>>, tlb' = t.tlb, pte' = t.pte
    PROVE  /\ TlbAgrees(Now)' /\ tlb' \in [Slots -> TlbEntry] /\ pte' \in Tables
           /\ UNCHANGED fetch => FetchSound'
<1>1. tlb' \in [Slots -> TlbEntry] /\ pte' \in Tables
  BY DEF Walk
<1>2. ASSUME NEW s \in Slots, tlb'[s].page # NoPage
      PROVE  Slot(tlb'[s].page) = s /\ Agrees(Now, tlb[s])'
  <2>1. Slot(t.tlb[s].page) = s /\ Agrees(t, t.tlb[s])
    BY <1>2 DEF TlbAgrees
  <2>2. Combined(Now, tlb[s].page)' = Combined(t, t.tlb[s].page) /\ Present(Now, tlb[s].page)' = Present(t, t.tlb[s].page)
    BY DEF Combined, Present, Now
  <2>3. pte_lookup(wp, Combined(Now, tlb[s].page))' = pte_lookup(wp, Combined(t, t.tlb[s].page))
    BY <2>2, Zenon DEF pte_lookup
  <2>4. /\ Present(t, t.tlb[s].page) /\ t.tlb[s].frame = t.pte[cr3][t.tlb[s].page].frame
        /\ pte_lookup(wp, Combined(t, t.tlb[s].page)) \subseteq t.tlb[s].deny
    BY <2>1 DEF Agrees
  <2> QED BY <2>1, <2>2, <2>3, <2>4 DEF Agrees, Now
<1>3. TlbAgrees(Now)'
  BY <1>2 DEF TlbAgrees, Now
<1>4. ASSUME UNCHANGED fetch
      PROVE  FetchSound'
  <2>1. SUFFICES ASSUME fetch.page # NoPage
                 PROVE  /\ pde[cr3][Dir(fetch.page)].p /\ t.pte[cr3][fetch.page].p
                        /\ fetch.frame = t.pte[cr3][fetch.page].frame
    BY <1>4 DEF FetchSound
  <2>2. fetch.page \in Page /\ cr3 \in Space
    BY <2>1 DEF MmuInv, MmuTypeOK
  <2> QED BY <2>1, <2>2 DEF MmuInv, FetchSound, SameTables
<1> QED BY <1>1, <1>3, <1>4

LEMMA AccessInv ==
    ASSUME MmuInv, NEW p \in Page, NEW wr \in BOOLEAN, NEW crosses \in BOOLEAN, Access(p, wr, crosses)
    PROVE  MmuInv'
<1>a. PICK rs : rs = translate_laddr(Now, p, wr, crosses)
  OBVIOUS
<1> DEFINE n == Last(rs).t
<1>1. /\ crosses => p + 1 \in Page
      /\ tlb' = n.tlb /\ pte' = n.pte
      /\ wrote' = IF Done(rs) /\ wr THEN wrote \cup ({cr3} \X (IF crosses THEN {p, p + 1} ELSE {p})) ELSE wrote
      /\ UNCHANGED <<pde, cr3, wp, user, fetch>>
  BY <1>a, Zenon DEF Access, Last, Done
<1>2. /\ n \in Walk /\ TlbAgrees(n) /\ SameTables(pte, n.pte)
      /\ Done(rs) /\ wr => n.pte[cr3][p].d /\ (crosses => n.pte[cr3][p + 1].d)
  <2>1. MmuTypeOK /\ TlbAgrees(Now)
    BY DEF MmuInv
  <2>2. crosses => p + 1 \in Page
    BY <1>1
  <2>3. AccessLeaves(rs, p, wr, crosses)
    BY <1>a, <2>1, <2>2, AccessKeeps, Zenon
  <2>4. n \in Walk /\ TlbAgrees(n) /\ SameTables(pte, n.pte)
    BY <2>3 DEF AccessLeaves
  <2>5. ASSUME Done(rs), wr
        PROVE  n.pte[cr3][p].d /\ (crosses => n.pte[cr3][p + 1].d)
    BY <2>3, <2>5, Zenon DEF AccessLeaves
  <2> QED BY <2>4, <2>5
<1> HIDE DEF n
<1>3. TlbAgrees(Now)' /\ FetchSound' /\ tlb' \in [Slots -> TlbEntry] /\ pte' \in Tables
  BY <1>1, <1>2, Adopted
<1>4. ASSUME NEW sp \in wrote' PROVE sp \in Space \X Page /\ pte'[sp[1]][sp[2]].d
  <2>1. CASE sp \in wrote
    BY <1>1, <1>2, <2>1 DEF MmuInv, MmuTypeOK, DirtyTracked, SameTables
  <2>2. CASE sp \notin wrote
    <3>1. Done(rs) /\ wr /\ sp \in {cr3} \X (IF crosses THEN {p, p + 1} ELSE {p})
      BY <1>1, <1>4, <2>2
    <3>2. sp[1] = cr3 /\ (sp[2] = p \/ (crosses /\ sp[2] = p + 1)) /\ sp = <<sp[1], sp[2]>>
      BY <3>1
    <3> QED BY <1>1, <1>2, <3>1, <3>2 DEF MmuInv, MmuTypeOK
  <2> QED BY <2>1, <2>2
<1>5. DirtyTracked' /\ wrote' \subseteq Space \X Page
  BY <1>4 DEF DirtyTracked
<1> QED BY <1>1, <1>3, <1>5 DEF MmuInv, MmuTypeOK

LEMMA FetchInv ==
    ASSUME MmuInv, NEW p \in Page, NEW wide \in BOOLEAN, NEW crosses \in BOOLEAN, Fetch(p, wide, crosses)
    PROVE  MmuInv'
<1>1. CASE fetch.page = p /\ ~crosses
  <2>1. UNCHANGED mmuVars
    BY <1>1 DEF Fetch, mmuVars
  <2> QED BY <2>1 DEF mmuVars, MmuInv, MmuTypeOK, TlbAgrees, Agrees, Present, Combined, Now, DirtyTracked, FetchSound
<1>2. CASE ~(fetch.page = p /\ ~crosses)
  <2>a. PICK rs : rs = translate_laddr(Now, p, FALSE, crosses)
    OBVIOUS
  <2> DEFINE n == Last(rs).t
  <2>1. /\ crosses => p + 1 \in Page
        /\ tlb' = n.tlb
        /\ fetch' = IF Last(rs).ok /\ ~wide THEN [page |-> p, frame |-> Last(rs).frame] ELSE fetch
        /\ crosses => wide
        /\ UNCHANGED <<pde, pte, cr3, wp, user, wrote>>
    BY <1>2, <2>a, Zenon DEF Fetch, Last
  <2>2. /\ n \in Walk /\ TlbAgrees(n) /\ SameTables(pte, n.pte) /\ n.pte = pte
        /\ Last(rs).ok /\ ~crosses => PermitsIn(Now, p, FALSE) /\ Last(rs).frame = pte[cr3][p].frame
    <3>1. MmuTypeOK /\ TlbAgrees(Now) /\ FALSE \in BOOLEAN
      BY DEF MmuInv
    <3>2. AccessLeaves(rs, p, FALSE, crosses)
      BY <2>a, <2>1, <3>1, AccessKeeps, Zenon
    <3> QED BY <3>2 DEF AccessLeaves
  <2> HIDE DEF n
  <2>3. TlbAgrees(Now)' /\ tlb' \in [Slots -> TlbEntry] /\ (UNCHANGED fetch => FetchSound')
    BY <2>1, <2>2, Adopted
  <2>4. FetchSound' /\ fetch' \in [page : Page \cup {NoPage}, frame : Frame \cup {None}]
    <3>1. CASE UNCHANGED fetch
      BY <2>3, <3>1 DEF MmuInv, MmuTypeOK
    <3>2. CASE Last(rs).ok /\ ~wide /\ fetch' = [page |-> p, frame |-> Last(rs).frame]
      <4>1. PermitsIn(Now, p, FALSE) /\ Last(rs).frame = pte[cr3][p].frame
        BY <2>1, <2>2, <3>2
      <4>2. pte[cr3][p].frame \in Frame
        BY DEF MmuInv, MmuTypeOK, Tables, Pte
      <4>3. fetch'.page = p /\ fetch'.frame = pte[cr3][p].frame
        BY <3>2, <4>1
      <4> QED BY <2>1, <3>2, <4>1, <4>2, <4>3 DEF FetchSound, PermitsIn, Present, Now
    <3> QED BY <2>1, <3>1, <3>2
  <2> QED BY <2>1, <2>3, <2>4 DEF MmuInv, MmuTypeOK, DirtyTracked
<1> QED BY <1>1, <1>2

LEMMA EditPteInv ==
    ASSUME MmuInv, NEW p \in Page, NEW e \in PteChoice, NEW i \in BOOLEAN, EditPte(p, e, i)
    PROVE  MmuInv'
<1> DEFINE old == pte[cr3][p]
<1>1. /\ i \/ (Grants(old, e) /\ ~old.d)
      /\ pte' = [pte EXCEPT ![cr3] = [pte[cr3] EXCEPT ![p] = e]]
      /\ wrote' = wrote \ {<<cr3, p>>}
      /\ IF i THEN tlb_clear ELSE UNCHANGED <<tlb, fetch>>
      /\ UNCHANGED <<pde, cr3, wp, user>>
  BY DEF EditPte
<1>2. e \in Pte /\ cr3 \in Space /\ pte[cr3] \in [Page -> Pte]
  BY MmuAssumption DEF MmuInv, MmuTypeOK, Tables, Pte
<1>3. /\ pte' \in Tables /\ pte'[cr3][p] = e
      /\ \A s \in Space, q \in Page : <<s, q>> # <<cr3, p>> => pte'[s][q] = pte[s][q]
  BY <1>1, <1>2 DEF MmuInv, MmuTypeOK, Tables
<1>4. DirtyTracked' /\ wrote' \subseteq Space \X Page
  <2>1. ASSUME NEW sp \in wrote'
        PROVE  sp \in Space \X Page /\ pte'[sp[1]][sp[2]].d
    <3>1. sp \in wrote /\ sp # <<cr3, p>> /\ sp \in Space \X Page
      BY <1>1, <2>1 DEF MmuInv, MmuTypeOK
    <3>2. pte'[sp[1]][sp[2]] = pte[sp[1]][sp[2]]
      BY <1>3, <3>1
    <3> QED BY <3>1, <3>2 DEF MmuInv, DirtyTracked
  <2> QED BY <2>1 DEF DirtyTracked
<1>5. CASE i
  <2>1. tlb' = tlb_empty /\ fetch' = NoFetch
    BY <1>1, <1>5 DEF tlb_clear
  <2> QED BY <1>1, <1>3, <1>4, <2>1, Flushed DEF MmuInv, MmuTypeOK
<1>6. CASE ~i
  <2>1. Grants(old, e) /\ UNCHANGED <<cr3, wp, tlb, fetch>>
    BY <1>1, <1>6
  <2>2. ASSUME NEW q \in Page, Present(Now, q)
        PROVE  /\ Present(Now, q)' /\ pte'[cr3][q].frame = pte[cr3][q].frame
               /\ Combined(Now, q).w => Combined(Now, q)'.w
               /\ Combined(Now, q).u => Combined(Now, q)'.u
    <3>1. pde[cr3][Dir(q)].p /\ pte[cr3][q].p
      BY <2>2 DEF Present, Now
    <3>2. /\ pte'[cr3][q].p /\ pte'[cr3][q].frame = pte[cr3][q].frame
          /\ pte[cr3][q].w => pte'[cr3][q].w
          /\ pte[cr3][q].u => pte'[cr3][q].u
      BY <1>2, <1>3, <2>1, <3>1 DEF Grants
    <3> QED BY <1>1, <3>1, <3>2 DEF Present, Combined, Now
  <2>3. TlbAgrees(Now)' /\ FetchSound'
    BY <2>1, <2>2, OnlyGranted
  <2> QED BY <1>1, <1>3, <1>4, <2>1, <2>3 DEF MmuInv, MmuTypeOK
<1> QED BY <1>5, <1>6

LEMMA EditPdeInv ==
    ASSUME MmuInv, NEW d \in Dirs, NEW e \in Pde, NEW i \in BOOLEAN, EditPde(d, e, i)
    PROVE  MmuInv'
<1> DEFINE old == pde[cr3][d]
<1>1. /\ i \/ (e.p /\ (old.p => (old.w => e.w) /\ (old.u => e.u)))
      /\ pde' = [pde EXCEPT ![cr3] = [pde[cr3] EXCEPT ![d] = e]]
      /\ IF i THEN tlb_clear ELSE UNCHANGED <<tlb, fetch>>
      /\ UNCHANGED <<pte, cr3, wp, user, wrote>>
  BY DEF EditPde
<1>2. cr3 \in Space /\ pde[cr3] \in [Dirs -> Pde]
  BY DEF MmuInv, MmuTypeOK
<1>3. /\ pde' \in [Space -> [Dirs -> Pde]] /\ pde'[cr3][d] = e
      /\ \A c \in Dirs : c # d => pde'[cr3][c] = pde[cr3][c]
  BY <1>1, <1>2 DEF MmuInv, MmuTypeOK
<1>4. CASE i
  <2>1. tlb' = tlb_empty /\ fetch' = NoFetch
    BY <1>1, <1>4 DEF tlb_clear
  <2> QED BY <1>1, <1>3, <2>1, Flushed DEF MmuInv, MmuTypeOK, DirtyTracked
<1>5. CASE ~i
  <2>1. e.p /\ (old.p => (old.w => e.w) /\ (old.u => e.u)) /\ UNCHANGED <<cr3, wp, tlb, fetch>>
    BY <1>1, <1>5
  <2>2. ASSUME NEW q \in Page, Present(Now, q)
        PROVE  /\ Present(Now, q)' /\ pte'[cr3][q].frame = pte[cr3][q].frame
               /\ Combined(Now, q).w => Combined(Now, q)'.w
               /\ Combined(Now, q).u => Combined(Now, q)'.u
    <3>1. pde[cr3][Dir(q)].p /\ pte[cr3][q].p /\ Dir(q) \in Dirs
      BY <2>2, SlotRange DEF Present, Now
    <3>2. /\ pde'[cr3][Dir(q)].p
          /\ pde[cr3][Dir(q)].w => pde'[cr3][Dir(q)].w
          /\ pde[cr3][Dir(q)].u => pde'[cr3][Dir(q)].u
      BY <1>3, <2>1, <3>1
    <3> QED BY <1>1, <3>1, <3>2 DEF Present, Combined, Now
  <2>3. TlbAgrees(Now)' /\ FetchSound'
    BY <2>1, <2>2, OnlyGranted
  <2> QED BY <1>1, <1>3, <2>1, <2>3 DEF MmuInv, MmuTypeOK, DirtyTracked
<1> QED BY <1>4, <1>5

LEMMA MmuNextInv == MmuInv /\ [MmuNext]_mmuVars => MmuInv'
<1> SUFFICES ASSUME MmuInv, [MmuNext]_mmuVars PROVE MmuInv'
  OBVIOUS
<1>1. ASSUME NEW p \in Page, NEW wr \in BOOLEAN, NEW crosses \in BOOLEAN, Access(p, wr, crosses)
      PROVE  MmuInv'
  BY <1>1, AccessInv
<1>2. ASSUME NEW p \in Page, NEW wide \in BOOLEAN, NEW crosses \in BOOLEAN, Fetch(p, wide, crosses)
      PROVE  MmuInv'
  BY <1>2, FetchInv
<1>3. ASSUME NEW s \in Space, MovCr3(s)
      PROVE  MmuInv'
  BY <1>3, Flushed DEF MovCr3, tlb_clear, MmuInv, MmuTypeOK, DirtyTracked
<1>4. CASE MovCr0
  BY <1>4, Flushed DEF MovCr0, tlb_clear, MmuInv, MmuTypeOK, DirtyTracked
<1>5. CASE SwitchRing
  <2>1. user' \in BOOLEAN /\ UNCHANGED <<pde, pte, cr3, wp, tlb, fetch, wrote>>
    BY <1>5 DEF SwitchRing, MmuInv, MmuTypeOK
  <2> QED BY <2>1 DEF MmuInv, MmuTypeOK, TlbAgrees, Agrees, Present, Combined, Now, DirtyTracked, FetchSound
<1>6. ASSUME NEW p \in Page, NEW e \in PteChoice, NEW i \in BOOLEAN, EditPte(p, e, i)
      PROVE  MmuInv'
  BY <1>6, EditPteInv
<1>7. ASSUME NEW d \in Dirs, NEW e \in Pde, NEW i \in BOOLEAN, EditPde(d, e, i)
      PROVE  MmuInv'
  BY <1>7, EditPdeInv
<1>8. CASE UNCHANGED mmuVars
  BY <1>8 DEF mmuVars, MmuInv, MmuTypeOK, TlbAgrees, Agrees, Present, Combined, Now, DirtyTracked, FetchSound
<1> QED BY <1>1, <1>2, <1>3, <1>4, <1>5, <1>6, <1>7, <1>8, Zenon DEF MmuNext

-----------------------------------------------------------------------------
(* The properties.                                                         *)

LEMMA MmuGrants == MmuInv => TranslationSound
<1> SUFFICES ASSUME MmuInv PROVE TranslationSound
  OBVIOUS
<1>1. ASSUME NEW p \in Page, NEW wr \in BOOLEAN, NEW r, r = translate_lpgno(Now, p, wr), r.ok
      PROVE  Permits(p, wr) /\ r.frame = pte[cr3][p].frame
  <2>1. MmuTypeOK /\ TlbAgrees(Now) /\ Now \in Walk /\ Now.pte = pte
    BY NowWalk DEF MmuInv, Now
  <2>2. Answered(Now, p, wr, r)
    BY <1>1, <2>1, TranslateAnswers, Zenon
  <2> QED BY <1>1, <2>1, <2>2, PermitsRule DEF Answered
<1>2. GrantSound
  BY <1>1, Zenon DEF GrantSound
<1> QED BY <1>2 DEF TranslationSound, MmuInv

\* A denial with a reason, or a stale entry that this fault drops: the retry
\* finds the entry gone and the tables permit it.
LEMMA MmuOnce == MmuInv => FaultOnce
<1> SUFFICES ASSUME MmuInv, NEW p \in Page, NEW wr \in BOOLEAN,
                    NEW r, r = translate_lpgno(Now, p, wr), ~r.ok, Permits(p, wr),
                    NEW q, q = translate_lpgno(r.t, p, wr)
             PROVE  q.ok
  BY Zenon DEF FaultOnce
<1>1. MmuTypeOK /\ TlbAgrees(Now) /\ Now \in Walk /\ Now.pte = pte
  BY NowWalk DEF MmuInv, Now
<1>2. Answered(Now, p, wr, r) /\ Kept(Now, p, wr, r)
  BY <1>1, TranslateAnswers, TranslateKeeps, Zenon
<1>3. PermitsIn(Now, p, wr)
  BY <1>1, PermitsRule
<1>4. ~Hit(r.t, p) /\ r.t \in Walk /\ TlbAgrees(r.t) /\ PermitsIn(r.t, p, wr)
  BY <1>1, <1>2, <1>3, SameRights DEF Answered, Kept
<1>5. Answered(r.t, p, wr, q) /\ Kept(r.t, p, wr, q)
  BY <1>1, <1>4, TranslateAnswers, TranslateKeeps, Zenon
<1> QED BY <1>4, <1>5 DEF Answered, Kept

\* The fault of a crossing access is that of the first page denying it.
Reported(rs, p, wr, crosses) ==
    IF Last(rs).ok THEN Permits(p, wr) /\ (crosses => Permits(p + 1, wr))
    ELSE /\ Last(rs).page # p => Last(rs).page = p + 1 /\ crosses /\ Permits(p, wr)
         /\ Permits(Last(rs).page, wr) => tlb[Slot(Last(rs).page)].page = Last(rs).page
         /\ Last(rs).present <=> pde[cr3][Dir(Last(rs).page)].p /\ pte[cr3][Last(rs).page].p

LEMMA MmuReport == MmuInv => CrossingReport
<1>r. SUFFICES ASSUME MmuInv, NEW p \in Page, NEW wr \in BOOLEAN, NEW crosses \in BOOLEAN,
                      crosses => p + 1 \in Page
               PROVE  Reported(translate_laddr(Now, p, wr, crosses), p, wr, crosses)
  BY Zenon DEF CrossingReport, Reported, Last
<1>s. SUFFICES ASSUME NEW rs, rs = translate_laddr(Now, p, wr, crosses)
               PROVE  Reported(rs, p, wr, crosses)
  OBVIOUS
<1> USE <1>r, <1>s DEF Reported
<1>a. PICK a : a = translate_lpgno(Now, p, wr)
  OBVIOUS
<1>b. PICK b : b = translate_lpgno(a.t, p + 1, wr)
  OBVIOUS
<1>0. /\ MmuTypeOK /\ TlbAgrees(Now) /\ Now \in Walk /\ Now.pte = pte /\ Now.tlb = tlb
  BY NowWalk DEF MmuInv, Now
<1>1. Kept(Now, p, wr, a) /\ Answered(Now, p, wr, a)
  BY <1>a, <1>0, TranslateKeeps, TranslateAnswers, Zenon
<1>2. a.ok \in BOOLEAN /\ a.page = p /\ a.t \in Walk /\ TlbAgrees(a.t) /\ SameTables(pte, a.t.pte)
  BY <1>0, <1>1 DEF Kept
<1>3. Pages(rs, a, b, crosses)
  BY <1>a, <1>b, <1>2, Walked, Zenon
<1>4. ASSUME NEW q \in Page
      PROVE  /\ Permits(q, wr) <=> PermitsIn(Now, q, wr)
             /\ Present(Now, q) <=> pde[cr3][Dir(q)].p /\ pte[cr3][q].p
             /\ Hit(Now, q) <=> tlb[Slot(q)].page = q
  BY <1>0, PermitsRule DEF Present, Hit
<1>5. CASE ~crosses \/ ~a.ok
  <2>1. Last(rs) = a
    BY <1>3, <1>5 DEF Pages
  <2> QED BY <1>1, <1>2, <1>4, <1>5, <2>1 DEF Answered
<1>6. CASE crosses /\ a.ok
  <2>1. Last(rs) = b /\ p + 1 \in Page
    BY <1>3, <1>6 DEF Pages
  <2>2. Kept(a.t, p + 1, wr, b) /\ Answered(a.t, p + 1, wr, b)
    BY <1>b, <1>0, <1>2, <2>1, TranslateKeeps, TranslateAnswers, Zenon
  <2>3. Permits(p, wr)
    BY <1>1, <1>4, <1>6 DEF Answered
  <2>4. PermitsIn(a.t, p + 1, wr) = PermitsIn(Now, p + 1, wr) /\ Present(a.t, p + 1) = Present(Now, p + 1)
    BY <1>0, <1>2, <2>1, SameRights
  <2>5. Hit(a.t, p + 1) => Hit(Now, p + 1)
    <3>1. Slot(p + 1) \in Slots /\ p + 1 # NoPage /\ p + 1 # p
      BY <2>1, SlotRange
    <3> QED BY <1>0, <1>1, <3>1 DEF Kept, Hit
  <2>6. b.page = p + 1
    BY <2>2 DEF Kept
  <2>7. /\ Permits(p + 1, wr) <=> PermitsIn(a.t, p + 1, wr)
        /\ Present(a.t, p + 1) <=> pde[cr3][Dir(p + 1)].p /\ pte[cr3][p + 1].p
        /\ Hit(a.t, p + 1) => tlb[Slot(p + 1)].page = p + 1
    BY <1>4, <2>1, <2>4, <2>5
  <2>8. CASE b.ok
    <3>1. Permits(p + 1, wr)
      BY <2>2, <2>7, <2>8 DEF Answered
    <3> QED BY <2>1, <2>3, <2>8, <3>1
  <2>9. CASE ~b.ok
    <3>1. /\ Permits(p + 1, wr) => tlb[Slot(p + 1)].page = p + 1
          /\ b.present <=> pde[cr3][Dir(p + 1)].p /\ pte[cr3][p + 1].p
      BY <2>2, <2>7, <2>9 DEF Answered
    <3> QED BY <1>6, <2>1, <2>3, <2>6, <2>9, <3>1
  <2> QED BY <2>8, <2>9
<1> QED BY <1>2, <1>5, <1>6

-----------------------------------------------------------------------------

\* Whatever the tables, their edits and the sizes: the TLB and the fetcher's page
\* grant no more than the page tables, and a written page is marked dirty.
THEOREM TranslationSafe == MmuSpec => []TranslationSound
BY MmuInitInv, MmuNextInv, MmuGrants, PTL DEF MmuSpec

\* A page fault has a reason or is taken once, and names the first page that
\* denies the access with a true error code.
THEOREM FaultsTrue == MmuSpec => []FaultsReported
<1>1. MmuInv => FaultsReported
  BY MmuOnce, MmuReport DEF FaultsReported
<1> QED BY <1>1, MmuInitInv, MmuNextInv, PTL DEF MmuSpec

-----------------------------------------------------------------------------
(* CpuStack.                                                               *)
(*                                                                         *)
(* Remainders first: SP is only known modulo the width of the stack.       *)

\* Quotient and remainder.
LEMMA DivMod ==
    ASSUME NEW M \in Nat \ {0}, NEW a \in Int
    PROVE  \E q \in Int, x \in 0 .. M - 1 : a = M * q + x /\ a % M = x /\ a \div M = q
<1>1. a % M \in 0 .. M - 1 /\ a \div M \in Int /\ a = M * (a \div M) + (a % M)  OBVIOUS
<1>2. QED  BY <1>1

LEMMA DivModUnique ==
    ASSUME NEW M \in Nat \ {0}, NEW a \in Int, NEW q \in Int, NEW x \in 0 .. M - 1, a = M * q + x
    PROVE  a % M = x /\ a \div M = q
<1>1. PICK p \in Int, y \in 0 .. M - 1 : a = M * p + y /\ a % M = y /\ a \div M = p  BY DivMod
<1>2. PICK d \in Int : d = q - p  OBVIOUS
<1>3. M * d = y - x
  <2>1. M * d = M * q - M * p  BY <1>2
  <2>2. QED  BY <1>1, <2>1
<1>4. d = 0
  <2>1. M * d < M /\ M * d > -M  BY <1>1, <1>3
  <2>2. d >= 1 => M * d >= M  OBVIOUS
  <2>3. d <= -1 => M * d <= -M  OBVIOUS
  <2>4. QED  BY <2>1, <2>2, <2>3
<1>5. q = p /\ x = y  BY <1>2, <1>3, <1>4
<1>6. QED  BY <1>1, <1>5

LEMMA ModInt ==
    ASSUME NEW M \in Nat \ {0}, NEW x \in Int
    PROVE  x % M \in Int /\ x % M \in 0 .. M - 1
<1>1. PICK q \in Int, y \in 0 .. M - 1 : x = M * q + y /\ x % M = y /\ x \div M = q  BY DivMod
<1>2. QED  BY <1>1

LEMMA ModShift ==
    ASSUME NEW M \in Nat \ {0}, NEW x \in Int, NEW y \in Int, NEW k \in Int, x % M = y % M
    PROVE  (x + k) % M = (y + k) % M
<1>1. PICK p \in Int, a \in 0 .. M - 1 : x = M * p + a /\ x % M = a /\ x \div M = p  BY DivMod
<1>2. PICK q \in Int, b \in 0 .. M - 1 : y = M * q + b /\ y % M = b /\ y \div M = q  BY DivMod
<1>3. PICK z \in Int : z = y + k  OBVIOUS
<1>4. PICK s \in Int, c \in 0 .. M - 1 : z = M * s + c /\ z % M = c /\ z \div M = s  BY <1>3, DivMod
<1>5. PICK w \in Int : w = x + k  OBVIOUS
<1>6. PICK e \in Int : e = p - q + s  OBVIOUS
<1>7. w = M * e + c
  <2>1. M * e = M * p - M * q + M * s  BY <1>6
  <2>2. QED  BY <1>1, <1>2, <1>3, <1>4, <1>5, <2>1
<1>8. w % M = c  BY <1>7, DivModUnique
<1>9. QED  BY <1>3, <1>4, <1>5, <1>8

LEMMA ModSmall ==
    ASSUME NEW M \in Nat \ {0}, NEW x \in 0 .. M - 1
    PROVE  x % M = x
<1>1. x \in Int /\ 0 \in Int /\ x = M * 0 + x  OBVIOUS
<1>2. QED  BY <1>1, DivModUnique

LEMMA ModIdem ==
    ASSUME NEW M \in Nat \ {0}, NEW x \in Int
    PROVE  x % M \in 0 .. M - 1 /\ (x % M) % M = x % M
<1>1. PICK r : r = x % M  OBVIOUS
<1>2. r \in 0 .. M - 1  BY <1>1, DivMod
<1>3. r % M = r  BY <1>2, ModSmall
<1>4. QED  BY <1>1, <1>2, <1>3

\* Numbers less than M apart are different modulo M.
LEMMA ModApart ==
    ASSUME NEW M \in Nat \ {0}, NEW x \in Int, NEW y \in Int, x - y \in 1 .. M - 1
    PROVE  x % M # y % M
<1>1. SUFFICES ASSUME x % M = y % M PROVE FALSE  OBVIOUS
<1>2. PICK p \in Int, a \in 0 .. M - 1 : x = M * p + a /\ x % M = a /\ x \div M = p  BY DivMod
<1>3. PICK q \in Int, b \in 0 .. M - 1 : y = M * q + b /\ y % M = b /\ y \div M = q  BY DivMod
<1>4. PICK d \in Int : d = p - q  OBVIOUS
<1>5. x - y = M * d
  <2>1. M * d = M * p - M * q  BY <1>4
  <2>2. QED  BY <1>1, <1>2, <1>3, <2>1
<1>6. d >= 1 => M * d >= M  OBVIOUS
<1>7. d <= 0 => M * d <= 0  OBVIOUS
<1>8. QED  BY <1>5, <1>6, <1>7

\* The lower part of x replaced by that of v.
LEMMA LowPart ==
    ASSUME NEW M \in Nat \ {0}, NEW x \in Int, NEW v \in Int, NEW y, y = (v % M) + (x - (x % M))
    PROVE  y \in Int /\ y % M = v % M /\ y \div M = x \div M
<1>1. PICK p \in Int, a \in 0 .. M - 1 : x = M * p + a /\ x % M = a /\ x \div M = p  BY DivMod
<1>2. PICK q \in Int, b \in 0 .. M - 1 : v = M * q + b /\ v % M = b /\ v \div M = q  BY DivMod
<1>3. y \in Int /\ y = M * p + b
  <2>1. y = b + (x - a)  BY <1>1, <1>2
  <2>2. QED  BY <1>1, <1>2, <2>1
<1>4. y % M = b /\ y \div M = p  BY <1>3, DivModUnique
<1>5. QED  BY <1>1, <1>2, <1>3, <1>4

\* Two cells make up a 32-bit value; the lower one is the value's 16 bits.
LEMMA TwoCells ==
    ASSUME H \in Nat \ {0}, NEW v \in Int
    PROVE  /\ W \in Nat \ {0}
           /\ (v % H) + H * ((v \div H) % H) = v % W
           /\ (v % W) % H = v % H
<1>1. PICK q \in Int, a \in 0 .. H - 1 : v = H * q + a /\ v % H = a /\ v \div H = q  BY DivMod
<1>2. PICK s \in Int, b \in 0 .. H - 1 : q = H * s + b /\ q % H = b /\ q \div H = s  BY DivMod
<1>3. W \in Nat \ {0} /\ W = H * H  BY DEF W
<1>4. PICK x \in Int : x = H * b + a  OBVIOUS
<1>5. x \in 0 .. W - 1
  <2>1. H * b \in Nat /\ H * b <= H * (H - 1)  BY <1>2
  <2>2. H * (H - 1) = W - H  BY <1>3
  <2>3. QED  BY <1>1, <1>3, <1>4, <2>1, <2>2
<1>6. v = W * s + x
  <2>1. H * q = H * (H * s) + H * b  BY <1>2
  <2>2. H * (H * s) = W * s  BY <1>3
  <2>3. QED  BY <1>1, <1>4, <2>1, <2>2
<1>7. v % W = x  BY <1>3, <1>5, <1>6, DivModUnique
<1>8. x % H = a  BY <1>4, DivModUnique
<1>9. QED  BY <1>1, <1>2, <1>3, <1>4, <1>7, <1>8

-----------------------------------------------------------------------------
(* The machine.                                                            *)

Machine ==
    [r : [Reg -> Int], mem : [{"SS", "DS"} -> [0..(W - 1) -> Int]],
     ip : Int, cs : Int, fl : Int, mask : {H, W}]

\* t and u differ at most in what is said elsewhere.
SameBut(t, u, fields) ==
    /\ "r" \in fields \/ u.r = t.r
    /\ "mem" \in fields \/ u.mem = t.mem
    /\ "ip" \in fields \/ u.ip = t.ip
    /\ "cs" \in fields \/ u.cs = t.cs
    /\ "fl" \in fields \/ u.fl = t.fl
    /\ u.mask = t.mask

LEMMA Sizes ==
    ASSUME StackSizes
    PROVE  /\ H \in Nat \ {0} /\ W \in Nat \ {0} /\ H > 7 /\ W > 7
           /\ \A n : Size(n) \in {H, W} /\ Size(n) \in Nat \ {0}
           /\ \A t \in Machine : t.mask \in {H, W} /\ t.mask \in Nat \ {0}
<1>1. H \in Nat \ {0} /\ H > 7  BY DEF StackSizes
<1>2. W \in Nat \ {0} /\ W >= 8 * H  BY <1>1 DEF W
<1>3. QED  BY <1>1, <1>2 DEF Size, Machine

LEMMA SetSp ==
    ASSUME StackSizes, NEW t \in Machine, NEW v \in Int
    PROVE  /\ set_sp(t, v) \in Machine /\ SameBut(t, set_sp(t, v), {"r"})
           /\ \A i \in Reg : i # SP => set_sp(t, v).r[i] = t.r[i]
           /\ set_sp(t, v).r[SP] % t.mask = v % t.mask
           /\ set_sp(t, v).r[SP] \div t.mask = t.r[SP] \div t.mask
<1>1. t.mask \in Nat \ {0} /\ t.r[SP] \in Int /\ SP \in Reg
  <2>1. SP \in Reg  BY DEF Reg, SP
  <2>2. QED  BY <2>1, Sizes DEF Machine
<1>2. PICK y : y = (v % t.mask) + (t.r[SP] - (t.r[SP] % t.mask))  OBVIOUS
<1>y. y \in Int /\ y % t.mask = v % t.mask /\ y \div t.mask = t.r[SP] \div t.mask
  <2>1. PICK M \in Nat \ {0}, x \in Int : M = t.mask /\ x = t.r[SP]  BY <1>1
  <2>2. y = (v % M) + (x - (x % M))  BY <1>2, <2>1
  <2>3. y \in Int /\ y % M = v % M /\ y \div M = x \div M  BY <2>2, LowPart
  <2>4. QED  BY <2>1, <2>3
<1>3. set_sp(t, v) = [t EXCEPT !.r[SP] = y]  BY <1>2 DEF set_sp
<1>4. set_sp(t, v) \in Machine
  <2>1. PICK i \in Reg : i = SP  BY <1>1
  <2>2. set_sp(t, v) = [t EXCEPT !.r[i] = y] /\ y \in Int  BY <1>3, <1>y, <2>1
  <2>3. QED  BY <2>2 DEF Machine
<1>5. set_sp(t, v).r = [t.r EXCEPT ![SP] = y] /\ SameBut(t, set_sp(t, v), {"r"})
  BY <1>3 DEF Machine, SameBut
<1>6. DOMAIN t.r = Reg  BY DEF Machine
<1>7. set_sp(t, v).r[SP] = y /\ \A i \in Reg : i # SP => set_sp(t, v).r[i] = t.r[i]
  BY <1>1, <1>5, <1>6
<1>8. QED  BY <1>y, <1>4, <1>5, <1>7

\* u is t with the low n cells of register i set from v.
Written(t, u, n, i, v) ==
    /\ u \in Machine /\ SameBut(t, u, {"r"})
    /\ \A j \in Reg : j # i => u.r[j] = t.r[j]
    /\ u.r[i] % Size(n) = v % Size(n)
    /\ u.r[i] \div Size(n) = t.r[i] \div Size(n)

LEMMA SetReg ==
    ASSUME StackSizes, NEW t \in Machine, NEW n, NEW i \in Reg, NEW v \in Int
    PROVE  Written(t, sreg(t, n, i, v), n, i, v)
<1>1. Size(n) \in Nat \ {0} /\ t.r[i] \in Int  BY Sizes DEF Machine
<1>2. PICK y : y = (t.r[i] - (t.r[i] % Size(n))) + (v % Size(n))  OBVIOUS
<1>y. y \in Int /\ y % Size(n) = v % Size(n) /\ y \div Size(n) = t.r[i] \div Size(n)
  <2>1. PICK b \in Int : b = v % Size(n)  BY <1>1, ModIdem
  <2>2. PICK a \in Int : a = t.r[i] % Size(n)  BY <1>1, ModIdem
  <2>3. y = (v % Size(n)) + (t.r[i] - (t.r[i] % Size(n)))
    <3>1. y = (t.r[i] - a) + b  BY <1>2, <2>1, <2>2
    <3>2. y = b + (t.r[i] - a)  BY <1>1, <3>1
    <3>3. QED  BY <2>1, <2>2, <3>2
  <2>4. PICK M \in Nat \ {0}, x \in Int : M = Size(n) /\ x = t.r[i]  BY <1>1
  <2>5. y = (v % M) + (x - (x % M))  BY <2>3, <2>4
  <2>6. y \in Int /\ y % M = v % M /\ y \div M = x \div M  BY <2>5, LowPart
  <2>7. QED  BY <2>4, <2>6
<1>3. sreg(t, n, i, v) = [t EXCEPT !.r[i] = y]  BY <1>2 DEF sreg
<1>4. sreg(t, n, i, v) \in Machine
  <2>1. y \in Int  BY <1>y
  <2>2. QED  BY <1>1, <1>3, <2>1 DEF Machine
<1>5. sreg(t, n, i, v).r = [t.r EXCEPT ![i] = y] /\ SameBut(t, sreg(t, n, i, v), {"r"})
  BY <1>3 DEF Machine, SameBut
<1>6. DOMAIN t.r = Reg  BY DEF Machine
<1>7. sreg(t, n, i, v).r[i] = y /\ \A j \in Reg : j # i => sreg(t, n, i, v).r[j] = t.r[j]
  BY <1>5, <1>6
<1>8. QED  BY <1>y, <1>4, <1>5, <1>7 DEF Written

\* The cells of an access of n at a.
Cells(a, n) == {(a + k) % W : k \in 0 .. n - 1}

\* u is t with v in the n cells at a.
Stored(t, u, seg, a, n, v) ==
    /\ u \in Machine /\ SameBut(t, u, {"mem"})
    /\ \A g \in {"SS", "DS"} : g # seg => u.mem[g] = t.mem[g]
    /\ Load(u, seg, a, n) = v % Size(n)
    /\ \A c \in 0..(W - 1) : c \notin Cells(a, n) => u.mem[seg][c] = t.mem[seg][c]

LEMMA StoreIs ==
    ASSUME StackSizes, NEW t \in Machine, NEW seg \in {"SS", "DS"}, NEW a \in Int, NEW n \in {1, 2}, NEW v \in Int
    PROVE  Stored(t, Store(t, seg, a, n, v), seg, a, n, v)
<1> DEFINE u == Store(t, seg, a, n, v)
<1>1. H \in Nat \ {0} /\ W \in Nat \ {0} /\ W > 7  BY Sizes
<1>2. a % W \in 0..(W - 1) /\ (a + 1) % W \in 0..(W - 1) /\ a % W # (a + 1) % W
  <2>1. a + 1 \in Int /\ (a + 1) - a \in 1 .. W - 1  BY <1>1
  <2>2. QED  BY <1>1, <2>1, ModIdem, ModApart
<1>3. v % H \in Int /\ (v \div H) % H \in Int
  <2>1. PICK q \in Int, x \in 0 .. H - 1 : v % H = x /\ v \div H = q  BY <1>1, DivMod
  <2>2. QED  BY <1>1, <2>1, ModIdem
<1>4. t.mem[seg] \in [0..(W - 1) -> Int] /\ DOMAIN t.mem = {"SS", "DS"} /\ DOMAIN t.mem[seg] = 0..(W - 1)
  BY DEF Machine
<1>5. Cells(a, 1) = {a % W} /\ Cells(a, 2) = {a % W, (a + 1) % W}
  <2>1. 0 .. 1 - 1 = {0} /\ 0 .. 2 - 1 = {0, 1} /\ a + 0 = a  OBVIOUS
  <2>2. QED  BY <2>1 DEF Cells
<1>6. CASE n = 1
  <2> DEFINE f == [t.mem[seg] EXCEPT ![a % W] = v % H]
  <2>1. u = [t EXCEPT !.mem = [t.mem EXCEPT ![seg] = f]]  BY <1>6 DEF Store, Machine
  <2>2. f \in [0..(W - 1) -> Int] /\ f[a % W] = v % H /\ \A c \in 0..(W - 1) : c # a % W => f[c] = t.mem[seg][c]
    BY <1>2, <1>3, <1>4
  <2> HIDE DEF f, u
  <2>3. u \in Machine /\ SameBut(t, u, {"mem"}) /\ u.mem = [t.mem EXCEPT ![seg] = f]
    BY <2>1, <2>2 DEF Machine, SameBut
  <2>4. u.mem[seg] = f /\ \A g \in {"SS", "DS"} : g # seg => u.mem[g] = t.mem[g]  BY <1>4, <2>3
  <2>5. Load(u, seg, a, n) = v % Size(n)  BY <1>6, <2>2, <2>4 DEF Load, Size
  <2>6. QED  BY <1>5, <1>6, <2>2, <2>3, <2>4, <2>5 DEF u, Stored
<1>7. CASE n = 2
  <2> DEFINE f == [t.mem[seg] EXCEPT ![a % W] = v % H]
  <2> DEFINE g == [f EXCEPT ![(a + 1) % W] = (v \div H) % H]
  <2>1. u = [t EXCEPT !.mem = [t.mem EXCEPT ![seg] = g]]  BY <1>4, <1>7 DEF Store, Machine
  <2>2. f \in [0..(W - 1) -> Int] /\ f[a % W] = v % H /\ \A c \in 0..(W - 1) : c # a % W => f[c] = t.mem[seg][c]
    BY <1>2, <1>3, <1>4
  <2> HIDE DEF f
  <2>3. /\ g \in [0..(W - 1) -> Int] /\ g[(a + 1) % W] = (v \div H) % H
        /\ \A c \in 0..(W - 1) : c # (a + 1) % W => g[c] = f[c]
    BY <1>2, <1>3, <2>2
  <2> HIDE DEF g, u
  <2>4. u \in Machine /\ SameBut(t, u, {"mem"}) /\ u.mem = [t.mem EXCEPT ![seg] = g]
    BY <2>1, <2>3 DEF Machine, SameBut
  <2>5. u.mem[seg] = g /\ \A h \in {"SS", "DS"} : h # seg => u.mem[h] = t.mem[h]  BY <1>4, <2>4
  <2>6. Load(u, seg, a, n) = v % Size(n)
    <3>1. Load(u, seg, a, n) = (v % H) + H * ((v \div H) % H)  BY <1>2, <1>7, <2>2, <2>3, <2>5 DEF Load
    <3>2. (v % H) + H * ((v \div H) % H) = v % W  BY <1>1, TwoCells
    <3>3. QED  BY <1>7, <3>1, <3>2 DEF Size
  <2>7. \A c \in 0..(W - 1) : c \notin Cells(a, 2) => g[c] = t.mem[seg][c]  BY <1>5, <2>2, <2>3
  <2>8. QED  BY <1>7, <2>4, <2>5, <2>6, <2>7 DEF u, Stored
<1>8. QED  BY <1>6, <1>7

Cong(M, x, y) == x % M = y % M

LEMMA CongShift ==
    ASSUME NEW M \in Nat \ {0}, NEW x \in Int, NEW y \in Int, NEW k \in Int
    PROVE  Cong(M, x, y) => Cong(M, x + k, y + k)
BY ModShift, Zenon DEF Cong

LEMMA CongTrans ==
    ASSUME NEW M, NEW x, NEW y, NEW z, Cong(M, x, y), Cong(M, x, z)
    PROVE  Cong(M, y, z)
BY DEF Cong

LEMMA CongMod ==
    ASSUME NEW M \in Nat \ {0}, NEW x \in Int
    PROVE  Cong(M, x % M, x)
BY ModIdem, Zenon DEF Cong

LEMMA CongApart ==
    ASSUME NEW M \in Nat \ {0}, NEW x \in Int, NEW y \in Int, x - y \in 1 .. M - 1
    PROVE  ~ Cong(M, x, y)
BY ModApart, Zenon DEF Cong

\* The cell s above an address on a stack of M cells.
At(M, sp, s) == (sp + s) % M
LoadKept(t, u, a, w) == Load(u, "SS", a, w) = Load(t, "SS", a, w)
\* n cells at x and w cells at s do not meet on it.
Clear(M, x, n, s, w) == s >= x + n /\ s + w <= x + M

\* What is less than M apart is in different cells, on a stack of either width.
LEMMA CellsApart ==
    ASSUME StackSizes, NEW M \in {H, W}, NEW sp \in Int, NEW x \in Int, NEW s \in Int,
           NEW n \in {1, 2}, NEW w \in {1, 2}, Clear(M, x, n, s, w)
    PROVE  Cells((sp + x) % M, n) \cap Cells((sp + s) % M, w) = {}
<1>1. H \in Nat \ {0} /\ W \in Nat \ {0} /\ M \in Nat \ {0}  BY Sizes
<1>2. ASSUME NEW y \in Int, NEW z \in Int, y % W = z % W PROVE y % M = z % M
  <2>1. (y % W) % H = y % H /\ (z % W) % H = z % H  BY <1>1, TwoCells
  <2>2. CASE M = H  BY <1>2, <2>1, <2>2
  <2>3. CASE M = W  BY <1>2, <2>3
  <2>4. QED  BY <2>2, <2>3
<1>3. SUFFICES ASSUME NEW k \in 0 .. n - 1, NEW l \in 0 .. w - 1,
                      (((sp + x) % M) + k) % W = (((sp + s) % M) + l) % W
               PROVE  FALSE
  BY DEF Cells
<1>4. PICK a \in Int, b \in Int : a = sp + x /\ b = sp + s  OBVIOUS
<1>5. PICK c \in Int, d \in Int : c = a % M /\ d = b % M
  <2>1. a % M \in Int /\ b % M \in Int  BY <1>1, ModInt, Zenon
  <2>2. QED  BY <2>1
<1>6. (c + k) % W = (d + l) % W  BY <1>3, <1>4, <1>5
<1>7. c + k \in Int /\ d + l \in Int /\ a + k \in Int /\ b + l \in Int  OBVIOUS
<1>8. Cong(M, c + k, d + l)  BY <1>2, <1>6, <1>7 DEF Cong
<1>9. Cong(M, c, a) /\ Cong(M, d, b)  BY <1>1, <1>5, CongMod
<1>10. Cong(M, c + k, a + k) /\ Cong(M, d + l, b + l)
  <2>1. M \in Nat \ {0} /\ k \in Int /\ l \in Int  BY <1>1
  <2>2. Cong(M, c + k, a + k)  BY <1>9, <2>1, CongShift
  <2>3. Cong(M, d + l, b + l)  BY <1>9, <2>1, CongShift
  <2>4. QED  BY <2>2, <2>3
<1>11. (b + l) - (a + k) \in 1 .. M - 1  BY <1>1, <1>4 DEF Clear
<1>12. Cong(M, d + l, a + k)  BY <1>8, <1>10, CongTrans
<1>13. Cong(M, b + l, a + k)  BY <1>10, <1>12, CongTrans
<1>14. QED  BY <1>1, <1>7, <1>11, <1>13, CongApart

LEMMA LoadSame ==
    ASSUME StackSizes, NEW t, NEW u, NEW seg, NEW g, NEW a \in Int, NEW n \in {1, 2},
           \A c \in Cells(a, n) : u.mem[g][c] = t.mem[seg][c]
    PROVE  Load(u, g, a, n) = Load(t, seg, a, n)
<1>1. a + 0 = a /\ 0 \in 0 .. n - 1 /\ (n = 2 => 1 \in 0 .. n - 1)  OBVIOUS
<1>2. a % W \in Cells(a, n) /\ (n = 2 => (a + 1) % W \in Cells(a, n))  BY <1>1 DEF Cells
<1>3. QED  BY <1>2 DEF Load

LEMMA LoadType ==
    ASSUME StackSizes, NEW t \in Machine, NEW seg \in {"SS", "DS"}, NEW a \in Int, NEW n \in {1, 2}
    PROVE  Load(t, seg, a, n) \in Int
<1>1. a % W \in 0..(W - 1) /\ (a + 1) % W \in 0..(W - 1) /\ H \in Int
  <2>1. W \in Nat \ {0} /\ H \in Int /\ a + 1 \in Int  BY Sizes
  <2>2. QED  BY <2>1, ModInt, Zenon
<1>2. t.mem[seg][a % W] \in Int /\ t.mem[seg][(a + 1) % W] \in Int  BY <1>1 DEF Machine
<1>3. H * t.mem[seg][(a + 1) % W] \in Int  BY <1>1, <1>2
<1>4. QED  BY <1>2, <1>3 DEF Load

\* A store below SP and a read `s' above it do not meet.
LEMMA StoreBelow ==
    ASSUME StackSizes, NEW t \in Machine, NEW sp \in Int, NEW x \in Int, NEW s \in Int, NEW v \in Int,
           NEW n \in {1, 2}, NEW w \in {1, 2}, Clear(t.mask, x, n, s, w)
    PROVE  LoadKept(t, Store(t, "SS", At(t.mask, sp, x), n, v), At(t.mask, sp, s), w)
<1>1. PICK M \in {H, W} : M = t.mask /\ M \in Nat \ {0}  BY Sizes
<1>2. PICK a \in Int, b \in Int : a = (sp + x) % M /\ b = (sp + s) % M
  <2>1. sp + x \in Int /\ sp + s \in Int  OBVIOUS
  <2>2. (sp + x) % M \in Int /\ (sp + s) % M \in Int  BY <1>1, <2>1, ModInt, Zenon
  <2>3. QED  BY <2>2
<1>3. Cells(a, n) \cap Cells(b, w) = {}  BY <1>1, <1>2, CellsApart DEF Clear
<1>4. Cells(b, w) \subseteq 0..(W - 1)
  <2>1. \A k \in 0 .. w - 1 : b + k \in Int  OBVIOUS
  <2>2. W \in Nat \ {0}  BY Sizes
  <2>3. \A k \in 0 .. w - 1 : (b + k) % W \in 0..(W - 1)  BY <2>1, <2>2, ModInt, Zenon
  <2>4. QED  BY <2>3 DEF Cells
<1>5. \A c \in Cells(b, w) : Store(t, "SS", a, n, v).mem["SS"][c] = t.mem["SS"][c]
  <2>1. Stored(t, Store(t, "SS", a, n, v), "SS", a, n, v)  BY StoreIs
  <2>2. QED  BY <1>3, <1>4, <2>1 DEF Stored
<1>6. Load(Store(t, "SS", a, n, v), "SS", b, w) = Load(t, "SS", b, w)  BY <1>5, LoadSame
<1>7. QED  BY <1>1, <1>2, <1>6 DEF At, LoadKept

-----------------------------------------------------------------------------
(* Operands, and plans whose steps change nothing when they fail. *)

LEMMA SameIs ==
    ASSUME NEW t, NEW k \in Nat
    PROVE  Same(t, k) \in Seq({t}) /\ Len(Same(t, k)) = k
BY DEF Same

LEMMA ModsibType ==
    ASSUME StackSizes, NEW t \in Machine, NEW o \in ModRM
    PROVE  /\ modsib(t, o).addr \in Int /\ modsib(t, o).seg \in {"SS", "DS"}
           /\ modsib(t, o).fetches \in Nat
<1>1. /\ o.adsz16 \in BOOLEAN /\ o.mod \in 0..3 /\ o.rm \in Reg /\ o.base \in Reg /\ o.index \in Reg
      /\ o.scale \in Nat /\ o.disp \in Int
  BY DEF StackSizes
<1>2. \A i \in Reg : t.r[i] \in Int  BY DEF Machine
<1>3. CASE o.adsz16
  <2> DEFINE e == modsib16(t, o)
  <2>1. \A x \in Int : x % H \in Int  BY Sizes, ModInt
  <2>2. BX \in Reg /\ BP \in Reg /\ SI \in Reg /\ DI \in Reg  BY DEF BX, BP, SI, DI, Reg
  <2> DEFINE direct == o.rm = 6 /\ o.mod = 0
  <2> DEFINE regs == CASE o.rm = 0 -> {BX, SI} [] o.rm = 1 -> {BX, DI} [] o.rm = 2 -> {BP, SI}
                       [] o.rm = 3 -> {BP, DI} [] o.rm = 4 -> {SI} [] o.rm = 5 -> {DI}
                       [] o.rm = 6 -> {BP} [] o.rm = 7 -> {BX}
  <2> DEFINE v(i) == IF i \in regs THEN t.r[i] ELSE 0
  <2> DEFINE disp == IF o.mod # 0 \/ direct THEN o.disp ELSE 0
  <2>a. e.addr = ((IF direct THEN 0 ELSE v(BX) + v(BP) + v(SI) + v(DI)) + disp) % H  BY DEF modsib16
  <2>b. v(BX) \in Int /\ v(BP) \in Int /\ v(SI) \in Int /\ v(DI) \in Int /\ disp \in Int
    <3> HIDE DEF regs
    <3>1. QED  BY <1>1, <1>2, <2>2
  <2>3. e.addr \in Int
    <3> HIDE DEF v, disp, direct, e, regs
    <3>1. (IF direct THEN 0 ELSE v(BX) + v(BP) + v(SI) + v(DI)) + disp \in Int  BY <2>b
    <3>2. QED  BY <2>1, <2>a, <3>1
  <2>4. e.seg \in {"SS", "DS"} /\ e.fetches \in Nat  BY DEF modsib16
  <2>5. QED  BY <1>3, <2>3, <2>4 DEF modsib
<1>4. CASE ~o.adsz16
  <2> DEFINE e == modsib32(t, o)
  <2>1. \A x \in Int : x % W \in Int  BY Sizes, ModInt
  <2>2. t.r[o.index] * o.scale \in Int  BY <1>1, <1>2
  <2>3. e.addr \in Int  BY <1>1, <1>2, <2>1, <2>2 DEF modsib32
  <2>4. e.seg \in {"SS", "DS"} /\ e.fetches \in Nat  BY DEF modsib32
  <2>5. QED  BY <1>4, <2>3, <2>4 DEF modsib
<1>5. QED  BY <1>1, <1>3, <1>4

LEMMA OperandStepsIs ==
    ASSUME StackSizes, NEW t \in Machine, NEW o \in ModRM, NEW imm \in Nat
    PROVE  OperandSteps(t, o, imm) \in Seq({t}) /\ Len(OperandSteps(t, o, imm)) \in Nat
<1>1. 1 + (IF o.mod = 3 THEN 0 ELSE modsib(t, o).fetches + 1) + imm \in Nat  BY ModsibType
<1>2. QED  BY <1>1, SameIs DEF OperandSteps

LEMMA OperandType ==
    ASSUME StackSizes, NEW t \in Machine, NEW o \in ModRM, NEW n \in {1, 2}
    PROVE  Operand(t, o, n) \in Int
<1>1. CASE o.mod = 3
  <2>1. t.r[o.rm] \in Int  BY DEF StackSizes, Machine
  <2>2. lreg(t, n, o.rm) \in Int
    <3>1. Size(n) \in Nat \ {0}  BY Sizes
    <3>2. t.r[o.rm] % Size(n) \in Int  BY <2>1, <3>1, ModInt, Zenon
    <3>3. QED  BY <3>2 DEF lreg
  <2>3. QED  BY <1>1, <2>2 DEF Operand
<1>2. CASE o.mod # 3
  <2>1. Load(t, modsib(t, o).seg, modsib(t, o).addr, n) \in Int  BY ModsibType, LoadType
  <2>2. QED  BY <1>2, <2>1 DEF Operand
<1>3. QED  BY <1>1, <1>2

\* Moving and popping leave SP what it is above the stack's width.
Upper(t, u) == NoSpOperand /\ t.mask = H => u.r[SP] \div H = t.r[SP] \div H
Fine(t, p) == p.at \in Seq({t}) /\ p.done \in Machine /\ p.done.mask = t.mask /\ Upper(t, p.done)

LEMMA SetOperandIs ==
    ASSUME StackSizes, NEW t \in Machine, NEW o \in ModRM, NEW n \in {1, 2}, NEW v \in Int
    PROVE  /\ SetOperand(t, o, n, v) \in Machine /\ SetOperand(t, o, n, v).mask = t.mask
           /\ Upper(t, SetOperand(t, o, n, v))
           /\ o.mod # 3 => /\ SameBut(t, SetOperand(t, o, n, v), {"mem"})
                           /\ \A g \in {"SS", "DS"} : g # modsib(t, o).seg =>
                                SetOperand(t, o, n, v).mem[g] = t.mem[g]
                           /\ Load(SetOperand(t, o, n, v), modsib(t, o).seg, modsib(t, o).addr, n) = v % Size(n)
<1>1. o.rm \in Reg  BY DEF StackSizes
<1>2. SP \in Reg  BY DEF SP, Reg
<1>3. CASE o.mod = 3
  <2>1. SetOperand(t, o, n, v) = sreg(t, n, o.rm, v)  BY <1>3 DEF SetOperand
  <2>6. Written(t, sreg(t, n, o.rm, v), n, o.rm, v)  BY <1>1, SetReg
  <2>2. sreg(t, n, o.rm, v) \in Machine /\ sreg(t, n, o.rm, v).mask = t.mask
    BY <2>6 DEF Written, SameBut
  <2>3. SP # o.rm => sreg(t, n, o.rm, v).r[SP] = t.r[SP]  BY <1>2, <2>6 DEF Written
  <2>4. NoSpOperand => SP # o.rm  BY <1>3 DEF NoSpOperand
  <2>5. QED  BY <1>3, <2>1, <2>2, <2>3, <2>4 DEF Upper
<1>4. CASE o.mod # 3
  <2>1. SetOperand(t, o, n, v) = Store(t, modsib(t, o).seg, modsib(t, o).addr, n, v)
    BY <1>4 DEF SetOperand
  <2>2. modsib(t, o).addr \in Int /\ modsib(t, o).seg \in {"SS", "DS"}  BY ModsibType
  <2>3. PICK u : u = SetOperand(t, o, n, v)  OBVIOUS
  <2>7. Stored(t, u, modsib(t, o).seg, modsib(t, o).addr, n, v)
    <3>1. PICK g \in {"SS", "DS"}, b \in Int : g = modsib(t, o).seg /\ b = modsib(t, o).addr  BY <2>2
    <3>2. Stored(t, Store(t, g, b, n, v), g, b, n, v)  BY StoreIs
    <3>3. QED  BY <2>1, <2>3, <3>1, <3>2
  <2>4. /\ u \in Machine /\ SameBut(t, u, {"mem"})
        /\ \A g \in {"SS", "DS"} : g # modsib(t, o).seg => u.mem[g] = t.mem[g]
        /\ Load(u, modsib(t, o).seg, modsib(t, o).addr, n) = v % Size(n)
    BY <2>7 DEF Stored
  <2>5. u.r = t.r /\ u.mask = t.mask  BY <2>4 DEF SameBut
  <2>6. QED  BY <2>3, <2>4, <2>5 DEF Upper
<1>5. QED  BY <1>3, <1>4

\* u may follow t: an instruction that does not set ESP itself.
Moved(t, u) == u \in Machine /\ u.mask = t.mask /\ Upper(t, u)

LEMMA MovedTrans ==
    ASSUME NEW t, NEW u, NEW w, Moved(t, u), Moved(u, w)
    PROVE  Moved(t, w)
BY DEF Moved, Upper

LEMMA MovedSame ==
    ASSUME NEW t, NEW u \in Machine, u.mask = t.mask, u.r = t.r
    PROVE  Moved(t, u)
BY DEF Moved, Upper

LEMMA MovedSp ==
    ASSUME StackSizes, NEW t \in Machine, NEW v \in Int
    PROVE  Moved(t, set_sp(t, v))
<1>1. set_sp(t, v) \in Machine /\ SameBut(t, set_sp(t, v), {"r"})  BY SetSp
<1>2. set_sp(t, v).r[SP] \div t.mask = t.r[SP] \div t.mask  BY SetSp
<1>3. QED  BY <1>1, <1>2 DEF Moved, Upper, SameBut

LEMMA MovedReg ==
    ASSUME StackSizes, NEW t \in Machine, NEW n, NEW i \in Reg, NEW v \in Int, NoSpOperand => i # SP
    PROVE  Moved(t, sreg(t, n, i, v))
<1>1. Written(t, sreg(t, n, i, v), n, i, v)  BY SetReg
<1>2. SP \in Reg  BY DEF SP, Reg
<1>3. QED  BY <1>1, <1>2 DEF Written, Moved, Upper, SameBut

LEMMA MovedStore ==
    ASSUME StackSizes, NEW t \in Machine, NEW seg \in {"SS", "DS"}, NEW a \in Int, NEW n \in {1, 2}, NEW v \in Int
    PROVE  Moved(t, Store(t, seg, a, n, v))
<1>1. Stored(t, Store(t, seg, a, n, v), seg, a, n, v)  BY StoreIs
<1>2. QED  BY <1>1 DEF Stored, SameBut, Moved, Upper

LEMMA MovedJump ==
    ASSUME StackSizes, NEW t \in Machine, NEW v \in Int
    PROVE  Moved(t, Jump(t, v)) /\ Moved(t, SetCS(t, v))
           /\ Jump(t, v).r = t.r /\ Jump(t, v).mem = t.mem /\ SetCS(t, v).r = t.r /\ SetCS(t, v).mem = t.mem
           /\ Jump(t, v).ip = v % W /\ SetCS(t, v).ip = t.ip /\ SetCS(t, v).cs = v % H /\ Jump(t, v).cs = t.cs
           /\ Jump(t, v).fl = t.fl /\ SetCS(t, v).fl = t.fl
<1>1. v % W \in Int /\ v % H \in Int
  <2>1. W \in Nat \ {0} /\ H \in Nat \ {0}  BY Sizes
  <2>2. QED  BY <2>1, ModInt, Zenon
<1>2. Jump(t, v) = [t EXCEPT !.ip = v % W] /\ SetCS(t, v) = [t EXCEPT !.cs = v % H]  BY DEF Jump, SetCS
<1>3. Jump(t, v) \in Machine /\ SetCS(t, v) \in Machine  BY <1>1, <1>2 DEF Machine
<1>4. QED  BY <1>2, <1>3 DEF Machine, Moved, Upper

LEMMA MovedFlags ==
    ASSUME NEW t \in Machine, NEW v \in Int
    PROVE  Moved(t, [t EXCEPT !.fl = v])
BY DEF Machine, Moved, Upper

\* Registers.
LEMMA Regs ==
    {AX, CX, BX, SP, BP, SI, DI} \subseteq Reg /\ SP \notin {AX, CX, BX, BP, SI, DI}
BY DEF AX, CX, BX, SP, BP, SI, DI, Reg

LEMMA LregType ==
    ASSUME StackSizes, NEW t \in Machine, NEW n, NEW i \in Reg
    PROVE  t.r[i] \in Int /\ lreg(t, n, i) \in 0..(Size(n) - 1) /\ lreg(t, n, i) \in Int
<1>1. t.r[i] \in Int /\ Size(n) \in Nat \ {0}  BY Sizes DEF Machine
<1>2. t.r[i] % Size(n) \in Int /\ t.r[i] % Size(n) \in 0..(Size(n) - 1)  BY <1>1, ModInt, Zenon
<1>3. QED  BY <1>1, <1>2 DEF lreg

LEMMA BelowType ==
    ASSUME StackSizes, NEW t \in Machine, NEW k \in Int
    PROVE  Below(t, k) \in 0..(t.mask - 1) /\ Below(t, k) \in Int /\ Top(t) \in 0..(t.mask - 1) /\ Top(t) \in Int
           /\ t.r[SP] \in Int
<1>1. t.mask \in Nat \ {0} /\ t.r[SP] \in Int
  <2>1. SP \in Reg  BY Regs
  <2>2. QED  BY <2>1, Sizes DEF Machine
<1>2. t.r[SP] - k \in Int  BY <1>1
<1>3. (t.r[SP] - k) % t.mask \in 0..(t.mask - 1) /\ t.r[SP] % t.mask \in 0..(t.mask - 1)
      /\ (t.r[SP] - k) % t.mask \in Int /\ t.r[SP] % t.mask \in Int
  BY <1>1, <1>2, ModInt, Zenon
<1>4. QED  BY <1>1, <1>3 DEF Below, Top

-----------------------------------------------------------------------------
\* A plan that is precise: failing anywhere leaves the machine as it was.
LEMMA FineIs ==
    ASSUME NEW t, NEW at \in Seq({t}), NEW u, Moved(t, u)
    PROVE  Fine(t, Plan(at, u)) /\ Plan(at, u).done = u /\ Plan(at, u).at = at
BY DEF Fine, Plan, Moved

LEMMA SameSteps ==
    ASSUME NEW t
    PROVE  \A k \in Nat : Same(t, k) \in Seq({t})
BY SameIs

LEMMA FineSame ==
    ASSUME NEW t, NEW k \in Nat, NEW u, Moved(t, u)
    PROVE  Fine(t, Plan(Same(t, k), u))
BY SameSteps, FineIs

LEMMA FineMoves ==
    ASSUME StackSizes, NEW t \in Machine, NEW o \in ModRM, NEW n \in {1, 2}, NEW i \in Reg, i # SP, NEW v \in Int
    PROVE  /\ Fine(t, MOV_GE(t, n, o, i)) /\ Fine(t, MOV_EG(t, n, o, i)) /\ Fine(t, MOV_EI(t, n, o, v))
           /\ Fine(t, XCHG(t, n, o, i)) /\ Fine(t, LEA(t, n, o, i))
<1>1. OperandSteps(t, o, 0) \in Seq({t}) /\ OperandSteps(t, o, 1) \in Seq({t})  BY OperandStepsIs
<1>2. Operand(t, o, n) \in Int /\ lreg(t, n, i) \in Int  BY OperandType, LregType
<1>3. Fine(t, MOV_GE(t, n, o, i))
  <2>1. Moved(t, sreg(t, n, i, Operand(t, o, n)))  BY <1>2, MovedReg
  <2>2. QED  BY <1>1, <2>1, FineIs DEF MOV_GE
<1>4. \A x \in Int : Moved(t, SetOperand(t, o, n, x))  BY SetOperandIs DEF Moved
<1>5. Fine(t, MOV_EG(t, n, o, i)) /\ Fine(t, MOV_EI(t, n, o, v))
  BY <1>1, <1>2, <1>4, FineIs DEF MOV_EG, MOV_EI
<1>6. Fine(t, XCHG(t, n, o, i))
  <2>1. PICK u : u = sreg(t, n, i, Operand(t, o, n))  OBVIOUS
  <2>2. Moved(t, u)  BY <1>2, <2>1, MovedReg
  <2>3. u \in Machine  BY <2>2 DEF Moved
  <2>4. CASE o.mod = 3
    <3>1. o.rm \in Reg /\ (NoSpOperand => o.rm # SP)  BY <2>4 DEF StackSizes, NoSpOperand
    <3>2. Moved(u, sreg(u, n, o.rm, lreg(t, n, i)))  BY <1>2, <2>3, <3>1, MovedReg
    <3>3. Moved(t, sreg(u, n, o.rm, lreg(t, n, i)))  BY <2>2, <3>2, MovedTrans
    <3>4. XCHG(t, n, o, i) = Plan(OperandSteps(t, o, 0), sreg(u, n, o.rm, lreg(t, n, i)))
      BY <2>1, <2>4 DEF XCHG
    <3>5. QED  BY <1>1, <3>3, <3>4, FineIs
  <2>5. CASE o.mod # 3
    <3>1. PICK g \in {"SS", "DS"}, a \in Int : g = modsib(t, o).seg /\ a = modsib(t, o).addr  BY ModsibType
    <3>2. Moved(u, Store(u, g, a, n, lreg(t, n, i)))  BY <1>2, <2>3, MovedStore
    <3>3. Moved(t, Store(u, g, a, n, lreg(t, n, i)))  BY <2>2, <3>2, MovedTrans
    <3>4. XCHG(t, n, o, i) = Plan(OperandSteps(t, o, 0), Store(u, g, a, n, lreg(t, n, i)))
      BY <2>1, <2>5, <3>1 DEF XCHG
    <3>5. QED  BY <1>1, <3>3, <3>4, FineIs
  <2>6. QED  BY <2>4, <2>5
<1>7. Fine(t, LEA(t, n, o, i))
  <2>1. CASE o.mod = 3
    <3>1. Moved(t, t)  BY MovedSame
    <3>2. QED  BY <2>1, <3>1, SameSteps, FineIs DEF LEA
  <2>2. CASE o.mod # 3
    <3>1. modsib(t, o).addr \in Int /\ 1 + modsib(t, o).fetches \in Nat  BY ModsibType
    <3>2. Moved(t, sreg(t, n, i, modsib(t, o).addr))  BY <3>1, MovedReg
    <3>3. QED  BY <2>2, <3>1, <3>2, SameSteps, FineIs DEF LEA
  <2>3. QED  BY <2>1, <2>2
<1>8. QED  BY <1>3, <1>5, <1>6, <1>7

LEMMA FineJumps ==
    ASSUME StackSizes, NEW t \in Machine, NEW o \in ModRM, NEW n \in {1, 2}, NEW d \in Int, NEW want, NEW zf
    PROVE  /\ Fine(t, JMP(t, d)) /\ Fine(t, JMPABS(t, n, o)) /\ Fine(t, LOOP(t, n, d, want, zf))
           /\ Fine(t, JCXZ(t, n, d))
<1>1. OperandSteps(t, o, 0) \in Seq({t})  BY OperandStepsIs
<1>2. t.ip \in Int /\ t.ip + d \in Int /\ Operand(t, o, n) \in Int  BY OperandType DEF Machine
<1>3. Moved(t, t)  BY MovedSame
<1>4. Same(t, 1) \in Seq({t}) /\ Same(t, 2) \in Seq({t})  BY SameSteps
<1>5. Fine(t, JMP(t, d)) /\ Fine(t, JMPABS(t, n, o))  BY <1>1, <1>2, <1>4, MovedJump, FineIs DEF JMP, JMPABS
<1>6. Fine(t, JCXZ(t, n, d))
  <2>1. CASE lreg(t, n, CX) = 0  BY <1>2, <1>4, <2>1, MovedJump, FineIs DEF JCXZ
  <2>2. CASE lreg(t, n, CX) # 0  BY <1>3, <1>4, <2>2, FineIs DEF JCXZ
  <2>3. QED  BY <2>1, <2>2
<1>8. Fine(t, LOOP(t, n, d, want, zf))
  <2>1. PICK u : u = sreg(t, n, CX, lreg(t, n, CX) - 1)  OBVIOUS
  <2>2. Moved(t, u) /\ u \in Machine
    <3>1. CX \in Reg /\ CX # SP  BY Regs
    <3>2. lreg(t, n, CX) - 1 \in Int  BY <3>1, LregType
    <3>3. QED  BY <2>1, <3>1, <3>2, MovedReg DEF Moved
  <2>3. u.ip + d \in Int  BY <2>2 DEF Machine
  <2>4. Moved(t, Jump(u, u.ip + d))  BY <2>2, <2>3, MovedJump, MovedTrans
  <2>5. PICK w : w = IF lreg(u, n, CX) # 0 /\ zf \in want THEN Jump(u, u.ip + d) ELSE u  OBVIOUS
  <2>6. Moved(t, w)  BY <2>2, <2>4, <2>5
  <2>7. LOOP(t, n, d, want, zf) = Plan(Same(t, 1), w)  BY <2>1, <2>5 DEF LOOP
  <2>8. QED  BY <1>4, <2>6, <2>7, FineIs
<1>9. QED  BY <1>5, <1>6, <1>8

LEMMA FinePush ==
    ASSUME StackSizes, NEW t \in Machine, NEW n \in {1, 2}, NEW w \in {1, 2}, NEW v \in Int, NEW pre \in Nat
    PROVE  /\ Moved(t, Store(set_sp(t, t.r[SP] - n), "SS", Below(t, n), w, v))
           /\ Fine(t, PUSH(t, n, pre, v))
<1>1. t.r[SP] - n \in Int /\ Below(t, n) \in Int  BY BelowType
<1>2. Moved(t, set_sp(t, t.r[SP] - n))  BY <1>1, MovedSp
<1>3. set_sp(t, t.r[SP] - n) \in Machine  BY <1>2 DEF Moved
<1>4. \A x \in {1, 2} : Moved(t, Store(set_sp(t, t.r[SP] - n), "SS", Below(t, n), x, v))
  <2>1. TAKE x \in {1, 2}
  <2>2. Moved(set_sp(t, t.r[SP] - n), Store(set_sp(t, t.r[SP] - n), "SS", Below(t, n), x, v))
    BY <1>1, <1>3, MovedStore
  <2>3. QED  BY <1>2, <2>2, MovedTrans
<1>5. pre + 1 \in Nat  OBVIOUS
<1>6. QED  BY <1>4, <1>5, FineSame DEF PUSH

LEMMA FinePushes ==
    ASSUME StackSizes, NEW t \in Machine, NEW o \in ModRM, NEW n \in {1, 2}, NEW d \in Int
    PROVE  /\ Fine(t, PUSH_E(t, n, o)) /\ Fine(t, PUSHSeg(t, n, d)) /\ Fine(t, CALL(t, n, d))
           /\ Fine(t, CALLABS(t, n, o))
<1>1. Operand(t, o, n) \in Int /\ Len(OperandSteps(t, o, 0)) \in Nat  BY OperandType, OperandStepsIs
<1>2. Fine(t, PUSH_E(t, n, o))  BY <1>1, FinePush DEF PUSH_E
<1>3. Fine(t, PUSHSeg(t, n, d))
  <2>1. Moved(t, Store(set_sp(t, t.r[SP] - n), "SS", Below(t, n), 1, d))  BY FinePush
  <2>2. QED  BY <2>1, FineSame DEF PUSHSeg
<1>4. t.ip \in Int /\ t.ip + d \in Int  BY DEF Machine
<1>5. \A pre \in Nat, x \in Int : Fine(t, Plan(PUSH(t, n, pre, t.ip).at, Jump(PUSH(t, n, pre, t.ip).done, x)))
  <2>1. TAKE pre \in Nat, x \in Int
  <2>2. Fine(t, PUSH(t, n, pre, t.ip))  BY <1>4, FinePush
  <2>3. PICK p : p = PUSH(t, n, pre, t.ip)  OBVIOUS
  <2>4. p.at \in Seq({t}) /\ Moved(t, p.done) /\ p.done \in Machine  BY <2>2, <2>3 DEF Fine, Moved
  <2>5. Moved(t, Jump(p.done, x))  BY <2>4, MovedJump, MovedTrans
  <2>6. QED  BY <2>3, <2>4, <2>5, FineIs
<1>6. Fine(t, CALL(t, n, d))  BY <1>4, <1>5 DEF CALL
<1>7. Fine(t, CALLABS(t, n, o))  BY <1>1, <1>5 DEF CALLABS
<1>8. QED  BY <1>2, <1>3, <1>6, <1>7

\* SP moved and put back is the machine of the start (POP_helper).
LEMMA Undone ==
    ASSUME StackSizes, NEW t \in Machine, NEW v \in Int
    PROVE  set_sp(set_sp(t, v), t.r[SP]) = t
<1>1. PICK u : u = set_sp(t, v)  OBVIOUS
<1>2. u \in Machine /\ SameBut(t, u, {"r"}) /\ u.r[SP] \div t.mask = t.r[SP] \div t.mask  BY <1>1, SetSp
<1>3. \A i \in Reg : i # SP => u.r[i] = t.r[i]  BY <1>1, SetSp
<1>4. PICK w : w = set_sp(u, t.r[SP])  OBVIOUS
<1>5. t.r[SP] \in Int /\ u.r[SP] \in Int /\ u.mask = t.mask  BY <1>2, BelowType DEF SameBut
<1>6. w \in Machine /\ SameBut(u, w, {"r"})  BY <1>2, <1>4, <1>5, SetSp
<1>7. w.r[SP] \div t.mask = t.r[SP] \div t.mask /\ w.r[SP] % t.mask = t.r[SP] % t.mask
  <2>1. w.r[SP] % u.mask = t.r[SP] % u.mask /\ w.r[SP] \div u.mask = u.r[SP] \div u.mask
    BY <1>2, <1>4, <1>5, SetSp
  <2>2. QED  BY <1>2, <1>5, <2>1
<1>8. \A i \in Reg : i # SP => w.r[i] = u.r[i]  BY <1>2, <1>4, <1>5, SetSp
<1>9. w.r[SP] = t.r[SP]
  <2>1. PICK M \in Nat \ {0}, x \in Int, y \in Int : M = t.mask /\ x = w.r[SP] /\ y = t.r[SP]
    BY <1>5, <1>6, Sizes, BelowType
  <2>2. PICK p \in Int, a \in 0 .. M - 1 : x = M * p + a /\ x % M = a /\ x \div M = p  BY DivMod
  <2>3. PICK q \in Int, b \in 0 .. M - 1 : y = M * q + b /\ y % M = b /\ y \div M = q  BY DivMod
  <2>4. x % M = y % M /\ x \div M = y \div M  BY <1>7, <2>1
  <2>5. a = b /\ p = q  BY <2>2, <2>3, <2>4
  <2>6. QED  BY <2>1, <2>2, <2>3, <2>5
<1>10. w.r = t.r
  <2>1. w.r \in [Reg -> Int] /\ t.r \in [Reg -> Int]  BY <1>6 DEF Machine
  <2>2. \A i \in Reg : w.r[i] = t.r[i]  BY <1>3, <1>8, <1>9
  <2>3. QED  BY <2>1, <2>2
<1>11. w.mem = t.mem /\ w.ip = t.ip /\ w.cs = t.cs /\ w.fl = t.fl /\ w.mask = t.mask
  BY <1>2, <1>6 DEF SameBut
<1>12. w = t  BY <1>6, <1>10, <1>11 DEF Machine
<1>13. QED  BY <1>1, <1>4, <1>12

LEMMA JoinSteps ==
    ASSUME NEW t, NEW a \in Seq({t}), NEW b \in Seq({t})
    PROVE  a \o b \in Seq({t})
OBVIOUS

LEMMA FinePops ==
    ASSUME StackSizes, NEW t \in Machine, NEW o \in ModRM, NEW n \in {1, 2}, NEW i \in Reg, i # SP, NEW k \in Int
    PROVE  /\ Fine(t, POPReg(t, n, i)) /\ Fine(t, POP(t, n, o)) /\ Fine(t, POPF(t, n))
           /\ Fine(t, RET(t, n, k))
<1>1. t.r[SP] \in Int /\ t.r[BP] \in Int /\ Top(t) \in Int /\ BP \in Reg /\ BP # SP  BY BelowType, Regs, LregType
<1>2. \A x \in Int : Moved(t, set_sp(t, x)) /\ set_sp(t, x) \in Machine  BY MovedSp DEF Moved
<1>3. PICK v \in Int : v = Load(t, "SS", Top(t), n)  BY <1>1, LoadType
<1>4. PICK u : u = set_sp(t, t.r[SP] + n)  OBVIOUS
<1>5. Moved(t, u) /\ u \in Machine  BY <1>1, <1>2, <1>4
<1>6. Fine(t, POPReg(t, n, i))
  <2>1. Moved(t, sreg(u, n, i, v))  BY <1>5, MovedReg, MovedTrans
  <2>2. POPReg(t, n, i) = Plan(Same(t, 1), sreg(u, n, i, v))  BY <1>3, <1>4 DEF POPReg
  <2>3. QED  BY <2>1, <2>2, FineSame
<1>7. Fine(t, POP(t, n, o))
  <2>1. set_sp(u, t.r[SP]) = t  BY <1>1, <1>4, Undone
  <2>2. modsib(u, o).fetches + 1 \in Nat  BY <1>5, ModsibType
  <2>3. PICK b \in Seq({t}) : b = IF o.mod = 3 THEN <<>> ELSE Same(t, modsib(u, o).fetches + 1)
    <3>1. Same(t, modsib(u, o).fetches + 1) \in Seq({t}) /\ <<>> \in Seq({t})  BY <2>2, SameSteps
    <3>2. QED  BY <3>1
  <2>4. Same(t, 2) \o b \in Seq({t})  BY SameSteps, JoinSteps
  <2>5. Moved(u, SetOperand(u, o, n, v))  BY <1>5, SetOperandIs DEF Moved
  <2>6. Moved(t, SetOperand(u, o, n, v))  BY <1>5, <2>5, MovedTrans
  <2>7. POP(t, n, o) = Plan(Same(t, 2) \o b, SetOperand(u, o, n, v))  BY <1>3, <1>4, <2>1, <2>3 DEF POP
  <2>8. PICK c \in Seq({t}) : c = Same(t, 2) \o b  BY <2>4
  <2>9. Fine(t, Plan(c, SetOperand(u, o, n, v)))  BY <2>6, FineIs
  <2>10. QED  BY <2>7, <2>8, <2>9
<1>8. Fine(t, POPF(t, n))
  <2>1. (t.fl - (t.fl % H)) + v \in Int
    <3>1. t.fl \in Int /\ H \in Nat \ {0}  BY Sizes DEF Machine
    <3>2. t.fl % H \in Int  BY <3>1, ModInt, Zenon
    <3>3. QED  BY <3>1, <3>2
  <2>2. PICK f \in Int : f = IF n = 1 THEN (t.fl - (t.fl % H)) + v ELSE v  BY <2>1
  <2>3. POPF(t, n) = Plan(Same(t, 1), [u EXCEPT !.fl = f])  BY <1>3, <1>4, <2>2 DEF POPF
  <2>4. Moved(t, [u EXCEPT !.fl = f])  BY <1>5, MovedFlags, MovedTrans
  <2>5. QED  BY <2>3, <2>4, FineSame
<1>9. Fine(t, RET(t, n, k))
  <2>1. t.r[SP] + n + k \in Int  BY <1>1
  <2>2. PICK x : x = set_sp(t, t.r[SP] + n + k)  OBVIOUS
  <2>3. Moved(t, x) /\ x \in Machine  BY <1>2, <2>1, <2>2
  <2>4. Moved(t, Jump(x, v))  BY <2>3, MovedJump, MovedTrans
  <2>5. RET(t, n, k) = Plan(Same(t, 1), Jump(x, v))  BY <1>3, <2>2 DEF RET
  <2>6. QED  BY <2>4, <2>5, FineSame
<1>10. QED  BY <1>6, <1>7, <1>8, <1>9

\* Far transfers, and frames.
LEMMA FineFar ==
    ASSUME StackSizes, NEW t \in Machine, NEW n \in {1, 2}, NEW d \in Int, NEW c \in Int, NEW alloc \in Int, NEW k \in Int
    PROVE  /\ Fine(t, JMPFAR(t, d, c)) /\ Fine(t, CALLFAR(t, n, d, c)) /\ Fine(t, ENTER(t, n, alloc))
           /\ Fine(t, RETFAR(t, n, k)) /\ Fine(t, IRET(t)) /\ Fine(t, LEAVE(t, n))
<1>1. t.r[SP] \in Int /\ t.r[BP] \in Int /\ Top(t) \in Int /\ BP \in Reg /\ BP # SP  BY BelowType, Regs, LregType
<1>2. \A x \in Int : Moved(t, set_sp(t, x)) /\ set_sp(t, x) \in Machine  BY MovedSp DEF Moved
<1>3. PICK v \in Int : v = Load(t, "SS", Top(t), n)  BY <1>1, LoadType
<1>4. t.ip \in Int /\ t.cs \in Int /\ Same(t, 2) \in Seq({t})  BY SameSteps DEF Machine
<1>7. Fine(t, JMPFAR(t, d, c))
  <2>1. Moved(t, SetCS(t, c)) /\ SetCS(t, c) \in Machine  BY MovedJump DEF Moved
  <2>2. Moved(SetCS(t, c), Jump(SetCS(t, c), d))  BY <2>1, MovedJump
  <2>3. QED  BY <1>4, <2>1, <2>2, MovedTrans, FineIs DEF JMPFAR
<1>8. t.r[SP] - 2 * n \in Int /\ t.r[SP] - n - alloc \in Int /\ Below(t, n) \in Int /\ Below(t, 2 * n) \in Int
      /\ t.r[BP] \in Int
  <2>1. 2 * n \in Int /\ n \in Int  OBVIOUS
  <2>2. QED  BY <2>1, BelowType, Regs, LregType
<1>9. Fine(t, CALLFAR(t, n, d, c))
  <2>1. PICK u : u = set_sp(t, t.r[SP] - 2 * n)  OBVIOUS
  <2>2. Moved(t, u) /\ u \in Machine  BY <1>8, <2>1, MovedSp DEF Moved
  <2>3. PICK w : w = Store(u, "SS", Below(t, n), n, t.cs)  OBVIOUS
  <2>4. Moved(t, w) /\ w \in Machine
    <3>1. Moved(u, w)  BY <1>4, <1>8, <2>2, <2>3, MovedStore
    <3>2. Moved(t, w)  BY <2>2, <3>1, MovedTrans
    <3>3. QED  BY <3>2 DEF Moved
  <2>5. PICK x : x = Store(w, "SS", Below(t, 2 * n), n, t.ip)  OBVIOUS
  <2>6. Moved(t, x) /\ x \in Machine
    <3>1. Moved(w, x)  BY <1>4, <1>8, <2>4, <2>5, MovedStore
    <3>2. Moved(t, x)  BY <2>4, <3>1, MovedTrans
    <3>3. QED  BY <3>2 DEF Moved
  <2>7. Moved(t, SetCS(x, c)) /\ SetCS(x, c) \in Machine  BY <2>6, MovedJump, MovedTrans DEF Moved
  <2>8. Moved(t, Jump(SetCS(x, c), d))  BY <2>7, MovedJump, MovedTrans
  <2>9. CALLFAR(t, n, d, c) = Plan(Same(t, 4), Jump(SetCS(x, c), d))
    BY <2>1, <2>3, <2>5 DEF CALLFAR
  <2>10. QED  BY <2>8, <2>9, FineSame
<1>10. Fine(t, ENTER(t, n, alloc))
  <2>1. PICK u : u = set_sp(t, t.r[SP] - n - alloc)  OBVIOUS
  <2>2. Moved(t, u) /\ u \in Machine  BY <1>8, <2>1, MovedSp DEF Moved
  <2>3. PICK w : w = Store(u, "SS", Below(t, n), n, t.r[BP])  OBVIOUS
  <2>4. Moved(t, w) /\ w \in Machine
    <3>1. Moved(u, w)  BY <1>8, <2>2, <2>3, MovedStore
    <3>2. Moved(t, w)  BY <2>2, <3>1, MovedTrans
    <3>3. QED  BY <3>2 DEF Moved
  <2>5. BP \in Reg /\ BP # SP  BY Regs
  <2>6. Moved(t, sreg(w, n, BP, Below(t, n)))  BY <1>8, <2>4, <2>5, MovedReg, MovedTrans
  <2>7. ENTER(t, n, alloc) = Plan(Same(t, 3), sreg(w, n, BP, Below(t, n)))  BY <2>1, <2>3 DEF ENTER
  <2>8. QED  BY <2>6, <2>7, FineSame
<1>11. Fine(t, RETFAR(t, n, k))
  <2>1. t.r[SP] + 2 * n + k \in Int /\ -n \in Int  BY <1>1
  <2>2. PICK x : x = set_sp(t, t.r[SP] + 2 * n + k)  OBVIOUS
  <2>3. Moved(t, x) /\ x \in Machine  BY <1>2, <2>1, <2>2
  <2>4. PICK s \in Int : s = Load(t, "SS", Below(t, -n), n)  BY <2>1, BelowType, LoadType
  <2>5. Moved(t, SetCS(x, s)) /\ SetCS(x, s) \in Machine  BY <2>3, MovedJump, MovedTrans DEF Moved
  <2>6. Moved(t, Jump(SetCS(x, s), v))  BY <2>5, MovedJump, MovedTrans
  <2>7. RETFAR(t, n, k) = Plan(Same(t, 2), Jump(SetCS(x, s), v))  BY <1>3, <2>2, <2>4 DEF RETFAR
  <2>8. QED  BY <2>6, <2>7, FineSame
<1>12. Fine(t, IRET(t))
  <2>1. t.r[SP] + 3 \in Int /\ -1 \in Int /\ -2 \in Int /\ 1 \in {1, 2}  BY <1>1
  <2>2. PICK x : x = set_sp(t, t.r[SP] + 3)  OBVIOUS
  <2>3. Moved(t, x) /\ x \in Machine  BY <1>2, <2>1, <2>2
  <2>4. PICK s \in Int, y \in Int, f \in Int :
          s = Load(t, "SS", Below(t, -1), 1) /\ y = Load(t, "SS", Top(t), 1) /\ f = Load(t, "SS", Below(t, -2), 1)
    <3>1. Below(t, -1) \in Int /\ Below(t, -2) \in Int  BY <2>1, BelowType
    <3>2. QED  BY <1>1, <2>1, <3>1, LoadType
  <2>5. Moved(t, SetCS(x, s)) /\ SetCS(x, s) \in Machine  BY <2>3, <2>4, MovedJump, MovedTrans DEF Moved
  <2>6. Moved(t, Jump(SetCS(x, s), y)) /\ Jump(SetCS(x, s), y) \in Machine
    BY <2>4, <2>5, MovedJump, MovedTrans DEF Moved
  <2>7. PICK g \in Int : g = (t.fl - (t.fl % H)) + f
    <3>1. t.fl \in Int /\ H \in Nat \ {0}  BY Sizes DEF Machine
    <3>2. t.fl % H \in Int  BY <3>1, ModInt, Zenon
    <3>3. QED  BY <2>4, <3>1, <3>2
  <2>8. Moved(t, [Jump(SetCS(x, s), y) EXCEPT !.fl = g])  BY <2>6, MovedFlags, MovedTrans
  <2>9. IRET(t) = Plan(Same(t, 3), [Jump(SetCS(x, s), y) EXCEPT !.fl = g])  BY <2>2, <2>4, <2>7 DEF IRET
  <2>10. QED  BY <2>8, <2>9, FineSame
<1>13. Fine(t, LEAVE(t, n))
  <2>1. PICK a \in Int : a = t.r[BP] % t.mask
    <3>1. t.mask \in Nat \ {0}  BY Sizes
    <3>2. t.r[BP] % t.mask \in Int  BY <1>1, <3>1, ModInt, Zenon
    <3>3. QED  BY <3>2
  <2>2. t.r[BP] + n \in Int  BY <1>1
  <2>3. PICK x : x = set_sp(t, t.r[BP] + n)  OBVIOUS
  <2>4. Moved(t, x) /\ x \in Machine  BY <1>2, <2>2, <2>3
  <2>5. PICK y \in Int : y = Load(t, "SS", a, n)  BY <2>1, LoadType
  <2>6. Moved(t, sreg(x, n, BP, y))  BY <1>1, <2>4, <2>5, MovedReg, MovedTrans
  <2>7. LEAVE(t, n) = Plan(Same(t, 1), sreg(x, n, BP, y))  BY <2>1, <2>3, <2>5 DEF LEAVE
  <2>8. QED  BY <2>6, <2>7, FineSame
<1>14. QED  BY <1>7, <1>9, <1>10, <1>11, <1>12, <1>13

-----------------------------------------------------------------------------
(* What a store below SP does to what is above it.                         *)

\* Whatever lies at or above the SP of t, if what is below takes up to room.
Above(t, u, room) ==
    \A s \in Nat, w \in {1, 2} : s + w + room <= t.mask => LoadKept(t, u, At(t.mask, t.r[SP], s), w)

\* u is t with SP moved by k cells.
SpMoved(t, u, k) == u \in Machine /\ u.mask = t.mask /\ Cong(t.mask, u.r[SP], t.r[SP] + k)

LEMMA SpType ==
    ASSUME NEW t \in Machine
    PROVE  t.r[SP] \in Int
BY Regs DEF Machine

LEMMA AtType ==
    ASSUME NEW M \in Nat \ {0}, NEW sp \in Int, NEW s \in Int
    PROVE  At(M, sp, s) \in Int /\ At(M, sp, s) \in 0 .. M - 1
<1>1. sp + s \in Int  OBVIOUS
<1>2. QED  BY <1>1, ModInt, Zenon DEF At

LEMMA MovedAt ==
    ASSUME StackSizes, NEW t \in Machine, NEW u \in Machine, NEW k \in Int, SpMoved(t, u, k),
           NEW s \in Int, NEW l, l = k + s
    PROVE  At(u.mask, u.r[SP], s) = At(t.mask, t.r[SP], l)
<1>1. PICK M \in Nat \ {0}, x \in Int, y \in Int : M = t.mask /\ x = u.r[SP] /\ y = t.r[SP]
  BY SpType, Sizes
<1>2. u.mask = M /\ Cong(M, x, y + k)  BY <1>1 DEF SpMoved
<1>3. PICK z \in Int : z = y + k /\ Cong(M, x, z)  BY <1>2
<1>4. At(M, x, s) = At(M, y, l)
  <2>1. Cong(M, x + s, z + s)  BY <1>3, CongShift
  <2>2. z + s = y + l  BY <1>3
  <2>3. Cong(M, x + s, y + l)  BY <2>1, <2>2
  <2>4. QED  BY <2>3 DEF Cong, At
<1>5. QED  BY <1>1, <1>2, <1>4

LEMMA AtBelow ==
    ASSUME StackSizes, NEW t \in Machine
    PROVE  /\ \A k \in Int : Below(t, k) = At(t.mask, t.r[SP], -k)
           /\ Top(t) = At(t.mask, t.r[SP], 0)
           /\ \A s \in Int : At(t.mask, t.r[SP], s) \in Int
<1>1. t.r[SP] \in Int /\ t.mask \in Nat \ {0}  BY BelowType, Sizes
<1>2. t.r[SP] + 0 = t.r[SP] /\ \A k \in Int : t.r[SP] + (-k) = t.r[SP] - k  BY <1>1
<1>3. QED  BY <1>1, <1>2, AtType DEF Below, Top, At

LEMMA SameLoads ==
    ASSUME StackSizes, NEW u, NEW w, w.mem["SS"] = u.mem["SS"]
    PROVE  \A a \in Int, n \in {1, 2} : LoadKept(u, w, a, n)
BY DEF Load, LoadKept

LEMMA AboveSame ==
    ASSUME StackSizes, NEW t \in Machine, NEW u, NEW w, NEW room \in Int, Above(t, u, room), w.mem["SS"] = u.mem["SS"]
    PROVE  Above(t, w, room)
<1>1. \A a \in Int, n \in {1, 2} : LoadKept(u, w, a, n)  BY SameLoads
<1>2. \A s \in Nat : At(t.mask, t.r[SP], s) \in Int  BY AtBelow
<1>3. \A s \in Nat, n \in {1, 2} : LoadKept(u, w, At(t.mask, t.r[SP], s), n)  BY <1>1, <1>2
<1>4. QED  BY <1>3 DEF Above, LoadKept

LEMMA AboveStart ==
    ASSUME StackSizes, NEW t \in Machine, NEW room \in Int
    PROVE  Above(t, t, room)
BY DEF Above, LoadKept

LEMMA AboveLess ==
    ASSUME StackSizes, NEW t \in Machine, NEW u, NEW k \in Int, NEW room \in Int, k <= room, Above(t, u, k)
    PROVE  Above(t, u, room)
<1>1. t.mask \in Nat  BY Sizes
<1>2. QED  BY <1>1 DEF Above

\* A store of n cells, back cells under SP, leaves what is above it.
LEMMA AboveStore ==
    ASSUME StackSizes, NEW t \in Machine, NEW u \in Machine, u.mask = t.mask,
           NEW room \in Int, Above(t, u, room),
           NEW n \in {1, 2}, NEW back \in Int, n <= back, back <= room, NEW v \in Int
    PROVE  Above(t, Store(u, "SS", Below(t, back), n, v), room)
<1>1. SUFFICES ASSUME NEW s \in Nat, NEW w \in {1, 2}, s + w + room <= t.mask
               PROVE  LoadKept(t, Store(u, "SS", Below(t, back), n, v), At(t.mask, t.r[SP], s), w)
  BY DEF Above
<1>2. t.r[SP] \in Int /\ t.mask \in Nat \ {0}  BY BelowType, Sizes
<1>3. Below(t, back) = At(u.mask, t.r[SP], -back)  BY AtBelow
<1>4. PICK x \in Int : x = -back  OBVIOUS
<1>8. Clear(u.mask, x, n, s, w) /\ s \in Int  BY <1>1, <1>2, <1>4 DEF Clear
<1>5. LoadKept(u, Store(u, "SS", At(u.mask, t.r[SP], x), n, v), At(u.mask, t.r[SP], s), w)
  BY <1>2, <1>8, StoreBelow
<1>6. LoadKept(t, u, At(t.mask, t.r[SP], s), w)  BY <1>1 DEF Above
<1>7. QED  BY <1>3, <1>4, <1>5, <1>6 DEF LoadKept

-----------------------------------------------------------------------------
(* The entries: each lies on the next, and they end where SP is.           *)

Extent(e) == IF e.kind = "all" THEN 8 * e.n ELSE e.n
Width(e) == IF e.kind = "seg" THEN 1 ELSE e.n
Value(e) == IF e.kind = "seg" THEN e.v % H ELSE e.v
\* The cells under entry i.
Under(es, i) == IF i = Len(es) THEN 0 ELSE es[i + 1].deep + es[i + 1].gap

Kinds == {"data", "flags", "seg", "all", "ip", "far", "cs", "frame"}
Entries == [kind : Kinds, at : Int, n : {1, 2}, deep : Nat, gap : Nat, v : Nat]

Shape(M, es) ==
    /\ es \in Seq(Entries)
    /\ Depth(es) \in 0..M
    /\ \A i \in DOMAIN es :
          /\ es[i].v \in 0..(Size(es[i].n) - 1)
          /\ es[i].kind # "frame" => es[i].gap = 0
          /\ es[i].deep = Extent(es[i]) + Under(es, i)
          /\ es[i].kind = "far" => i < Len(es) /\ es[i + 1].kind = "cs" /\ es[i + 1].n = es[i].n
    /\ \A i, j \in DOMAIN es : i < j => es[j].deep + es[j].gap + Extent(es[i]) <= es[i].deep

Placed(t, es) ==
    \A i \in DOMAIN es : es[i].at = At(t.mask, t.r[SP], Depth(es) - es[i].deep)
Held(t, es) == \A i \in DOMAIN es : Load(t, "SS", es[i].at, Width(es[i])) = Value(es[i])

Layout(t, es) == Shape(t.mask, es) /\ Placed(t, es) /\ Held(t, es)

LEMMA DepthIs ==
    ASSUME NEW M, NEW es, Shape(M, es)
    PROVE  /\ \A i \in DOMAIN es : /\ es[i] \in Entries /\ es[i].deep \in Nat /\ es[i].gap \in Nat /\ es[i].n \in {1, 2}
                                   /\ es[i].at \in Int /\ es[i].v \in Nat /\ es[i].kind \in Kinds
                                   /\ Extent(es[i]) \in Nat /\ Width(es[i]) \in {1, 2}
                                   /\ Width(es[i]) <= Extent(es[i]) /\ Extent(es[i]) <= es[i].deep
                                   /\ es[i].deep + es[i].gap <= Depth(es)
           /\ Len(es) \in Nat /\ DOMAIN es = 1..Len(es) /\ Depth(es) \in Nat
<1>1. es \in Seq(Entries)  BY DEF Shape
<1>2. Len(es) \in Nat /\ DOMAIN es = 1..Len(es)  BY <1>1
<1>3. Depth(es) \in Nat  BY DEF Shape
<1>4. ASSUME NEW i \in DOMAIN es
      PROVE  /\ es[i] \in Entries /\ es[i].deep \in Nat /\ es[i].gap \in Nat /\ es[i].n \in {1, 2}
             /\ es[i].at \in Int /\ es[i].v \in Nat /\ es[i].kind \in Kinds
             /\ Extent(es[i]) \in Nat /\ Width(es[i]) \in {1, 2} /\ Width(es[i]) <= Extent(es[i])
  <2>1. es[i] \in Entries  BY <1>1, <1>4
  <2>2. /\ es[i].deep \in Nat /\ es[i].gap \in Nat /\ es[i].n \in {1, 2}
        /\ es[i].at \in Int /\ es[i].v \in Nat /\ es[i].kind \in Kinds
    BY <2>1 DEF Entries
  <2>3. QED  BY <2>1, <2>2 DEF Extent, Width
<1>5. ASSUME NEW i \in DOMAIN es PROVE Extent(es[i]) <= es[i].deep
  <2>1. Under(es, i) \in Nat
    <3>1. CASE i = Len(es)  BY <3>1 DEF Under
    <3>2. CASE i # Len(es)
      <4>1. i + 1 \in DOMAIN es  BY <1>2, <3>2
      <4>2. QED  BY <1>4, <3>2, <4>1 DEF Under
    <3>3. QED  BY <3>1, <3>2
  <2>2. es[i].deep = Extent(es[i]) + Under(es, i)  BY DEF Shape
  <2>3. QED  BY <1>4, <2>1, <2>2
<1>6. ASSUME NEW i \in DOMAIN es PROVE es[i].deep + es[i].gap <= Depth(es)
  <2>1. es # <<>> /\ 1 \in DOMAIN es  BY <1>2
  <2>2. Depth(es) = es[1].deep + es[1].gap  BY <2>1 DEF Depth
  <2>3. CASE i = 1  BY <1>4, <2>2, <2>3
  <2>4. CASE i # 1
    <3>1. 1 < i  BY <1>2, <2>4
    <3>2. es[i].deep + es[i].gap + Extent(es[1]) <= es[1].deep  BY <2>1, <3>1 DEF Shape
    <3>3. Extent(es[1]) \in Nat /\ es[1].deep \in Nat /\ es[1].gap \in Nat  BY <1>4, <2>1
    <3>4. es[i].deep \in Nat /\ es[i].gap \in Nat  BY <1>4
    <3>5. QED  BY <2>2, <3>2, <3>3, <3>4
  <2>5. QED  BY <2>3, <2>4
<1>7. QED  BY <1>2, <1>3, <1>4, <1>5, <1>6

\* The machine may change above the stack, or SP by whole turns.
LEMMA LayoutKept ==
    ASSUME StackSizes, NEW t \in Machine, NEW es, Layout(t, es), NEW u \in Machine, u.mask = t.mask,
           Cong(t.mask, u.r[SP], t.r[SP]), u.mem["SS"] = t.mem["SS"]
    PROVE  Layout(u, es)
<1>1. Shape(t.mask, es) /\ Placed(t, es) /\ Held(t, es)  BY DEF Layout
<1>2. t.mask \in Nat \ {0} /\ t.r[SP] \in Int /\ u.r[SP] \in Int  BY Sizes, BelowType
<1>3. Placed(u, es)
  <2>1. SUFFICES ASSUME NEW i \in DOMAIN es PROVE es[i].at = At(u.mask, u.r[SP], Depth(es) - es[i].deep)
    BY DEF Placed
  <2>2. PICK k \in Int : k = Depth(es) - es[i].deep
    <3>1. es[i].deep \in Nat /\ Depth(es) \in Nat  BY <1>1, DepthIs
    <3>2. QED  BY <3>1
  <2>3. Cong(t.mask, u.r[SP] + k, t.r[SP] + k)  BY <1>2, CongShift
  <2>4. es[i].at = At(t.mask, t.r[SP], k)  BY <1>1, <2>2 DEF Placed
  <2>5. QED  BY <2>2, <2>3, <2>4 DEF Cong, At
<1>4. Held(u, es)
  <2>1. SUFFICES ASSUME NEW i \in DOMAIN es PROVE Load(u, "SS", es[i].at, Width(es[i])) = Value(es[i])
    BY DEF Held
  <2>2. es[i].at \in Int /\ Width(es[i]) \in {1, 2}  BY <1>1, DepthIs
  <2>3. LoadKept(t, u, es[i].at, Width(es[i]))  BY <2>2, SameLoads
  <2>4. QED  BY <1>1, <2>3 DEF Held, LoadKept
<1>5. QED  BY <1>1, <1>3, <1>4 DEF Layout

LEMMA LayoutEmpty ==
    ASSUME StackSizes, NEW u \in Machine
    PROVE  Layout(u, <<>>)
<1>1. u.mask \in Nat  BY Sizes
<1>2. <<>> \in Seq(Entries) /\ DOMAIN <<>> = {} /\ Depth(<<>>) = 0  BY DEF Depth
<1>3. QED  BY <1>1, <1>2 DEF Layout, Shape, Placed, Held

Rest(es, k) == SubSeq(es, k + 1, Len(es))

IsRest(es, k, rest, len) ==
    /\ len \in Nat /\ len = Len(es) /\ DOMAIN es = 1..len /\ k \in 0..len
    /\ Len(rest) = len - k /\ DOMAIN rest = 1..(len - k) /\ rest \in Seq(Entries)
    /\ \A i \in 1..(len - k) : rest[i] = es[k + i] /\ k + i \in 1..len

LEMMA RestIs ==
    ASSUME NEW es \in Seq(Entries), NEW k \in 0..Len(es)
    PROVE  IsRest(es, k, Rest(es, k), Len(es))
<1> DEFINE S == Entries
<1> DEFINE rest == Rest(es, k)
<1> es \in Seq(S)  OBVIOUS
<1> USE DEF Rest
<1>1. PICK len \in Nat : len = Len(es) /\ k \in 0..len  OBVIOUS
<1>2. \A i \in (k + 1)..len : es[i] \in S  BY <1>1
<1>3. rest \in Seq(S)  BY <1>1, <1>2
<1>4. Len(rest) = len - k  BY <1>1
<1>5. \A i \in 1..(len - k) : rest[i] = es[k + i] /\ k + i \in 1..len  BY <1>1
<1>6. QED  BY <1>1, <1>3, <1>4, <1>5 DEF IsRest

\* The first k entries come off.
LEMMA LayoutPop ==
    ASSUME StackSizes, NEW t \in Machine, NEW es, Layout(t, es), NEW k \in 0..Len(es), NEW rest,
           rest = Rest(es, k), NEW u,
           u.mem["SS"] = t.mem["SS"], SpMoved(t, u, Depth(es) - Depth(rest))
    PROVE  Layout(u, rest)
<1>1. Shape(t.mask, es) /\ Placed(t, es) /\ Held(t, es) /\ es \in Seq(Entries)  BY DEF Layout, Shape
<1>2. t.mask \in Nat \ {0} /\ t.r[SP] \in Int
  <2>1. t.mask \in Nat \ {0}  BY Sizes, Zenon
  <2>2. t.r[SP] \in Int  BY SpType
  <2>3. QED  BY <2>1, <2>2
<1>3. u \in Machine /\ u.mask = t.mask /\ u.r[SP] \in Int
  <2>1. u \in Machine /\ u.mask = t.mask  BY DEF SpMoved
  <2>2. QED  BY <2>1, SpType
<1>11. IsRest(es, k, rest, Len(es))
  <2>1. es \in Seq(Entries) /\ k \in 0..Len(es)  BY <1>1
  <2>2. IsRest(es, k, Rest(es, k), Len(es))  BY <2>1, RestIs
  <2>3. QED  BY <2>2
<1>4. PICK len \in Nat : len = Len(es) /\ DOMAIN es = 1..len  BY <1>11 DEF IsRest
<1>5. Len(rest) = len - k /\ DOMAIN rest = 1..(len - k) /\ rest \in Seq(Entries) /\ k \in 0..len
      /\ \A i \in 1..(len - k) : rest[i] = es[k + i] /\ k + i \in 1..len
  BY <1>4, <1>11 DEF IsRest
<1>6. Depth(rest) \in 0..t.mask
  <2>1. Depth(es) \in 0..t.mask  BY <1>1 DEF Shape
  <2>2. CASE rest = <<>>  BY <1>2, <2>2 DEF Depth
  <2>3. CASE rest # <<>>
    <3>1. 1 \in 1..(len - k)  BY <1>4, <1>5, <2>3
    <3>2. k + 1 \in DOMAIN es /\ Depth(rest) = es[k + 1].deep + es[k + 1].gap  BY <1>4, <1>5, <2>3, <3>1 DEF Depth
    <3>3. es[k + 1].deep \in Nat /\ es[k + 1].gap \in Nat /\ es[k + 1].deep + es[k + 1].gap <= Depth(es)
      BY <1>1, <3>2, DepthIs
    <3>4. QED  BY <1>2, <2>1, <3>2, <3>3
  <2>4. QED  BY <2>2, <2>3
<1>7. Shape(u.mask, rest)
  <2>1. ASSUME NEW i \in DOMAIN rest
        PROVE  /\ rest[i].v \in 0..(Size(rest[i].n) - 1)
               /\ rest[i].kind # "frame" => rest[i].gap = 0
               /\ rest[i].deep = Extent(rest[i]) + Under(rest, i)
               /\ rest[i].kind = "far" => i < Len(rest) /\ rest[i + 1].kind = "cs" /\ rest[i + 1].n = rest[i].n
    <3>1. PICK l \in DOMAIN es : l = k + i /\ rest[i] = es[l]  BY <1>4, <1>5
    <3>2. i = Len(rest) <=> l = Len(es)  BY <1>4, <1>5, <3>1
    <3>3. i # Len(rest) => rest[i + 1] = es[l + 1] /\ i < Len(rest)
      <4>1. i \in 1..(len - k)  BY <1>5
      <4>2. i # Len(rest) => i + 1 \in 1..(len - k) /\ i < Len(rest)  BY <1>4, <1>5, <4>1
      <4>3. k + (i + 1) = l + 1  BY <1>4, <1>5, <3>1, <4>1
      <4>4. QED  BY <1>5, <4>2, <4>3
    <3>4. Under(rest, i) = Under(es, l)  BY <3>2, <3>3 DEF Under
    <3>5. /\ es[l].v \in 0..(Size(es[l].n) - 1)
          /\ es[l].kind # "frame" => es[l].gap = 0
          /\ es[l].deep = Extent(es[l]) + Under(es, l)
          /\ es[l].kind = "far" => l < Len(es) /\ es[l + 1].kind = "cs" /\ es[l + 1].n = es[l].n
      BY <1>1 DEF Shape
    <3>6. l < Len(es) => i # Len(rest)  BY <1>4, <3>2
    <3>7. QED  BY <3>1, <3>3, <3>4, <3>5, <3>6
  <2>2. ASSUME NEW i \in DOMAIN rest, NEW j \in DOMAIN rest, i < j
        PROVE  rest[j].deep + rest[j].gap + Extent(rest[i]) <= rest[i].deep
    <3>1. PICK l \in DOMAIN es, h \in DOMAIN es : l = k + i /\ rest[i] = es[l] /\ h = k + j /\ rest[j] = es[h]  BY <1>4, <1>5
    <3>2. l < h  BY <1>4, <1>5, <2>2, <3>1
    <3>3. es[h].deep + es[h].gap + Extent(es[l]) <= es[l].deep  BY <1>1, <3>2 DEF Shape
    <3>4. QED  BY <3>1, <3>3
  <2>3. QED  BY <1>3, <1>5, <1>6, <2>1, <2>2 DEF Shape
<1>8. Placed(u, rest)
  <2>1. SUFFICES ASSUME NEW i \in DOMAIN rest PROVE rest[i].at = At(u.mask, u.r[SP], Depth(rest) - rest[i].deep)
    BY DEF Placed
  <2>2. PICK l \in DOMAIN es : l = k + i /\ rest[i] = es[l]  BY <1>4, <1>5
  <2>3. PICK d \in Int, a \in Int, b \in Int : d = es[l].deep /\ a = Depth(es) /\ b = Depth(rest)
    <3>1. es[l].deep \in Nat /\ Depth(es) \in Nat  BY <1>1, DepthIs
    <3>2. QED  BY <1>2, <1>6, <3>1
  <2>4. es[l].at = At(t.mask, t.r[SP], a - d)  BY <1>1, <2>3 DEF Placed
  <2>5. PICK x \in Int, y \in Int : x = a - b /\ y = b - d  OBVIOUS
  <2>6. SpMoved(t, u, x) /\ a - d = x + y  BY <2>3, <2>5
  <2>7. At(u.mask, u.r[SP], y) = At(t.mask, t.r[SP], a - d)  BY <1>3, <2>6, MovedAt
  <2>8. QED  BY <2>2, <2>3, <2>4, <2>5, <2>7
<1>9. Held(u, rest)
  <2>1. SUFFICES ASSUME NEW i \in DOMAIN rest PROVE Load(u, "SS", rest[i].at, Width(rest[i])) = Value(rest[i])
    BY DEF Held
  <2>2. PICK l \in DOMAIN es : rest[i] = es[l]  BY <1>4, <1>5
  <2>3. es[l].at \in Int /\ Width(es[l]) \in {1, 2}  BY <1>1, DepthIs
  <2>4. LoadKept(t, u, es[l].at, Width(es[l]))  BY <2>3, SameLoads
  <2>5. QED  BY <1>1, <2>2, <2>4 DEF Held, LoadKept
<1>10. QED  BY <1>7, <1>8, <1>9 DEF Layout

IsPush(es, e, ns, len) ==
    /\ len \in Nat /\ len = Len(es) /\ DOMAIN es = 1..len
    /\ Len(ns) = len + 1 /\ DOMAIN ns = 1..(len + 1) /\ ns \in Seq(Entries) /\ ns # <<>>
    /\ ns[1] = e /\ \A i \in 1..len : ns[i + 1] = es[i]

LEMMA PushIs ==
    ASSUME NEW es \in Seq(Entries), NEW e \in Entries
    PROVE  IsPush(es, e, <<e>> \o es, Len(es))
<1>1. PICK len \in Nat : len = Len(es) /\ DOMAIN es = 1..len  OBVIOUS
<1>2. PICK ns \in Seq(Entries) : ns = <<e>> \o es
  <2>1. <<e>> \in Seq(Entries)  OBVIOUS
  <2>2. <<e>> \o es \in Seq(Entries)  BY <2>1
  <2>3. QED  BY <2>2
<1>3. Len(ns) = len + 1 /\ DOMAIN ns = 1..(len + 1) /\ ns # <<>>  BY <1>1, <1>2
<1>4. ns[1] = e  BY <1>1, <1>2
<1>5. \A i \in 1..len : ns[i + 1] = es[i]  BY <1>1, <1>2
<1>6. QED  BY <1>1, <1>2, <1>3, <1>4, <1>5 DEF IsPush

\* An entry fits on the entries es, with k cells in all.
Fits(t, es, e, k) ==
    /\ e \in Entries /\ e.v \in 0..(Size(e.n) - 1)
    /\ e.kind # "frame" => e.gap = 0
    /\ e.deep = Depth(es) + Extent(e) /\ e.deep + e.gap = Depth(es) + k
    /\ e.kind = "far" => es # <<>> /\ es[1].kind = "cs" /\ es[1].n = e.n
    /\ e.at = At(t.mask, t.r[SP], -Extent(e))
    /\ k \in Nat /\ Depth(es) + k <= t.mask

\* One more entry.
LEMMA LayoutPush ==
    ASSUME StackSizes, NEW t \in Machine, NEW es, Layout(t, es), NEW e, NEW k, Fits(t, es, e, k),
           NEW room \in Nat, Depth(es) + room <= t.mask,
           NEW u, SpMoved(t, u, -k), Above(t, u, room), Load(u, "SS", e.at, Width(e)) = Value(e)
    PROVE  Layout(u, <<e>> \o es)
<1>1. Shape(t.mask, es) /\ Placed(t, es) /\ Held(t, es) /\ es \in Seq(Entries)  BY DEF Layout, Shape
<1>2. t.mask \in Nat \ {0} /\ t.r[SP] \in Int  BY Sizes, SpType
<1>3. u \in Machine /\ u.mask = t.mask /\ u.r[SP] \in Int
  <2>1. u \in Machine /\ u.mask = t.mask  BY DEF SpMoved
  <2>2. QED  BY <2>1, SpType
<1>4. PICK ns : ns = <<e>> \o es  OBVIOUS
<1>5. IsPush(es, e, ns, Len(es))
  <2>1. e \in Entries  BY DEF Fits
  <2>2. IsPush(es, e, <<e>> \o es, Len(es))  BY <1>1, <2>1, PushIs
  <2>3. QED  BY <1>4, <2>2
<1>6. PICK len \in Nat : len = Len(es) /\ DOMAIN es = 1..len  BY <1>5 DEF IsPush
<1>7. /\ Len(ns) = len + 1 /\ DOMAIN ns = 1..(len + 1) /\ ns \in Seq(Entries) /\ ns # <<>>
      /\ ns[1] = e /\ \A i \in 1..len : ns[i + 1] = es[i]
  BY <1>5, <1>6 DEF IsPush
<1>8. \A i \in DOMAIN ns : i = 1 \/ \E l \in DOMAIN es : i = l + 1 /\ ns[i] = es[l]
  <2>1. SUFFICES ASSUME NEW i \in 1..(len + 1), i # 1 PROVE \E l \in DOMAIN es : i = l + 1 /\ ns[i] = es[l]
    BY <1>7
  <2>2. i - 1 \in 1..len /\ (i - 1) + 1 = i  BY <2>1
  <2>3. ns[(i - 1) + 1] = es[i - 1]  BY <1>7, <2>2
  <2>4. QED  BY <1>6, <2>2, <2>3
<1>9. /\ k \in Nat /\ e.deep \in Nat /\ e.gap \in Nat /\ e.n \in {1, 2} /\ Extent(e) \in Nat
      /\ Depth(es) \in Nat /\ e.deep = Depth(es) + Extent(e) /\ e.deep + e.gap = Depth(es) + k
  <2>1. e.deep \in Nat /\ e.gap \in Nat /\ e.n \in {1, 2}  BY DEF Fits, Entries
  <2>2. Extent(e) \in Nat  BY <2>1 DEF Extent
  <2>3. QED  BY <1>1, <2>1, <2>2, DepthIs DEF Fits
<1>10. Depth(ns) = Depth(es) + k /\ Depth(ns) \in 0..t.mask
  <2>1. Depth(ns) = e.deep + e.gap  BY <1>7 DEF Depth
  <2>2. Depth(es) + k <= t.mask  BY DEF Fits
  <2>3. QED  BY <1>2, <1>9, <2>1, <2>2
<1>11. Shape(u.mask, ns)
  <2>1. ASSUME NEW i \in DOMAIN ns
        PROVE  /\ ns[i].v \in 0..(Size(ns[i].n) - 1)
               /\ ns[i].kind # "frame" => ns[i].gap = 0
               /\ ns[i].deep = Extent(ns[i]) + Under(ns, i)
               /\ ns[i].kind = "far" => i < Len(ns) /\ ns[i + 1].kind = "cs" /\ ns[i + 1].n = ns[i].n
    <3>1. CASE i = 1
      <4>1. Under(ns, 1) = Depth(es)
        <5>1. CASE len = 0
          <6>1. es = <<>>  BY <1>1, <1>6, <5>1
          <6>2. QED  BY <1>7, <5>1, <6>1 DEF Under, Depth
        <5>2. CASE len # 0
          <6>1. 1 \in 1..len /\ es # <<>>  BY <1>6, <5>2
          <6>2. ns[1 + 1] = es[1]  BY <1>7, <6>1
          <6>3. Len(ns) # 1  BY <1>7, <5>2
          <6>4. QED  BY <6>1, <6>2, <6>3 DEF Under, Depth
        <5>3. QED  BY <5>1, <5>2
      <4>2. e.kind = "far" => 1 < Len(ns) /\ ns[1 + 1].kind = "cs" /\ ns[1 + 1].n = e.n
        <5>1. SUFFICES ASSUME e.kind = "far" PROVE 1 < Len(ns) /\ ns[1 + 1].kind = "cs" /\ ns[1 + 1].n = e.n
          OBVIOUS
        <5>2. es # <<>> /\ es[1].kind = "cs" /\ es[1].n = e.n  BY <5>1 DEF Fits
        <5>3. 1 \in 1..len  BY <1>1, <1>6, <5>2
        <5>4. ns[1 + 1] = es[1]  BY <1>7, <5>3
        <5>5. QED  BY <1>7, <5>2, <5>3, <5>4
      <4>3. e.v \in 0..(Size(e.n) - 1) /\ (e.kind # "frame" => e.gap = 0)  BY DEF Fits
      <4>4. e.deep = Extent(e) + Under(ns, 1)  BY <1>9, <4>1
      <4>5. QED  BY <1>7, <3>1, <4>2, <4>3, <4>4
    <3>2. CASE i # 1
      <4>1. PICK l \in DOMAIN es : i = l + 1 /\ ns[i] = es[l]  BY <1>8, <3>2
      <4>2. i = Len(ns) <=> l = Len(es)  BY <1>6, <1>7, <4>1
      <4>3. l # Len(es) => ns[i + 1] = es[l + 1] /\ i < Len(ns)
        <5>1. SUFFICES ASSUME l # Len(es) PROVE ns[i + 1] = es[l + 1] /\ i < Len(ns)  OBVIOUS
        <5>2. l + 1 \in 1..len /\ i + 1 = (l + 1) + 1  BY <1>6, <4>1, <5>1
        <5>3. QED  BY <1>6, <1>7, <4>1, <5>2
      <4>4. Under(ns, i) = Under(es, l)  BY <4>2, <4>3 DEF Under
      <4>5. /\ es[l].v \in 0..(Size(es[l].n) - 1)
            /\ es[l].kind # "frame" => es[l].gap = 0
            /\ es[l].deep = Extent(es[l]) + Under(es, l)
            /\ es[l].kind = "far" => l < Len(es) /\ es[l + 1].kind = "cs" /\ es[l + 1].n = es[l].n
        BY <1>1 DEF Shape
      <4>6. l < Len(es) => l # Len(es)  BY <1>6, <4>1
      <4>7. QED  BY <4>1, <4>3, <4>4, <4>5, <4>6
    <3>3. QED  BY <3>1, <3>2
  <2>2. ASSUME NEW i \in DOMAIN ns, NEW j \in DOMAIN ns, i < j
        PROVE  ns[j].deep + ns[j].gap + Extent(ns[i]) <= ns[i].deep
    <3>1. j # 1  BY <1>7, <2>2
    <3>2. PICK h \in DOMAIN es : j = h + 1 /\ ns[j] = es[h]  BY <1>8, <3>1
    <3>3. CASE i = 1
      <4>1. es[h].deep + es[h].gap <= Depth(es) /\ es[h].deep \in Nat /\ es[h].gap \in Nat  BY <1>1, DepthIs
      <4>2. PICK a \in Nat, b \in Nat, d \in Nat, x \in Nat :
              a = es[h].deep /\ b = es[h].gap /\ d = Depth(es) /\ x = Extent(e)
        BY <1>9, <4>1
      <4>3. a + b <= d /\ e.deep = d + x  BY <1>9, <4>1, <4>2
      <4>4. ns[i] = e /\ ns[j].deep = a /\ ns[j].gap = b /\ Extent(ns[i]) = x  BY <1>7, <3>2, <3>3, <4>2
      <4>5. QED  BY <4>3, <4>4
    <3>4. CASE i # 1
      <4>1. PICK l \in DOMAIN es : i = l + 1 /\ ns[i] = es[l]  BY <1>8, <3>4
      <4>2. l < h  BY <1>6, <2>2, <3>2, <4>1
      <4>3. es[h].deep + es[h].gap + Extent(es[l]) <= es[l].deep  BY <1>1, <4>2 DEF Shape
      <4>4. QED  BY <3>2, <4>1, <4>3
    <3>5. QED  BY <3>3, <3>4
  <2>3. QED  BY <1>3, <1>7, <1>10, <2>1, <2>2 DEF Shape
<1>12. Placed(u, ns)
  <2>1. SUFFICES ASSUME NEW i \in DOMAIN ns PROVE ns[i].at = At(u.mask, u.r[SP], Depth(ns) - ns[i].deep)
    BY DEF Placed
  <2>2. PICK c \in Int : c = -k /\ SpMoved(t, u, c)  BY <1>9
  <2>3. \A s \in Int : At(u.mask, u.r[SP], s) = At(t.mask, t.r[SP], c + s)
    <3>1. TAKE s \in Int
    <3>2. PICK l : l = c + s  OBVIOUS
    <3>3. QED  BY <1>3, <2>2, <3>2, MovedAt
  <2>4. CASE i = 1
    <3>1. PICK s \in Int : s = Depth(ns) - e.deep /\ c + s = -Extent(e)  BY <1>9, <1>10, <2>2
    <3>2. e.at = At(t.mask, t.r[SP], c + s)  BY <3>1 DEF Fits
    <3>3. QED  BY <1>7, <2>3, <2>4, <3>1, <3>2
  <2>5. CASE i # 1
    <3>1. PICK l \in DOMAIN es : i = l + 1 /\ ns[i] = es[l]  BY <1>8, <2>5
    <3>2. es[l].deep \in Nat  BY <1>1, DepthIs
    <3>3. PICK s \in Int : s = Depth(ns) - es[l].deep /\ c + s = Depth(es) - es[l].deep
      BY <1>9, <1>10, <2>2, <3>2
    <3>4. es[l].at = At(t.mask, t.r[SP], c + s)  BY <1>1, <3>3 DEF Placed
    <3>5. QED  BY <2>3, <3>1, <3>3, <3>4
  <2>6. QED  BY <2>4, <2>5
<1>13. Held(u, ns)
  <2>1. SUFFICES ASSUME NEW i \in DOMAIN ns PROVE Load(u, "SS", ns[i].at, Width(ns[i])) = Value(ns[i])
    BY DEF Held
  <2>2. CASE i = 1  BY <1>7, <2>2
  <2>3. CASE i # 1
    <3>1. PICK l \in DOMAIN es : i = l + 1 /\ ns[i] = es[l]  BY <1>8, <2>3
    <3>2. /\ es[l].deep \in Nat /\ es[l].gap \in Nat /\ Extent(es[l]) \in Nat /\ Width(es[l]) \in {1, 2}
          /\ Width(es[l]) <= Extent(es[l]) /\ Extent(es[l]) <= es[l].deep /\ es[l].deep + es[l].gap <= Depth(es)
      BY <1>1, DepthIs
    <3>3. PICK s \in Nat : s = Depth(es) - es[l].deep  BY <1>9, <3>2
    <3>4. s + Width(es[l]) + room <= t.mask  BY <1>2, <1>9, <3>2, <3>3
    <3>5. LoadKept(t, u, At(t.mask, t.r[SP], s), Width(es[l]))  BY <3>2, <3>4 DEF Above
    <3>6. es[l].at = At(t.mask, t.r[SP], s)  BY <1>1, <3>3 DEF Placed
    <3>7. QED  BY <1>1, <3>1, <3>5, <3>6 DEF Held, LoadKept
  <2>4. QED  BY <2>2, <2>3
<1>14. QED  BY <1>4, <1>11, <1>12, <1>13 DEF Layout

\* What the entry on top says of SP.
LEMMA TopIs ==
    ASSUME StackSizes, NEW t \in Machine, NEW es, Layout(t, es), es # <<>>, es[1].kind # "frame"
    PROVE  /\ es[1].at = Top(t) /\ es[1].n \in {1, 2} /\ es[1].v \in 0..(Size(es[1].n) - 1)
           /\ Load(t, "SS", Top(t), Width(es[1])) = Value(es[1])
<1>1. Shape(t.mask, es) /\ Placed(t, es) /\ Held(t, es)  BY DEF Layout
<1>2. 1 \in DOMAIN es
  <2>1. es \in Seq(Entries)  BY <1>1 DEF Shape
  <2>2. QED  BY <2>1
<1>3. es[1].gap = 0 /\ es[1].deep \in Nat /\ es[1].v \in 0..(Size(es[1].n) - 1) /\ es[1].n \in {1, 2}
  BY <1>1, <1>2, DepthIs DEF Shape
<1>4. Depth(es) - es[1].deep = 0  BY <1>3 DEF Depth
<1>5. es[1].at = At(t.mask, t.r[SP], 0)  BY <1>1, <1>2, <1>4 DEF Placed
<1>6. es[1].at = Top(t)  BY <1>5, AtBelow
<1>7. QED  BY <1>1, <1>2, <1>3, <1>6 DEF Held

LEMMA DepthRest ==
    ASSUME NEW M, NEW es, Shape(M, es), NEW k \in DOMAIN es
    PROVE  /\ Depth(Rest(es, k)) = Under(es, k) /\ k \in 0..Len(es)
           /\ es[k].deep = Extent(es[k]) + Under(es, k) /\ Under(es, k) \in Nat
<1>1. es \in Seq(Entries)  BY DEF Shape
<1>2. k \in 0..Len(es)  BY <1>1
<1>3. IsRest(es, k, Rest(es, k), Len(es))  BY <1>1, <1>2, RestIs
<1>4. PICK len \in Nat : len = Len(es) /\ DOMAIN es = 1..len  BY <1>3 DEF IsRest
<1>5. PICK rest \in Seq(Entries) : rest = Rest(es, k)  BY <1>3 DEF IsRest
<1>6. /\ Len(rest) = len - k /\ k \in 1..len
      /\ \A i \in 1..(len - k) : rest[i] = es[k + i] /\ k + i \in 1..len
  BY <1>3, <1>4, <1>5 DEF IsRest
<1>7. Depth(rest) = Under(es, k) /\ Under(es, k) \in Nat
  <2>1. CASE k = len
    <3>1. rest = <<>>  BY <1>5, <1>6, <2>1
    <3>2. QED  BY <1>4, <2>1, <3>1 DEF Depth, Under
  <2>2. CASE k # len
    <3>1. 1 \in 1..(len - k) /\ rest # <<>>  BY <1>5, <1>6, <2>2
    <3>2. rest[1] = es[k + 1] /\ k + 1 \in DOMAIN es  BY <1>4, <1>6, <3>1
    <3>3. es[k + 1].deep \in Nat /\ es[k + 1].gap \in Nat  BY <3>2, DepthIs
    <3>4. QED  BY <1>4, <2>2, <3>1, <3>2, <3>3 DEF Depth, Under
  <2>3. QED  BY <2>1, <2>2
<1>8. es[k].deep = Extent(es[k]) + Under(es, k)  BY DEF Shape
<1>9. QED  BY <1>2, <1>5, <1>7, <1>8

\* u is t with SP set to x.
SpSet(t, u, x) ==
    /\ u \in Machine /\ u.mask = t.mask /\ u.mem = t.mem /\ u.fl = t.fl /\ u.ip = t.ip
    /\ \A i \in Reg : i # SP => u.r[i] = t.r[i]
    /\ Cong(t.mask, u.r[SP], x)

LEMMA SpTo ==
    ASSUME StackSizes, NEW t \in Machine, NEW x \in Int
    PROVE  SpSet(t, set_sp(t, x), x)
<1>1. set_sp(t, x) \in Machine /\ SameBut(t, set_sp(t, x), {"r"})
      /\ set_sp(t, x).r[SP] % t.mask = x % t.mask
      /\ \A i \in Reg : i # SP => set_sp(t, x).r[i] = t.r[i]
  BY SetSp
<1>2. QED  BY <1>1 DEF SameBut, SpSet, Cong

\* u is t with SP moved down by k cells and a value stored back cells below the old one.
PutBelow(t, u, k, back, n, v) ==
    /\ u \in Machine /\ SpMoved(t, u, -k) /\ Above(t, u, back)
    /\ Load(u, "SS", Below(t, back), n) = v % Size(n)

LEMMA PushWrite ==
    ASSUME StackSizes, NEW t \in Machine, NEW k \in Int, NEW back \in Int, NEW n \in {1, 2}, n <= back, NEW v \in Int,
           NEW x \in Int, x = t.r[SP] - k
    PROVE  PutBelow(t, Store(set_sp(t, x), "SS", Below(t, back), n, v), k, back, n, v)
<1>0. PICK u : u = Store(set_sp(t, x), "SS", Below(t, back), n, v)  OBVIOUS
<1>1. PICK c \in Int : c = -k /\ x = t.r[SP] + c
  <2>1. t.r[SP] \in Int  BY SpType
  <2>2. QED  BY <2>1
<1>2. PICK s : s = set_sp(t, x)  OBVIOUS
<1>12. SpSet(t, s, x)  BY <1>2, SpTo
<1>3. s \in Machine /\ s.mask = t.mask /\ s.mem = t.mem /\ SpMoved(t, s, c)  BY <1>1, <1>12 DEF SpSet, SpMoved
<1>4. Below(t, back) \in Int  BY BelowType
<1>5. Stored(s, Store(s, "SS", Below(t, back), n, v), "SS", Below(t, back), n, v)  BY <1>3, <1>4, StoreIs
<1>6. u = Store(s, "SS", Below(t, back), n, v)  BY <1>0, <1>2
<1>7. u \in Machine /\ u.r = s.r /\ u.mask = t.mask /\ Load(u, "SS", Below(t, back), n) = v % Size(n)
  BY <1>3, <1>5, <1>6 DEF Stored, SameBut
<1>8. SpMoved(t, u, c)  BY <1>3, <1>7 DEF SpMoved
<1>9. Above(t, s, back)
  <2>1. Above(t, t, back)  BY AboveStart
  <2>2. QED  BY <1>3, <2>1, AboveSame
<1>10. Above(t, u, back)  BY <1>3, <1>6, <1>9, AboveStore
<1>11. QED  BY <1>0, <1>1, <1>7, <1>8, <1>10 DEF PutBelow

\* A new entry on the stack.
LEMMA EntryPush ==
    ASSUME StackSizes, m \in Machine, Layout(m, stk), NEW kind \in Kinds, kind # "far", NEW n \in {1, 2}, NEW v \in Int,
           NEW alloc \in Nat, alloc = 0 \/ kind = "frame",
           NEW back, back = (IF kind = "all" THEN 8 * n ELSE n),
           NEW e, e = [Entry(kind, back, n, v) EXCEPT !.gap = alloc], Depth(<<e>>) <= m.mask,
           NEW x, NEW k \in Nat, k = back + alloc, SpMoved(m, x, -k), Above(m, x, back),
           NEW w, w = (IF kind = "seg" THEN 1 ELSE n), Load(x, "SS", Below(m, back), w) = v % Size(w)
    PROVE  Layout(x, <<e>> \o stk)
<1>1. Shape(m.mask, stk)  BY DEF Layout
<1>2. m.mask \in Nat \ {0} /\ m.r[SP] \in Int /\ Depth(stk) \in Nat  BY <1>1, Sizes, SpType, DepthIs
<1>3. back \in Nat  OBVIOUS
<1>4. e = [kind |-> kind, at |-> Below(m, back), n |-> n, deep |-> Depth(stk) + back, gap |-> alloc, v |-> v % Size(n)]
  BY DEF Entry
<1>5. v % Size(n) \in 0..(Size(n) - 1) /\ v % Size(n) \in Nat /\ Size(n) \in Nat
  <2>1. Size(n) \in Nat \ {0}  BY Sizes
  <2>2. v % Size(n) \in 0..(Size(n) - 1)  BY <2>1, ModInt, Zenon
  <2>3. QED  BY <2>1, <2>2
<1>6. Below(m, back) \in Int  BY <1>3, BelowType
<1>7. e \in Entries  BY <1>2, <1>3, <1>4, <1>5, <1>6 DEF Entries
<1>8. Extent(e) = back  BY <1>4 DEF Extent
<1>9. e.at = At(m.mask, m.r[SP], -Extent(e))  BY <1>3, <1>4, <1>8, AtBelow
<1>10. Depth(<<e>>) = e.deep + e.gap  BY DEF Depth
<1>11. Fits(m, stk, e, k)
  <2>1. e.deep = Depth(stk) + back /\ e.gap = alloc /\ e.kind = kind /\ e.n = n /\ e.v = v % Size(n)  BY <1>4
  <2>2. Depth(stk) + k <= m.mask  BY <1>2, <1>3, <1>10, <2>1
  <2>3. e.deep + e.gap = Depth(stk) + k  BY <1>2, <1>3, <2>1
  <2>4. QED  BY <1>5, <1>7, <1>8, <1>9, <2>1, <2>2, <2>3 DEF Fits
<1>12. Depth(stk) + back <= m.mask  BY <1>2, <1>3, <1>4, <1>10
<1>13. Load(x, "SS", e.at, Width(e)) = Value(e)
  <2>1. e.at = Below(m, back) /\ Width(e) = w  BY <1>4 DEF Width
  <2>2. CASE kind = "seg"
    <3>1. w = 1 /\ Size(w) = H  BY <2>2 DEF Size
    <3>2. Value(e) = (v % Size(n)) % H  BY <1>4, <2>2 DEF Value
    <3>3. (v % Size(n)) % H = v % H
      <4>1. H \in Nat \ {0}  BY Sizes
      <4>2. (v % H) % H = v % H  BY <4>1, ModIdem, Zenon
      <4>3. (v % W) % H = v % H  BY <4>1, TwoCells
      <4>4. QED  BY <4>2, <4>3 DEF Size
    <3>4. QED  BY <2>1, <3>1, <3>2, <3>3
  <2>3. CASE kind # "seg"  BY <1>4, <2>1, <2>3 DEF Value
  <2>4. QED  BY <2>2, <2>3
<1>14. QED  BY <1>3, <1>11, <1>12, <1>13, LayoutPush

-----------------------------------------------------------------------------
StackInv == m \in Machine /\ Layout(m, stk) /\ pop[1] = pop[2]

\* What a step may do.
Sound == StackInv' /\ Precise /\ Upper(m, m')

LEMMA FaultKeeps ==
    ASSUME StackInv, NEW p, Fine(m, p), Faults(p)
    PROVE  Sound
<1>1. p.at \in Seq({m})  BY DEF Fine
<1>2. \A i \in DOMAIN p.at : p.at[i] = m  BY <1>1
<1>3. m' = m /\ stk' = stk /\ pop' = pop  BY <1>2 DEF Faults
<1>4. QED  BY <1>3 DEF Sound, StackInv, Precise, Upper

LEMMA CompleteKeeps ==
    ASSUME StackInv, NEW p, Fine(m, p), NEW es, NEW pp, Complete(p, es, pp), Layout(p.done, es), pp[1] = pp[2]
    PROVE  Sound
<1>1. m' = p.done /\ stk' = es /\ pop' = pp /\ faulted' = faulted  BY DEF Complete
<1>2. QED  BY <1>1 DEF Sound, StackInv, Precise, Fine

LEMMA PushKeeps ==
    ASSUME StackInv, NEW p, Fine(m, p), NEW es, Pushes(p, es), Depth(es) <= m.mask => Layout(p.done, es \o stk)
    PROVE  Sound
<1>1. Depth(es) <= m.mask /\ (Faults(p) \/ Complete(p, es \o stk, pop))  BY DEF Pushes
<1>2. pop[1] = pop[2]  BY DEF StackInv
<1>3. QED  BY <1>1, <1>2, FaultKeeps, CompleteKeeps

LEMMA PopKeeps ==
    ASSUME StackInv, NEW p, Fine(m, p), NEW k, NEW got, Pops(p, k, got),
           Layout(p.done, Rest(stk, k)), stk[1].v = got
    PROVE  Sound
<1>1. Faults(p) \/ Complete(p, Rest(stk, k), <<stk[1].v, got>>)  BY DEF Pops, Rest
<1>2. <<stk[1].v, got>>[1] = <<stk[1].v, got>>[2]  OBVIOUS
<1>3. QED  BY <1>1, <1>2, FaultKeeps, CompleteKeeps

LEMMA MoveKeeps ==
    ASSUME StackSizes, StackInv, NEW p, Fine(m, p), Moves(p)
    PROVE  Sound
<1>1. pop[1] = pop[2] /\ m \in Machine /\ Layout(m, stk)  BY DEF StackInv
<1>2. p.done \in Machine /\ p.done.mask = m.mask  BY DEF Fine
<1>3. CASE p.done.mem["SS"] = m.mem["SS"] /\ p.done.r[SP] = m.r[SP]
  <2>1. Cong(m.mask, p.done.r[SP], m.r[SP])  BY <1>3 DEF Cong
  <2>2. Layout(p.done, stk)  BY <1>1, <1>2, <1>3, <2>1, LayoutKept
  <2>3. Faults(p) \/ Complete(p, stk, pop)  BY <1>3 DEF Moves
  <2>4. QED  BY <1>1, <2>2, <2>3, FaultKeeps, CompleteKeeps
<1>4. CASE ~(p.done.mem["SS"] = m.mem["SS"] /\ p.done.r[SP] = m.r[SP])
  <2>1. Layout(p.done, <<>>)  BY <1>2, LayoutEmpty
  <2>2. Faults(p) \/ Complete(p, <<>>, pop)  BY <1>4 DEF Moves
  <2>3. QED  BY <1>1, <2>1, <2>2, FaultKeeps, CompleteKeeps
<1>5. QED  BY <1>3, <1>4

\* A push of one entry: what is stored at Below(m, n), SP moved by n and a frame's cells.
LEMMA OnePush ==
    ASSUME StackSizes, m \in Machine, Layout(m, stk), NEW kind \in Kinds, kind \notin {"all", "far"},
           NEW n \in {1, 2}, NEW v \in Int, NEW alloc \in Nat, alloc = 0 \/ kind = "frame",
           NEW e, e = [Entry(kind, n, n, v) EXCEPT !.gap = alloc], Depth(<<e>>) <= m.mask,
           NEW w, w = (IF kind = "seg" THEN 1 ELSE n),
           NEW k \in Nat, k = n + alloc, NEW y \in Int, y = m.r[SP] - k,
           NEW u, u = Store(set_sp(m, y), "SS", Below(m, n), w, v),
           NEW x \in Machine, x.mask = u.mask, x.r[SP] = u.r[SP], x.mem["SS"] = u.mem["SS"]
    PROVE  Layout(x, <<e>> \o stk)
<1>1. w \in {1, 2} /\ w <= n /\ n \in Int  OBVIOUS
<1>2. /\ u \in Machine /\ SpMoved(m, u, -k) /\ Above(m, u, n)
      /\ Load(u, "SS", Below(m, n), w) = v % Size(w)
  <2>1. PutBelow(m, u, k, n, w, v)  BY <1>1, PushWrite
  <2>2. QED  BY <2>1 DEF PutBelow
<1>3. SpMoved(m, x, -k)  BY <1>2 DEF SpMoved
<1>4. Above(m, x, n)  BY <1>2, AboveSame
<1>5. Load(x, "SS", Below(m, n), w) = v % Size(w)
  <2>1. Below(m, n) \in Int  BY BelowType
  <2>2. LoadKept(u, x, Below(m, n), w)  BY <1>1, <2>1, SameLoads
  <2>3. QED  BY <1>2, <2>2 DEF LoadKept
<1>6. n = (IF kind = "all" THEN 8 * n ELSE n) /\ kind # "far"  OBVIOUS
<1>7. QED  BY <1>3, <1>4, <1>5, <1>6, EntryPush

LEMMA PlainEntry ==
    ASSUME NEW kind, NEW n, NEW v
    PROVE  Entry(kind, n, n, v) = [Entry(kind, n, n, v) EXCEPT !.gap = 0]
BY DEF Entry

\* ... of a value of n cells, or of a segment register.
LEMMA PlainPush ==
    ASSUME StackSizes, m \in Machine, Layout(m, stk), NEW kind \in {"data", "flags", "ip", "cs", "seg"},
           NEW n \in {1, 2}, NEW v \in Int,
           NEW w, w = (IF kind = "seg" THEN 1 ELSE n), Depth(<<Entry(kind, n, n, v)>>) <= m.mask,
           NEW u, u = Store(set_sp(m, m.r[SP] - n), "SS", Below(m, n), w, v),
           NEW x \in Machine, x.mask = u.mask, x.r[SP] = u.r[SP], x.mem["SS"] = u.mem["SS"]
    PROVE  Layout(x, <<Entry(kind, n, n, v)>> \o stk)
<1>1. PICK e : e = Entry(kind, n, n, v)  OBVIOUS
<1>2. e = [Entry(kind, n, n, v) EXCEPT !.gap = 0] /\ Depth(<<e>>) <= m.mask  BY <1>1, PlainEntry
<1>3. PICK y \in Int : y = m.r[SP] - n
  <2>1. m.r[SP] \in Int  BY SpType
  <2>2. QED  BY <2>1
<1>4. kind \in Kinds /\ kind \notin {"all", "far"}  BY DEF Kinds
<1>5. 0 \in Nat /\ n \in Nat /\ n = n + 0  OBVIOUS
<1>6. u = Store(set_sp(m, y), "SS", Below(m, n), w, v)  BY <1>3
<1>7. Layout(x, <<e>> \o stk)  BY <1>2, <1>3, <1>4, <1>5, <1>6, OnePush
<1>8. QED  BY <1>1, <1>7

LEMMA PushOf ==
    ASSUME StackSizes, StackInv, NEW kind \in {"data", "flags", "ip"}, NEW n \in {1, 2}, NEW v \in Int, NEW pre \in Nat
    PROVE  /\ Depth(<<Entry(kind, n, n, v)>>) <= m.mask =>
                Layout(PUSH(m, n, pre, v).done, <<Entry(kind, n, n, v)>> \o stk)
           /\ Fine(m, PUSH(m, n, pre, v))
<1>1. m \in Machine /\ Layout(m, stk)  BY DEF StackInv
<1>2. Fine(m, PUSH(m, n, pre, v))  BY <1>1, FinePush
<1>3. PICK u : u = Store(set_sp(m, m.r[SP] - n), "SS", Below(m, n), n, v)  OBVIOUS
<1>4. PUSH(m, n, pre, v).done = u /\ u \in Machine  BY <1>2, <1>3 DEF PUSH, Plan, Fine
<1>5. kind \in {"data", "flags", "ip", "cs", "seg"} /\ n = (IF kind = "seg" THEN 1 ELSE n)  OBVIOUS
<1>6. Depth(<<Entry(kind, n, n, v)>>) <= m.mask => Layout(u, <<Entry(kind, n, n, v)>> \o stk)
  BY <1>1, <1>3, <1>4, <1>5, PlainPush
<1>7. QED  BY <1>2, <1>4, <1>6

LEMMA MachineParts ==
    ASSUME StackSizes, NEW t \in Machine
    PROVE  /\ t.ip \in Int /\ t.cs \in Int /\ t.fl \in Int /\ \A i \in Reg : t.r[i] \in Int
           /\ t.ip - 1 \in Int /\ t.mem["SS"] \in [0..(W - 1) -> Int]
BY DEF Machine

LEMMA MoveStep ==
    ASSUME StackSizes, StackInv, NEW n \in {1, 2}, NEW o \in ModRM, DoMove(n, o)
    PROVE  Sound
<1>1. m \in Machine /\ {AX, BX} \subseteq Reg /\ AX # SP /\ BX # SP /\ 5 \in Int  BY Regs DEF StackInv
<1>2. /\ Fine(m, MOV_GE(m, n, o, AX)) /\ Fine(m, MOV_EG(m, n, o, BX)) /\ Fine(m, MOV_EI(m, n, o, 5))
      /\ Fine(m, XCHG(m, n, o, BX)) /\ Fine(m, LEA(m, n, o, AX))
  BY <1>1, FineMoves
<1>3. QED  BY <1>2, MoveKeeps DEF DoMove

LEMMA PushStep ==
    ASSUME StackSizes, StackInv, NEW n \in {1, 2}, NEW o \in ModRM, DoPush(n, o)
    PROVE  Sound
<1>1. m \in Machine /\ Layout(m, stk)  BY DEF StackInv
<1>2. m.r[AX] \in Int /\ m.fl \in Int /\ m.cs \in Int  BY <1>1, MachineParts, Regs
<1>3. Operand(m, o, n) \in Int /\ Len(OperandSteps(m, o, 0)) \in Nat  BY <1>1, OperandType, OperandStepsIs
<1>4. CASE Pushes(PUSH(m, n, 0, m.r[AX]), <<Entry("data", n, n, m.r[AX])>>)
  BY <1>2, <1>4, PushOf, PushKeeps
<1>5. CASE Pushes(PUSH_E(m, n, o), <<Entry("data", n, n, Operand(m, o, n))>>)
  BY <1>3, <1>5, PushOf, PushKeeps DEF PUSH_E
<1>6. CASE Pushes(PUSH(m, n, 0, m.fl), <<Entry("flags", n, n, m.fl)>>)
  BY <1>2, <1>6, PushOf, PushKeeps
<1>7. CASE Pushes(PUSHSeg(m, n, m.cs), <<Entry("seg", n, n, m.cs)>>)
  <2>1. 0 \in Int /\ 2 \in Int  OBVIOUS
  <2>2. Fine(m, PUSHSeg(m, n, m.cs))  BY <1>1, <1>2, <2>1, FinePushes
  <2>3. PICK u : u = Store(set_sp(m, m.r[SP] - n), "SS", Below(m, n), 1, m.cs)  OBVIOUS
  <2>4. PUSHSeg(m, n, m.cs).done = u /\ u \in Machine  BY <2>2, <2>3 DEF PUSHSeg, Plan, Fine
  <2>5. Depth(<<Entry("seg", n, n, m.cs)>>) <= m.mask => Layout(u, <<Entry("seg", n, n, m.cs)>> \o stk)
    BY <1>1, <1>2, <2>3, <2>4, PlainPush
  <2>6. QED  BY <1>7, <2>2, <2>4, <2>5, PushKeeps
<1>8. QED  BY <1>4, <1>5, <1>6, <1>7 DEF DoPush

-----------------------------------------------------------------------------
\* One entry popped: SP moves by its size.
LEMMA TopPop ==
    ASSUME StackSizes, StackInv, NEW kind, kind \notin {"frame", "far", "seg"}, NEW n \in {1, 2}, CanPop(kind, n),
           NEW k \in Int, k = (IF kind = "all" THEN 8 * n ELSE n), NEW x, SpMoved(m, x, k), x.mem["SS"] = m.mem["SS"]
    PROVE  /\ Layout(x, Rest(stk, 1))
           /\ Load(m, "SS", Top(m), n) = stk[1].v /\ stk[1].v \in 0..(Size(n) - 1) /\ stk[1].v \in Int
<1>1. m \in Machine /\ Layout(m, stk) /\ Shape(m.mask, stk)  BY DEF StackInv, Layout
<1>2. stk # <<>> /\ stk[1].kind = kind /\ stk[1].n = n  BY DEF CanPop
<1>3. /\ stk[1].n \in {1, 2} /\ stk[1].v \in 0..(Size(stk[1].n) - 1)
      /\ Load(m, "SS", Top(m), Width(stk[1])) = Value(stk[1])
  BY <1>1, <1>2, TopIs
<1>4. Width(stk[1]) = n /\ Value(stk[1]) = stk[1].v  BY <1>2 DEF Width, Value
<1>5. 1 \in DOMAIN stk
  <2>1. stk \in Seq(Entries)  BY <1>1 DEF Shape
  <2>2. QED  BY <1>2, <2>1
<1>6. Depth(stk) - Depth(Rest(stk, 1)) = k
  <2>1. /\ Depth(Rest(stk, 1)) = Under(stk, 1) /\ stk[1].deep = Extent(stk[1]) + Under(stk, 1)
        /\ Under(stk, 1) \in Nat
    BY <1>1, <1>5, DepthRest
  <2>2. Extent(stk[1]) = k  BY <1>2 DEF Extent
  <2>3. stk[1].gap = 0  BY <1>1, <1>2, <1>5 DEF Shape
  <2>4. Depth(stk) = stk[1].deep + stk[1].gap  BY <1>2 DEF Depth
  <2>5. QED  BY <2>1, <2>2, <2>3, <2>4
<1>7. 1 \in 0..Len(stk)  BY <1>1, <1>5, DepthRest
<1>8. SpMoved(m, x, Depth(stk) - Depth(Rest(stk, 1)))  BY <1>6
<1>9. Layout(x, Rest(stk, 1))  BY <1>1, <1>7, <1>8, LayoutPop
<1>10. stk[1].v \in Int
  <2>1. Size(n) \in Nat  BY Sizes
  <2>2. QED  BY <1>2, <1>3, <2>1
<1>11. QED  BY <1>2, <1>3, <1>4, <1>9, <1>10

LEMMA OnePop ==
    ASSUME StackSizes, StackInv, NEW kind, kind \notin {"frame", "far", "all", "seg"}, NEW n \in {1, 2}, CanPop(kind, n),
           NEW x, SpMoved(m, x, n), x.mem["SS"] = m.mem["SS"]
    PROVE  /\ Layout(x, Rest(stk, 1))
           /\ Load(m, "SS", Top(m), n) = stk[1].v /\ stk[1].v \in 0..(Size(n) - 1) /\ stk[1].v \in Int
<1>1. n \in Int /\ n = (IF kind = "all" THEN 8 * n ELSE n)  OBVIOUS
<1>2. QED  BY <1>1, TopPop

LEMMA SegSame ==
    ASSUME NEW t, NEW u, NEW o
    PROVE  modsib(t, o).seg = modsib(u, o).seg
<1>1. modsib16(t, o).seg = modsib16(u, o).seg  BY DEF modsib16
<1>2. modsib32(t, o).seg = modsib32(u, o).seg  BY DEF modsib32
<1>3. QED  BY <1>1, <1>2 DEF modsib

\* d is u with v in the memory operand e.
Assigned(u, d, e, n, v) ==
    /\ d \in Machine /\ SameBut(u, d, {"mem"})
    /\ \A g \in {"SS", "DS"} : g # e.seg => d.mem[g] = u.mem[g]
    /\ Load(d, e.seg, e.addr, n) = v % Size(n)

LEMMA SetMem ==
    ASSUME StackSizes, NEW u \in Machine, NEW o \in ModRM, o.mod # 3, NEW n \in {1, 2}, NEW v \in Int
    PROVE  Assigned(u, SetOperand(u, o, n, v), modsib(u, o), n, v)
BY SetOperandIs DEF Assigned

\* A value that was stored has its size.
LEMMA ValueMod ==
    ASSUME StackSizes, NEW n \in {1, 2}, NEW v \in 0..(Size(n) - 1)
    PROVE  v \in Int /\ v % Size(n) = v /\ (v % W) % Size(n) = v
<1>1. H \in Nat \ {0} /\ W \in Nat \ {0} /\ Size(n) \in Nat \ {0}  BY Sizes
<1>2. v \in Int  BY <1>1
<1>3. v % Size(n) = v  BY <1>1, ModSmall, Zenon
<1>4. (v % W) % Size(n) = v % Size(n)
  <2>1. (v % W) % H = v % H  BY <1>1, <1>2, TwoCells
  <2>2. (v % W) % W = v % W  BY <1>1, <1>2, ModIdem, Zenon
  <2>3. QED  BY <2>1, <2>2 DEF Size
<1>5. QED  BY <1>2, <1>3, <1>4

LEMMA PopReg ==
    ASSUME StackSizes, StackInv, NEW n \in {1, 2}, CanPop("data", n),
           Pops(POPReg(m, n, BX), 1, POPReg(m, n, BX).done.r[BX] % Size(n))
    PROVE  Sound
<1>1. m \in Machine /\ BX \in Reg /\ SP \in Reg /\ BX # SP /\ m.r[SP] \in Int  BY Regs, SpType DEF StackInv
<1>2. PICK y \in Int : y = m.r[SP] + n  BY <1>1
<1>3. PICK u : u = set_sp(m, y)  OBVIOUS
<1>30. SpSet(m, u, y)  BY <1>1, <1>3, SpTo
<1>4. u \in Machine /\ u.mask = m.mask /\ u.mem = m.mem /\ SpMoved(m, u, n)  BY <1>2, <1>30 DEF SpSet, SpMoved
<1>5. PICK v : v = Load(m, "SS", Top(m), n)  OBVIOUS
<1>6. v \in Int
  <2>1. Top(m) \in Int  BY <1>1, BelowType
  <2>2. QED  BY <1>1, <1>5, <2>1, LoadType
<1>7. PICK d : d = sreg(u, n, BX, v)  OBVIOUS
<1>8. Written(u, d, n, BX, v)  BY <1>1, <1>4, <1>6, <1>7, SetReg
<1>9. POPReg(m, n, BX).done = d  BY <1>2, <1>3, <1>5, <1>7 DEF POPReg, Plan
<1>10. d \in Machine /\ d.mask = u.mask /\ d.mem = u.mem /\ d.r[SP] = u.r[SP] /\ d.r[BX] % Size(n) = v % Size(n)
  BY <1>1, <1>8 DEF Written, SameBut
<1>11. SpMoved(m, d, n) /\ d.mem["SS"] = m.mem["SS"]  BY <1>4, <1>10 DEF SpMoved
<1>12. /\ Layout(d, Rest(stk, 1)) /\ v = stk[1].v /\ v \in 0..(Size(n) - 1)
  BY <1>5, <1>11, OnePop
<1>13. v % Size(n) = v  BY <1>12, ValueMod
<1>15. Fine(m, POPReg(m, n, BX))
  <2>1. Moved(m, u)  BY <1>1, <1>2, <1>3, MovedSp
  <2>2. Moved(u, d)  BY <1>1, <1>4, <1>6, <1>7, MovedReg
  <2>3. Moved(m, d)  BY <2>1, <2>2, MovedTrans
  <2>4. POPReg(m, n, BX) = Plan(Same(m, 1), d)  BY <1>2, <1>3, <1>5, <1>7 DEF POPReg
  <2>5. QED  BY <2>3, <2>4, FineSame
<1>16. QED  BY <1>9, <1>10, <1>12, <1>13, <1>15, PopKeeps

LEMMA PopMem ==
    ASSUME StackSizes, StackInv, NEW n \in {1, 2}, NEW o \in ModRM, CanPop("data", n), o.mod # 3,
           modsib(m, o).seg = "DS", NEW e, e = modsib(set_sp(m, m.r[SP] + n), o),
           Pops(POP(m, n, o), 1, Load(POP(m, n, o).done, e.seg, e.addr, n))
    PROVE  Sound
<1>1. m \in Machine /\ m.r[SP] \in Int /\ BX \in Reg /\ BX # SP  BY Regs, SpType DEF StackInv
<1>2. PICK y \in Int : y = m.r[SP] + n  BY <1>1
<1>3. PICK u : u = set_sp(m, y)  OBVIOUS
<1>30. SpSet(m, u, y)  BY <1>1, <1>3, SpTo
<1>4. u \in Machine /\ u.mask = m.mask /\ u.mem = m.mem /\ SpMoved(m, u, n)  BY <1>2, <1>30 DEF SpSet, SpMoved
<1>5. PICK v : v = Load(m, "SS", Top(m), n)  OBVIOUS
<1>6. v \in Int
  <2>1. Top(m) \in Int  BY <1>1, BelowType
  <2>2. QED  BY <1>1, <1>5, <2>1, LoadType
<1>7. PICK d : d = SetOperand(u, o, n, v)  OBVIOUS
<1>8. e = modsib(u, o) /\ e.seg = "DS"  BY <1>2, <1>3, SegSame
<1>31. Assigned(u, d, modsib(u, o), n, v)  BY <1>4, <1>6, <1>7, SetMem
<1>9. /\ d \in Machine /\ SameBut(u, d, {"mem"})
      /\ \A g \in {"SS", "DS"} : g # e.seg => d.mem[g] = u.mem[g]
      /\ Load(d, e.seg, e.addr, n) = v % Size(n)
  BY <1>8, <1>31 DEF Assigned
<1>10. POP(m, n, o).done = d  BY <1>2, <1>3, <1>5, <1>7 DEF POP, Plan
<1>11. SpMoved(m, d, n) /\ d.mem["SS"] = m.mem["SS"]  BY <1>4, <1>8, <1>9 DEF SpMoved, SameBut
<1>12. /\ Layout(d, Rest(stk, 1)) /\ v = stk[1].v /\ v \in 0..(Size(n) - 1)
  BY <1>5, <1>11, OnePop
<1>13. v % Size(n) = v  BY <1>12, ValueMod
<1>14. Fine(m, POP(m, n, o))  BY <1>1, FinePops
<1>15. QED  BY <1>9, <1>10, <1>12, <1>13, <1>14, PopKeeps

LEMMA PopFlags ==
    ASSUME StackSizes, StackInv, NEW n \in {1, 2}, CanPop("flags", n),
           Pops(POPF(m, n), 1, POPF(m, n).done.fl % Size(n))
    PROVE  Sound
<1>1. m \in Machine /\ m.r[SP] \in Int /\ m.fl \in Int  BY SpType, MachineParts DEF StackInv
<1>2. PICK y \in Int : y = m.r[SP] + n  BY <1>1
<1>3. PICK u : u = set_sp(m, y)  OBVIOUS
<1>30. SpSet(m, u, y)  BY <1>1, <1>3, SpTo
<1>4. u \in Machine /\ u.mask = m.mask /\ u.mem = m.mem /\ SpMoved(m, u, n)  BY <1>2, <1>30 DEF SpSet, SpMoved
<1>5. PICK v : v = Load(m, "SS", Top(m), n)  OBVIOUS
<1>6. PICK f : f = IF n = 1 THEN (m.fl - (m.fl % H)) + v ELSE v  OBVIOUS
<1>7. POPF(m, n) = Plan(Same(m, 1), [u EXCEPT !.fl = f])  BY <1>2, <1>3, <1>5, <1>6 DEF POPF
<1>8. PICK d : d = [u EXCEPT !.fl = f]  OBVIOUS
<1>9. d.fl = f /\ d.mem = u.mem /\ d.r = u.r /\ d.mask = u.mask  BY <1>4, <1>8 DEF Machine
<1>10. v \in Int
  <2>1. Top(m) \in Int  BY <1>1, BelowType
  <2>2. QED  BY <1>1, <1>5, <2>1, LoadType
<1>11. H \in Nat \ {0}  BY Sizes
<1>12. f \in Int
  <2>1. m.fl % H \in Int  BY <1>1, <1>11, ModInt, Zenon
  <2>2. QED  BY <1>1, <1>6, <1>10, <2>1
<1>13. Moved(m, u) /\ Moved(u, d)
  <2>1. Moved(m, u)  BY <1>1, <1>2, <1>3, MovedSp
  <2>2. Moved(u, d)  BY <1>4, <1>8, <1>12, MovedFlags
  <2>3. QED  BY <2>1, <2>2
<1>14. Moved(m, d) /\ d \in Machine  BY <1>13, MovedTrans DEF Moved
<1>15. Fine(m, POPF(m, n)) /\ POPF(m, n).done = d
  BY <1>7, <1>8, <1>14, FineSame DEF Plan
<1>16. SpMoved(m, d, n) /\ d.mem["SS"] = m.mem["SS"]  BY <1>4, <1>9, <1>14 DEF SpMoved
<1>17. /\ Layout(d, Rest(stk, 1)) /\ v = stk[1].v /\ v \in 0..(Size(n) - 1)
  BY <1>5, <1>16, OnePop
<1>18. v % Size(n) = v  BY <1>17, ValueMod
<1>19. f % Size(n) = v
  <2>1. CASE n = 1
    <3>1. Size(n) = H /\ v % H = v  BY <1>18, <2>1 DEF Size
    <3>2. PICK z \in Int : z = m.fl % H  BY <1>1, <1>11, ModInt, Zenon
    <3>3. f = v + (m.fl - z)  BY <1>1, <1>6, <1>10, <2>1, <3>2
    <3>4. f = (v % H) + (m.fl - (m.fl % H))  BY <3>1, <3>2, <3>3
    <3>5. f % H = v % H  BY <1>1, <1>10, <1>11, <3>4, LowPart
    <3>6. QED  BY <3>1, <3>5
  <2>2. CASE n = 2
    <3>1. f = v  BY <1>6, <2>2
    <3>2. QED  BY <1>18, <3>1
  <2>3. QED  BY <2>1, <2>2
<1>20. QED  BY <1>9, <1>15, <1>17, <1>19, PopKeeps

LEMMA PopStep ==
    ASSUME StackSizes, StackInv, NEW n \in {1, 2}, NEW o \in ModRM, DoPop(n, o)
    PROVE  Sound
<1>1. CASE CanPop("data", n) /\ Pops(POPReg(m, n, BX), 1, POPReg(m, n, BX).done.r[BX] % Size(n))
  BY <1>1, PopReg
<1>2. CASE CanPop("data", n) /\ o.mod # 3 /\ modsib(m, o).seg = "DS"
           /\ LET p == POP(m, n, o)  e == modsib(set_sp(m, m.r[SP] + n), o)
              IN  Pops(p, 1, Load(p.done, e.seg, e.addr, n))
  BY <1>2, PopMem
<1>3. CASE CanPop("flags", n) /\ Pops(POPF(m, n), 1, POPF(m, n).done.fl % Size(n))
  BY <1>3, PopFlags
<1>4. QED  BY <1>1, <1>2, <1>3 DEF DoPop

-----------------------------------------------------------------------------
\* A call: the return address is the entry.
LEMMA CallOf ==
    ASSUME StackSizes, StackInv, NEW n \in {1, 2}, NEW pre \in Nat, NEW y \in Int
    PROVE  Depth(<<Entry("ip", n, n, m.ip)>>) <= m.mask =>
             Layout(Jump(PUSH(m, n, pre, m.ip).done, y), <<Entry("ip", n, n, m.ip)>> \o stk)
<1>1. m \in Machine /\ Layout(m, stk) /\ m.ip \in Int  BY MachineParts DEF StackInv
<1>2. PICK u : u = Store(set_sp(m, m.r[SP] - n), "SS", Below(m, n), n, m.ip)  OBVIOUS
<1>3. PUSH(m, n, pre, m.ip).done = u /\ u \in Machine
  <2>1. Fine(m, PUSH(m, n, pre, m.ip))  BY <1>1, FinePush
  <2>2. QED  BY <1>2, <2>1 DEF PUSH, Plan, Fine
<1>4. PICK x : x = Jump(u, y)  OBVIOUS
<1>5. Moved(u, x) /\ x.r = u.r /\ x.mem = u.mem  BY <1>3, <1>4, MovedJump
<1>6. x \in Machine /\ x.mask = u.mask /\ x.r[SP] = u.r[SP] /\ x.mem["SS"] = u.mem["SS"]  BY <1>5 DEF Moved
<1>7. "ip" \in {"data", "flags", "ip", "cs", "seg"} /\ n = (IF "ip" = "seg" THEN 1 ELSE n)  OBVIOUS
<1>8. Depth(<<Entry("ip", n, n, m.ip)>>) <= m.mask => Layout(x, <<Entry("ip", n, n, m.ip)>> \o stk)
  BY <1>1, <1>2, <1>6, <1>7, PlainPush
<1>9. QED  BY <1>3, <1>4, <1>8

LEMMA ReturnStep ==
    ASSUME StackSizes, StackInv, NEW n \in {1, 2}, CanPop("ip", n), Pops(RET(m, n, 0), 1, RET(m, n, 0).done.ip % Size(n))
    PROVE  Sound
<1>1. m \in Machine /\ m.r[SP] \in Int  BY SpType DEF StackInv
<1>2. PICK y \in Int : y = m.r[SP] + n /\ y = m.r[SP] + n + 0  BY <1>1
<1>3. PICK u : u = set_sp(m, y)  OBVIOUS
<1>30. SpSet(m, u, y)  BY <1>1, <1>3, SpTo
<1>4. u \in Machine /\ u.mask = m.mask /\ u.mem = m.mem /\ SpMoved(m, u, n)  BY <1>2, <1>30 DEF SpSet, SpMoved
<1>5. PICK v : v = Load(m, "SS", Top(m), n)  OBVIOUS
<1>6. v \in Int
  <2>1. Top(m) \in Int  BY <1>1, BelowType
  <2>2. QED  BY <1>1, <1>5, <2>1, LoadType
<1>7. PICK d : d = Jump(u, v)  OBVIOUS
<1>8. Moved(u, d) /\ d.r = u.r /\ d.mem = u.mem /\ d.ip = v % W  BY <1>4, <1>6, <1>7, MovedJump
<1>9. RET(m, n, 0) = Plan(Same(m, 1), d)  BY <1>2, <1>3, <1>5, <1>7 DEF RET
<1>10. Moved(m, d) /\ d \in Machine
  <2>1. Moved(m, u)  BY <1>1, <1>2, <1>3, MovedSp
  <2>2. QED  BY <1>8, <2>1, MovedTrans DEF Moved
<1>11. Fine(m, RET(m, n, 0)) /\ RET(m, n, 0).done = d  BY <1>9, <1>10, FineSame DEF Plan
<1>12. SpMoved(m, d, n) /\ d.mem["SS"] = m.mem["SS"]  BY <1>4, <1>8, <1>10 DEF SpMoved, Moved
<1>13. /\ Layout(d, Rest(stk, 1)) /\ v = stk[1].v /\ v \in 0..(Size(n) - 1)
  BY <1>5, <1>12, OnePop
<1>14. (v % W) % Size(n) = v  BY <1>13, ValueMod
<1>15. QED  BY <1>8, <1>11, <1>13, <1>14, PopKeeps

LEMMA NearStep ==
    ASSUME StackSizes, StackInv, NEW n \in {1, 2}, NEW o \in ModRM, DoNear(n, o)
    PROVE  Sound
<1>1. m \in Machine /\ m.ip \in Int /\ m.ip + 2 \in Int  BY MachineParts DEF StackInv
<1>2. /\ 0 \in Int /\ -1 \in Int /\ 2 \in Int /\ 3 \in Int /\ 1 \in Nat  OBVIOUS
<1>3. Operand(m, o, n) \in Int /\ Len(OperandSteps(m, o, 0)) \in Nat  BY <1>1, OperandType, OperandStepsIs
<1>4. CASE Pushes(CALL(m, n, 2), <<Entry("ip", n, n, m.ip)>>)
  <2>1. Fine(m, CALL(m, n, 2))  BY <1>1, <1>2, FinePushes
  <2>2. CALL(m, n, 2).done = Jump(PUSH(m, n, 1, m.ip).done, m.ip + 2)  BY DEF CALL, Plan
  <2>3. Depth(<<Entry("ip", n, n, m.ip)>>) <= m.mask => Layout(CALL(m, n, 2).done, <<Entry("ip", n, n, m.ip)>> \o stk)
    BY <1>1, <1>2, <2>2, CallOf
  <2>4. QED  BY <1>4, <2>1, <2>3, PushKeeps
<1>5. CASE Pushes(CALLABS(m, n, o), <<Entry("ip", n, n, m.ip)>>)
  <2>1. Fine(m, CALLABS(m, n, o))  BY <1>1, <1>2, FinePushes
  <2>2. CALLABS(m, n, o).done = Jump(PUSH(m, n, Len(OperandSteps(m, o, 0)), m.ip).done, Operand(m, o, n))
    BY DEF CALLABS, Plan
  <2>3. Depth(<<Entry("ip", n, n, m.ip)>>) <= m.mask => Layout(CALLABS(m, n, o).done, <<Entry("ip", n, n, m.ip)>> \o stk)
    BY <1>3, <2>2, CallOf
  <2>4. QED  BY <1>5, <2>1, <2>3, PushKeeps
<1>6. CASE CanPop("ip", n) /\ Pops(RET(m, n, 0), 1, RET(m, n, 0).done.ip % Size(n))
  BY <1>6, ReturnStep
<1>7. CASE Moves(JMP(m, -1)) \/ Moves(JMPABS(m, n, o)) \/ Moves(JCXZ(m, n, 3))
  <2>1. Fine(m, JMP(m, -1)) /\ Fine(m, JMPABS(m, n, o)) /\ Fine(m, JCXZ(m, n, 3))  BY <1>1, <1>2, FineJumps
  <2>2. QED  BY <1>7, <2>1, MoveKeeps
<1>8. CASE \E want \in {BOOLEAN, {TRUE}, {FALSE}}, zf \in BOOLEAN : Moves(LOOP(m, n, 3, want, zf))
  <2>1. PICK want \in {BOOLEAN, {TRUE}, {FALSE}}, zf \in BOOLEAN : Moves(LOOP(m, n, 3, want, zf))  BY <1>8
  <2>2. Fine(m, LOOP(m, n, 3, want, zf))  BY <1>1, <1>2, FineJumps
  <2>3. QED  BY <2>1, <2>2, MoveKeeps
<1>9. QED  BY <1>4, <1>5, <1>6, <1>7, <1>8 DEF DoNear

\* A set of naturals that holds 0 and with each number below k the next.
LEMMA Counted ==
    ASSUME NEW k \in Nat, NEW P, 0 \in P, \A i \in 0 .. k - 1 : i \in P => i + 1 \in P
    PROVE  0 .. k \subseteq P
<1>1. SUFFICES ASSUME NEW x \in 0 .. k, x \notin P PROVE FALSE  OBVIOUS
<1> DEFINE Lacking == {i \in Nat : i <= k /\ i \notin P}
<1>2. Lacking # {} /\ Lacking \subseteq Nat  BY <1>1
<1>3. PICK y \in Lacking : \A z \in Lacking : <<z, y>> \notin OpToRel(<, Nat)
  BY <1>2, NatLessThanWellFounded, WFMin
<1>4. y # 0 /\ y \in Nat /\ y <= k  BY <1>3
<1>5. y - 1 \in 0 .. k - 1 /\ (y - 1) + 1 = y  BY <1>4
<1>6. y - 1 \notin P  BY <1>3, <1>5
<1>7. y - 1 \in Lacking  BY <1>4, <1>5, <1>6
<1>8. <<y - 1, y>> \in OpToRel(<, Nat)  BY <1>4, <1>5 DEF OpToRel
<1>9. QED  BY <1>3, <1>7, <1>8

\* The machine after each of k steps.
Run(f, F, t, k) == f \in [0..k -> Machine] /\ f[0] = t /\ \A i \in 1..k : f[i] = F[i][f[i - 1]]

LEMMA RunExists ==
    ASSUME NEW k \in Nat, NEW t \in Machine, NEW F \in [1..k -> [Machine -> Machine]]
    PROVE  \E f : Run(f, F, t, k)
<1> DEFINE P == {j \in Nat : j <= k => \E f : Run(f, F, t, j)}
<1>1. 0 \in P
  <2>1. Run([i \in 0..0 |-> t], F, t, 0)  BY DEF Run
  <2>2. QED  BY <2>1
<1>2. ASSUME NEW j \in 0 .. k - 1, j \in P PROVE j + 1 \in P
  <2>1. j \in Nat /\ j <= k /\ j + 1 \in 1..k  OBVIOUS
  <2>2. PICK f : Run(f, F, t, j)  BY <1>2, <2>1
  <2>3. f[j] \in Machine /\ F[j + 1] \in [Machine -> Machine]  BY <2>1, <2>2 DEF Run
  <2>4. F[j + 1][f[j]] \in Machine  BY <2>3
  <2> DEFINE g == [i \in 0..(j + 1) |-> IF i = j + 1 THEN F[j + 1][f[j]] ELSE f[i]]
  <2>5. g \in [0..(j + 1) -> Machine] /\ g[0] = t  BY <2>1, <2>2, <2>4 DEF Run
  <2>6. ASSUME NEW i \in 1..(j + 1) PROVE g[i] = F[i][g[i - 1]]
    <3>1. CASE i = j + 1
      <4>1. i - 1 = j /\ j \in 0..(j + 1) /\ j # j + 1  BY <2>1, <3>1
      <4>2. g[i] = F[j + 1][f[j]] /\ g[i - 1] = f[j]  BY <3>1, <4>1
      <4>3. QED  BY <3>1, <4>2
    <3>2. CASE i # j + 1
      <4>1. i \in 1..j /\ i - 1 \in 0..(j + 1) /\ i - 1 # j + 1  BY <2>1, <3>2
      <4>2. g[i] = f[i] /\ g[i - 1] = f[i - 1]  BY <3>2, <4>1
      <4>3. f[i] = F[i][f[i - 1]]  BY <2>2, <4>1 DEF Run
      <4>4. QED  BY <4>2, <4>3
    <3>3. QED  BY <3>1, <3>2
  <2> HIDE DEF g
  <2>7. Run(g, F, t, j + 1)  BY <2>5, <2>6 DEF Run
  <2>8. QED  BY <2>1, <2>7
<1> HIDE DEF P
<1>3. 0 .. k \subseteq P  BY <1>1, <1>2, Counted
<1>4. k \in P  BY <1>3
<1>5. QED  BY <1>4 DEF P

\* The function a LET defines by recursion.
RunEq(f, F, t, k) == f = [i \in 0..k |-> IF i = 0 THEN t ELSE F[i][f[i - 1]]]

LEMMA RunSolves ==
    ASSUME NEW k \in Nat, NEW t, NEW F, NEW f, Run(f, F, t, k)
    PROVE  RunEq(f, F, t, k)
<1>1. f \in [0..k -> Machine]  BY DEF Run
<1>2. f = [i \in 0..k |-> f[i]]  BY <1>1
<1>3. \A i \in 0..k : f[i] = IF i = 0 THEN t ELSE F[i][f[i - 1]]  BY DEF Run
<1>4. QED  BY <1>2, <1>3 DEF RunEq

-----------------------------------------------------------------------------
\* PUSHA: eight stores.
PushedAll(t, n, u) ==
    /\ u \in Machine /\ SpMoved(t, u, -(8 * n)) /\ Above(t, u, 8 * n) /\ Upper(t, u)
    /\ Load(u, "SS", Below(t, 8 * n), n) = t.r[DI] % Size(n)

LEMMA PushAll ==
    ASSUME StackSizes, NEW t \in Machine, NEW n \in {1, 2}
    PROVE  /\ PushedAll(t, n, PUSHA_helper(t, n).done) /\ Fine(t, PUSHA_helper(t, n))
<1> DEFINE v(i) == IF i = 5 THEN t.r[SP] ELSE t.r[i - 1]
<1> DEFINE F == [i \in 1..8 |-> [u \in Machine |-> Store(u, "SS", Below(t, n * i), n, v(i))]]
<1> DEFINE Is(f) == f = [i \in 0..8 |-> IF i = 0 THEN t
                          ELSE Store(f[i - 1], "SS", Below(t, n * i), n, IF i = 5 THEN t.r[SP] ELSE t.r[i - 1])]
<1>1. \A i \in 1..8 : v(i) \in Int /\ n * i \in Int /\ Below(t, n * i) \in Int
  <2>1. TAKE i \in 1..8
  <2>2. i - 1 \in Reg /\ SP \in Reg  BY Regs DEF Reg
  <2>3. v(i) \in Int  BY <2>2, MachineParts
  <2>4. n * i \in Int  OBVIOUS
  <2>5. QED  BY <2>3, <2>4, BelowType
<1>2. \A i \in 1..8, u \in Machine : Store(u, "SS", Below(t, n * i), n, v(i)) \in Machine
  <2>1. TAKE i \in 1..8, u \in Machine
  <2>2. PICK a \in Int, b \in Int : a = Below(t, n * i) /\ b = v(i)  BY <1>1
  <2>3. Moved(u, Store(u, "SS", a, n, b))  BY <2>2, MovedStore
  <2>4. QED  BY <2>2, <2>3 DEF Moved
<1>3. F \in [1..8 -> [Machine -> Machine]]  BY <1>2
<1>4. PICK f : Run(f, F, t, 8)
  <2> HIDE DEF F
  <2>1. 8 \in Nat  OBVIOUS
  <2>2. QED  BY <1>3, <2>1, RunExists
<1>5. Is(f)
  <2>1. f \in [0..8 -> Machine] /\ f[0] = t /\ \A i \in 1..8 : f[i] = F[i][f[i - 1]]  BY <1>4 DEF Run
  <2>2. \A i \in 1..8 : f[i] = Store(f[i - 1], "SS", Below(t, n * i), n, v(i))
    <3>1. TAKE i \in 1..8
    <3>2. f[i - 1] \in Machine  BY <2>1
    <3>3. QED  BY <2>1, <3>2
  <2>3. f = [i \in 0..8 |-> f[i]]  BY <2>1
  <2>4. \A i \in 0..8 : i = 0 \/ i \in 1..8  OBVIOUS
  <2>5. QED  BY <2>1, <2>2, <2>3, <2>4
<1> DEFINE g == CHOOSE g : Is(g)
<1>6. Is(g)  BY <1>5
<1>7. PUSHA_helper(t, n) = Plan(Same(t, 8), set_sp(g[8], t.r[SP] - 8 * n))  BY DEF PUSHA_helper
<1> HIDE DEF g
<1>8. g[0] = t /\ \A i \in 1..8 : g[i] = Store(g[i - 1], "SS", Below(t, n * i), n, v(i))
  <2>1. g[0] = t  BY <1>6
  <2>2. ASSUME NEW i \in 1..8 PROVE g[i] = Store(g[i - 1], "SS", Below(t, n * i), n, v(i))
    <3>1. i \in 0..8 /\ i # 0  OBVIOUS
    <3>2. QED  BY <1>6, <3>1
  <2>3. QED  BY <2>1, <2>2
<1> HIDE DEF v, Is, F
<1> DEFINE P == {i \in Nat : i <= 8 => g[i] \in Machine /\ SameBut(t, g[i], {"mem"}) /\ Above(t, g[i], 8 * n)}
<1>9. 8 * n \in Int /\ t.r[SP] \in Int  BY SpType
<1>10. 0 \in P  BY <1>8, <1>9, AboveStart DEF SameBut
<1>11. ASSUME NEW j \in 0 .. 8 - 1, j \in P PROVE j + 1 \in P
  <2>1. j \in Nat /\ j <= 8 /\ j + 1 \in 1..8 /\ (j + 1) - 1 = j  OBVIOUS
  <2>2. g[j] \in Machine /\ SameBut(t, g[j], {"mem"}) /\ Above(t, g[j], 8 * n)  BY <1>11, <2>1
  <2>3. PICK b \in Int, x \in Int : b = n * (j + 1) /\ x = v(j + 1)  BY <1>1, <2>1
  <2>4. g[j + 1] = Store(g[j], "SS", Below(t, b), n, x)  BY <1>8, <2>1, <2>3
  <2>5. n <= b /\ b <= 8 * n  BY <2>1, <2>3
  <2>6. g[j].mask = t.mask  BY <2>2 DEF SameBut
  <2>7. Above(t, g[j + 1], 8 * n)  BY <1>9, <2>2, <2>4, <2>5, <2>6, AboveStore
  <2>8. Below(t, b) \in Int  BY BelowType
  <2>9. Stored(g[j], g[j + 1], "SS", Below(t, b), n, x)  BY <2>2, <2>4, <2>8, StoreIs
  <2>10. g[j + 1] \in Machine /\ SameBut(t, g[j + 1], {"mem"})  BY <2>2, <2>9 DEF Stored, SameBut
  <2>11. QED  BY <2>1, <2>7, <2>10
<1> HIDE DEF P
<1>12. 0 .. 8 \subseteq P
  <2>1. 8 \in Nat  OBVIOUS
  <2>2. QED  BY <1>10, <1>11, <2>1, Counted
<1>13. \A i \in 0..8 : g[i] \in Machine /\ SameBut(t, g[i], {"mem"}) /\ Above(t, g[i], 8 * n)
  BY <1>12 DEF P
<1>14. PICK u : u = g[8]  OBVIOUS
<1>15. u \in Machine /\ SameBut(t, u, {"mem"}) /\ Above(t, u, 8 * n)  BY <1>13, <1>14
<1>16. Load(u, "SS", Below(t, 8 * n), n) = t.r[DI] % Size(n)
  <2>1. PICK b \in Int, x \in Int : b = 8 * n /\ n * 8 = b /\ x = v(8)  BY <1>1, <1>9
  <2>2. x = t.r[DI]  BY <2>1 DEF v, DI
  <2>3. u = Store(g[7], "SS", Below(t, b), n, x) /\ g[7] \in Machine  BY <1>8, <1>13, <1>14, <2>1
  <2>4. Below(t, b) \in Int  BY BelowType
  <2>5. Stored(g[7], u, "SS", Below(t, b), n, x)  BY <2>3, <2>4, StoreIs
  <2>6. QED  BY <2>1, <2>2, <2>5 DEF Stored
<1>17. PICK y \in Int : y = t.r[SP] - 8 * n  BY <1>9
<1>18. PICK d : d = set_sp(u, y)  OBVIOUS
<1>19. SpSet(u, d, y)  BY <1>15, <1>18, SpTo
<1>20. u.r = t.r /\ u.mask = t.mask  BY <1>15 DEF SameBut
<1>21. d \in Machine /\ d.mask = t.mask /\ d.mem = u.mem /\ Cong(t.mask, d.r[SP], y)  BY <1>19, <1>20 DEF SpSet
<1>22. SpMoved(t, d, -(8 * n))
  <2>1. y = t.r[SP] + (-(8 * n))  BY <1>9, <1>17
  <2>2. QED  BY <1>21, <2>1 DEF SpMoved
<1>23. Above(t, d, 8 * n)  BY <1>9, <1>15, <1>21, AboveSame
<1>24. Load(d, "SS", Below(t, 8 * n), n) = t.r[DI] % Size(n)  BY <1>16, <1>21 DEF Load
<1>25. Moved(t, d)
  <2>1. Moved(t, u)  BY <1>15, <1>20, MovedSame
  <2>2. Moved(u, d)  BY <1>15, <1>17, <1>18, MovedSp
  <2>3. QED  BY <2>1, <2>2, MovedTrans
<1>26. PUSHA_helper(t, n) = Plan(Same(t, 8), d)  BY <1>7, <1>14, <1>17, <1>18
<1>27. Fine(t, PUSHA_helper(t, n)) /\ PUSHA_helper(t, n).done = d  BY <1>25, <1>26, FineSame DEF Plan
<1>28. QED  BY <1>21, <1>22, <1>23, <1>24, <1>25, <1>27 DEF PushedAll, Moved

\* POPA: seven loads.
PoppedAll(t, n, u) ==
    /\ Moved(t, u) /\ SpMoved(t, u, 8 * n) /\ u.mem["SS"] = t.mem["SS"]
    /\ u.r[DI] % Size(n) = Load(t, "SS", Top(t), n) % Size(n)

LEMMA PopAll ==
    ASSUME StackSizes, NEW t \in Machine, NEW n \in {1, 2}
    PROVE  PoppedAll(t, n, POPA_helper(t, n).done) /\ Fine(t, POPA_helper(t, n))
<1> DEFINE slot(i) == Load(t, "SS", (t.r[SP] + n * (7 - i)) % t.mask, n)
<1> DEFINE F == [i \in 1..8 |-> [u \in Machine |-> IF i - 1 = SP THEN u ELSE sreg(u, n, i - 1, slot(i - 1))]]
<1> DEFINE Is(f) == f = [i \in 0..8 |-> IF i = 0 THEN t ELSE IF i - 1 = SP THEN f[i - 1]
                                        ELSE sreg(f[i - 1], n, i - 1, slot(i - 1))]
<1>0. t.r[SP] \in Int /\ t.mask \in Nat \ {0} /\ 8 * n \in Int  BY SpType, Sizes
<1>1. \A i \in 1..8 : i - 1 \in Reg /\ slot(i - 1) \in Int
  <2>1. TAKE i \in 1..8
  <2>2. PICK a \in Int : a = t.r[SP] + n * (7 - (i - 1))
    <3>1. n * (7 - (i - 1)) \in Int  OBVIOUS
    <3>2. QED  BY <1>0, <3>1
  <2>3. PICK b \in Int : b = a % t.mask  BY <1>0, ModInt, Zenon
  <2>4. slot(i - 1) = Load(t, "SS", b, n)  BY <2>2, <2>3
  <2>5. Load(t, "SS", b, n) \in Int  BY LoadType
  <2>6. i - 1 \in Reg  BY DEF Reg
  <2>7. QED  BY <2>4, <2>5, <2>6
<1>11. slot(7) = Load(t, "SS", Top(t), n)
  <2>1. t.r[SP] + n * (7 - 7) = t.r[SP]  BY <1>0
  <2>2. QED  BY <2>1 DEF Top
<1> HIDE DEF slot
<1>2. \A i \in 1..8, u \in Machine : Written(u, sreg(u, n, i - 1, slot(i - 1)), n, i - 1, slot(i - 1))
  BY <1>1, SetReg
<1>3. F \in [1..8 -> [Machine -> Machine]]  BY <1>2 DEF Written
<1>4. PICK f : Run(f, F, t, 8)
  <2> HIDE DEF F
  <2>1. 8 \in Nat  OBVIOUS
  <2>2. QED  BY <1>3, <2>1, RunExists
<1>5. Is(f)
  <2>1. f \in [0..8 -> Machine] /\ f[0] = t /\ \A i \in 1..8 : f[i] = F[i][f[i - 1]]  BY <1>4 DEF Run
  <2>2. \A i \in 1..8 : f[i] = IF i - 1 = SP THEN f[i - 1] ELSE sreg(f[i - 1], n, i - 1, slot(i - 1))
    <3>1. TAKE i \in 1..8
    <3>2. f[i - 1] \in Machine  BY <2>1
    <3>3. QED  BY <2>1, <3>2
  <2>3. f = [i \in 0..8 |-> f[i]]  BY <2>1
  <2>4. \A i \in 0..8 : i = 0 \/ i \in 1..8  OBVIOUS
  <2>5. QED  BY <2>1, <2>2, <2>3, <2>4
<1> DEFINE g == CHOOSE g : Is(g)
<1>6. Is(g)  BY <1>5
<1>7. POPA_helper(t, n) = Plan(Same(t, 7), set_sp(g[8], t.r[SP] + 8 * n))  BY DEF POPA_helper, slot
<1> HIDE DEF g
<1>8. g[0] = t /\ \A i \in 1..8 : g[i] = IF i - 1 = SP THEN g[i - 1] ELSE sreg(g[i - 1], n, i - 1, slot(i - 1))
  <2>1. g[0] = t  BY <1>6
  <2>2. ASSUME NEW i \in 1..8 PROVE g[i] = IF i - 1 = SP THEN g[i - 1] ELSE sreg(g[i - 1], n, i - 1, slot(i - 1))
    <3>1. i \in 0..8 /\ i # 0  OBVIOUS
    <3>2. QED  BY <1>6, <3>1
  <2>3. QED  BY <2>1, <2>2
<1> HIDE DEF Is, F
<1> DEFINE P == {i \in Nat : i <= 8 => g[i] \in Machine /\ SameBut(t, g[i], {"r"}) /\ g[i].r[SP] = t.r[SP]}
<1>9. 0 \in P  BY <1>8 DEF SameBut
<1>10. ASSUME NEW j \in 0 .. 8 - 1, j \in P PROVE j + 1 \in P
  <2>1. j \in Nat /\ j <= 8 /\ j + 1 \in 1..8 /\ (j + 1) - 1 = j  OBVIOUS
  <2>2. g[j] \in Machine /\ SameBut(t, g[j], {"r"}) /\ g[j].r[SP] = t.r[SP]  BY <1>10, <2>1
  <2>3. CASE j = SP  BY <1>8, <2>1, <2>2, <2>3
  <2>4. CASE j # SP
    <3>1. g[j + 1] = sreg(g[j], n, j, slot(j))  BY <1>8, <2>1, <2>4
    <3>2. Written(g[j], g[j + 1], n, j, slot(j))  BY <1>2, <2>1, <2>2, <3>1
    <3>3. SP \in Reg  BY Regs
    <3>4. g[j + 1] \in Machine /\ SameBut(t, g[j + 1], {"r"}) /\ g[j + 1].r[SP] = t.r[SP]
      BY <2>2, <2>4, <3>2, <3>3 DEF Written, SameBut
    <3>5. QED  BY <2>1, <3>4
  <2>5. QED  BY <2>3, <2>4
<1> HIDE DEF P
<1>12. 0 .. 8 \subseteq P
  <2>1. 8 \in Nat  OBVIOUS
  <2>2. QED  BY <1>9, <1>10, <2>1, Counted
<1>13. \A i \in 0..8 : g[i] \in Machine /\ SameBut(t, g[i], {"r"}) /\ g[i].r[SP] = t.r[SP]
  BY <1>12 DEF P
<1>14. PICK u : u = g[8]  OBVIOUS
<1>15. u \in Machine /\ SameBut(t, u, {"r"}) /\ u.r[SP] = t.r[SP]  BY <1>13, <1>14
<1>16. u.r[DI] % Size(n) = slot(7) % Size(n)
  <2>1. 8 - 1 = 7 /\ 7 # SP /\ DI = 7 /\ 8 \in 1..8  BY DEF SP, DI
  <2>2. u = sreg(g[7], n, 7, slot(7)) /\ g[7] \in Machine  BY <1>8, <1>13, <1>14, <2>1
  <2>3. Written(g[7], u, n, 7, slot(7))  BY <1>2, <2>1, <2>2
  <2>4. QED  BY <2>1, <2>3 DEF Written
<1>17. PICK y \in Int : y = t.r[SP] + 8 * n  BY <1>0
<1>18. PICK d : d = set_sp(u, y)  OBVIOUS
<1>19. SpSet(u, d, y)  BY <1>15, <1>18, SpTo
<1>20. u.mem = t.mem /\ u.mask = t.mask  BY <1>15 DEF SameBut
<1>21. d \in Machine /\ d.mask = t.mask /\ d.mem = t.mem /\ Cong(t.mask, d.r[SP], y) /\ d.r[DI] = u.r[DI]
  BY <1>19, <1>20, Regs DEF SpSet
<1>22. SpMoved(t, d, 8 * n)  BY <1>17, <1>21 DEF SpMoved
<1>23. Moved(t, d)
  <2>1. Moved(t, u)  BY <1>15, <1>20 DEF Moved, Upper
  <2>2. Moved(u, d)  BY <1>15, <1>17, <1>18, MovedSp
  <2>3. QED  BY <2>1, <2>2, MovedTrans
<1>24. POPA_helper(t, n) = Plan(Same(t, 7), d)  BY <1>7, <1>14, <1>17, <1>18
<1>25. Fine(t, POPA_helper(t, n)) /\ POPA_helper(t, n).done = d  BY <1>23, <1>24, FineSame DEF Plan
<1>26. QED  BY <1>11, <1>16, <1>21, <1>22, <1>23, <1>25 DEF PoppedAll

LEMMA AllStep ==
    ASSUME StackSizes, StackInv, NEW n \in {1, 2}, DoAll(n)
    PROVE  Sound
<1>1. m \in Machine /\ Layout(m, stk) /\ DI \in Reg /\ m.r[DI] \in Int  BY MachineParts, Regs DEF StackInv
<1>2. CASE Pushes(PUSHA_helper(m, n), <<Entry("all", 8 * n, n, m.r[DI])>>)
  <2>1. PICK x, p : p = PUSHA_helper(m, n) /\ x = p.done  OBVIOUS
  <2>2. PushedAll(m, n, x) /\ Fine(m, p)  BY <1>1, <2>1, PushAll
  <2>3. PICK back \in Nat : back = 8 * n  OBVIOUS
  <2>4. PICK v \in Int : v = m.r[DI]  BY <1>1
  <2>5. PICK e : e = Entry("all", back, n, v)  OBVIOUS
  <2>6. e = [Entry("all", back, n, v) EXCEPT !.gap = 0]  BY <2>5 DEF Entry
  <2>7. SpMoved(m, x, -back) /\ Above(m, x, back) /\ Load(x, "SS", Below(m, back), n) = v % Size(n)
    BY <2>2, <2>3, <2>4 DEF PushedAll
  <2>8. Depth(<<e>>) <= m.mask => Layout(x, <<e>> \o stk)
    <3>1. "all" \in Kinds /\ back = back + 0 /\ 0 \in Nat /\ back = (IF "all" = "all" THEN 8 * n ELSE n)
          /\ n = (IF "all" = "seg" THEN 1 ELSE n) /\ "all" # "far"
      BY <2>3 DEF Kinds
    <3>2. QED  BY <1>1, <2>6, <2>7, <3>1, EntryPush
  <2>9. Pushes(p, <<e>>)  BY <1>2, <2>1, <2>3, <2>4, <2>5
  <2>10. QED  BY <2>1, <2>2, <2>8, <2>9, PushKeeps
<1>3. CASE CanPop("all", n) /\ Pops(POPA_helper(m, n), 1, POPA_helper(m, n).done.r[DI] % Size(n))
  <2>1. PICK x, p : p = POPA_helper(m, n) /\ x = p.done  OBVIOUS
  <2>2. PoppedAll(m, n, x) /\ Fine(m, p)  BY <1>1, <2>1, PopAll
  <2>3. PICK k \in Int : k = 8 * n /\ k = (IF "all" = "all" THEN 8 * n ELSE n)  OBVIOUS
  <2>4. SpMoved(m, x, k) /\ x.mem["SS"] = m.mem["SS"]
        /\ x.r[DI] % Size(n) = Load(m, "SS", Top(m), n) % Size(n)
    BY <2>2, <2>3 DEF PoppedAll
  <2>5. "all" \notin {"frame", "far", "seg"}  OBVIOUS
  <2>6. Layout(x, Rest(stk, 1)) /\ Load(m, "SS", Top(m), n) = stk[1].v /\ stk[1].v \in 0..(Size(n) - 1)
    BY <1>3, <2>3, <2>4, <2>5, TopPop
  <2>7. stk[1].v % Size(n) = stk[1].v  BY <2>6, ValueMod
  <2>8. QED  BY <1>3, <2>1, <2>2, <2>4, <2>6, <2>7, PopKeeps
<1>4. QED  BY <1>2, <1>3 DEF DoAll

\* A far call: CS, and the return address under it.
LEMMA FarPush ==
    ASSUME StackSizes, m \in Machine, Layout(m, stk), NEW n \in {1, 2}, NEW ip \in Int, NEW cs \in Int,
           NEW back \in Nat, back = 2 * n,
           NEW ef, ef = Entry("far", back, n, ip), NEW ec, ec = Entry("cs", n, n, cs), Depth(<<ef, ec>>) <= m.mask,
           NEW x, SpMoved(m, x, -back), Above(m, x, back),
           Load(x, "SS", Below(m, n), n) = cs % Size(n), Load(x, "SS", Below(m, back), n) = ip % Size(n)
    PROVE  Layout(x, <<ef, ec>> \o stk)
<1>1. Shape(m.mask, stk) /\ stk \in Seq(Entries)  BY DEF Layout, Shape
<1>2. m.mask \in Nat \ {0} /\ m.r[SP] \in Int /\ Depth(stk) \in Nat  BY <1>1, Sizes, SpType, DepthIs
<1>3. \A v \in Int : v % Size(n) \in 0..(Size(n) - 1) /\ v % Size(n) \in Nat
  <2>1. Size(n) \in Nat \ {0}  BY Sizes
  <2>2. \A v \in Int : v % Size(n) \in 0..(Size(n) - 1)  BY <2>1, ModInt, Zenon
  <2>3. QED  BY <2>1, <2>2
<1>4. Below(m, n) \in Int /\ Below(m, back) \in Int  BY BelowType
<1>5. ec = [kind |-> "cs", at |-> Below(m, n), n |-> n, deep |-> Depth(stk) + n, gap |-> 0, v |-> cs % Size(n)]
  BY DEF Entry
<1>6. ef = [kind |-> "far", at |-> Below(m, back), n |-> n, deep |-> Depth(stk) + back, gap |-> 0, v |-> ip % Size(n)]
  BY DEF Entry
<1>7. ec \in Entries /\ ef \in Entries  BY <1>2, <1>3, <1>4, <1>5, <1>6 DEF Entries, Kinds
<1>8. Depth(stk) + back <= m.mask
  <2>1. <<ef, ec>> # <<>> /\ <<ef, ec>>[1] = ef  OBVIOUS
  <2>2. Depth(<<ef, ec>>) = ef.deep + ef.gap  BY <2>1 DEF Depth
  <2>3. ef.deep = Depth(stk) + back /\ ef.gap = 0  BY <1>6
  <2>4. QED  BY <1>2, <2>2, <2>3
<1>9. x \in Machine /\ x.mask = m.mask /\ x.r[SP] \in Int /\ Cong(m.mask, x.r[SP], m.r[SP] + (-back))
  BY SpType DEF SpMoved
<1>10. PICK y \in Int : y = x.r[SP] + n  BY <1>9
<1>11. PICK d : d = set_sp(x, y)  OBVIOUS
<1>12. SpSet(x, d, y)  BY <1>9, <1>11, SpTo
<1>13. d \in Machine /\ d.mask = m.mask /\ d.mem = x.mem /\ Cong(m.mask, d.r[SP], y) /\ d.r[SP] \in Int
  BY <1>9, <1>12, SpType DEF SpSet
<1>14. SpMoved(m, d, -n)
  <2>1. PICK c \in Int : c = m.r[SP] + (-back)  BY <1>2
  <2>5. PICK p \in Int, M \in Nat \ {0} : p = x.r[SP] /\ M = m.mask  BY <1>2, <1>9
  <2>6. Cong(M, p, c) /\ n \in Int  BY <1>9, <2>1, <2>5
  <2>2. Cong(m.mask, x.r[SP] + n, c + n)  BY <2>5, <2>6, CongShift
  <2>3. PICK z \in Int : z = c + n /\ z = m.r[SP] + (-n)  BY <1>2, <2>1
  <2>4. Cong(m.mask, y, z)  BY <1>10, <2>2, <2>3
  <2>7. Cong(m.mask, d.r[SP], z)  BY <1>13, <2>4 DEF Cong
  <2>8. QED  BY <1>13, <2>3, <2>7 DEF SpMoved
<1>15. Above(m, d, back)  BY <1>13, AboveSame
<1>16. \A a \in Int : Load(d, "SS", a, n) = Load(x, "SS", a, n)  BY <1>13 DEF Load
<1>17. ec.at = At(m.mask, m.r[SP], -n)  BY <1>5, AtBelow
<1>18. PICK k \in Nat : k = n  OBVIOUS
<1>19. Fits(m, stk, ec, k)
  <2>1. Extent(ec) = n /\ ec.deep = Depth(stk) + n /\ ec.gap = 0 /\ ec.kind = "cs" /\ ec.n = n /\ ec.v = cs % Size(n)
    BY <1>5 DEF Extent
  <2>2. Depth(stk) + k <= m.mask  BY <1>2, <1>8, <1>18
  <2>3. ec.deep + ec.gap = Depth(stk) + k  BY <1>2, <1>18, <2>1
  <2>4. QED  BY <1>3, <1>7, <1>17, <2>1, <2>2, <2>3 DEF Fits
<1>20. Load(d, "SS", ec.at, Width(ec)) = Value(ec)
  <2>1. Width(ec) = n /\ Value(ec) = cs % Size(n) /\ ec.at = Below(m, n)  BY <1>5 DEF Width, Value
  <2>2. QED  BY <1>4, <1>16, <2>1
<1>21. PICK es : es = <<ec>> \o stk  OBVIOUS
<1>22. Layout(d, es)  BY <1>8, <1>14, <1>15, <1>18, <1>19, <1>20, <1>21, LayoutPush
<1>23. es # <<>> /\ es[1] = ec /\ Depth(es) = Depth(stk) + n
  <2>1. IsPush(stk, ec, <<ec>> \o stk, Len(stk))  BY <1>1, <1>7, PushIs
  <2>2. es # <<>> /\ es[1] = ec  BY <1>21, <2>1 DEF IsPush
  <2>3. Depth(es) = ec.deep + ec.gap  BY <2>2 DEF Depth
  <2>4. QED  BY <1>2, <1>5, <2>2, <2>3
<1>24. ef.at = At(d.mask, d.r[SP], -n)
  <2>1. PICK a \in Int, b \in Int : a = -n /\ b = -back /\ b = a + a  OBVIOUS
  <2>2. SpMoved(m, d, a)  BY <1>14, <2>1
  <2>3. At(d.mask, d.r[SP], a) = At(m.mask, m.r[SP], b)  BY <1>13, <2>1, <2>2, MovedAt
  <2>4. ef.at = Below(m, back)  BY <1>6
  <2>5. Below(m, back) = At(m.mask, m.r[SP], -back)  BY AtBelow
  <2>6. QED  BY <2>1, <2>3, <2>4, <2>5
<1>25. Fits(d, es, ef, k)
  <2>1. Extent(ef) = n /\ ef.deep = Depth(stk) + back /\ ef.gap = 0 /\ ef.kind = "far" /\ ef.n = n /\ ef.v = ip % Size(n)
    BY <1>6 DEF Extent
  <2>2. Depth(es) + k <= d.mask /\ ef.deep = Depth(es) + n /\ ef.deep + ef.gap = Depth(es) + k
    <3>1. PICK z \in Nat, M \in Nat, x1 \in Nat : z = Depth(stk) /\ M = m.mask /\ x1 = Depth(es) /\ x1 = z + n
      BY <1>2, <1>23
    <3>2. z + back <= M /\ d.mask = M /\ back = k + k /\ k = n  BY <1>8, <1>13, <1>18, <3>1
    <3>3. ef.deep = z + back /\ ef.gap = 0  BY <2>1, <3>1
    <3>4. QED  BY <3>1, <3>2, <3>3
  <2>3. es[1].kind = "cs" /\ es[1].n = n  BY <1>5, <1>23
  <2>4. QED  BY <1>3, <1>7, <1>23, <1>24, <2>1, <2>2, <2>3 DEF Fits
<1>26. Depth(es) + k <= d.mask  BY <1>25 DEF Fits
<1>27. SpMoved(d, x, -k)
  <2>1. Cong(m.mask, x.r[SP] + n, d.r[SP])  BY <1>10, <1>13 DEF Cong
  <2>2. PICK a \in Int : a = x.r[SP] + n  BY <1>9
  <2>3. PICK b \in Int, q \in Int, M \in Nat \ {0} : b = -n /\ q = d.r[SP] /\ M = m.mask  BY <1>2, <1>13
  <2>4. Cong(M, a + b, q + b)  BY <2>1, <2>2, <2>3, CongShift
  <2>5. a + b = x.r[SP] /\ b = -k  BY <1>9, <1>18, <2>2, <2>3
  <2>6. QED  BY <1>9, <1>13, <2>3, <2>4, <2>5 DEF SpMoved
<1>28. Above(d, x, k)
  <2>1. Above(d, d, k)  BY <1>13, AboveStart
  <2>2. QED  BY <1>13, <2>1, AboveSame
<1>29. Load(x, "SS", ef.at, Width(ef)) = Value(ef)  BY <1>6 DEF Width, Value
<1>30. Layout(x, <<ef>> \o es)  BY <1>13, <1>22, <1>25, <1>26, <1>27, <1>28, <1>29, LayoutPush
<1>31. <<ef>> \o es = <<ef, ec>> \o stk  BY <1>1, <1>7, <1>21
<1>32. QED  BY <1>30, <1>31

LEMMA CallFar ==
    ASSUME StackSizes, StackInv, NEW n \in {1, 2},
           Pushes(CALLFAR(m, n, 3, 2), <<Entry("far", 2 * n, n, m.ip), Entry("cs", n, n, m.cs)>>)
    PROVE  Sound
<1>1. m \in Machine /\ Layout(m, stk) /\ m.ip \in Int /\ m.cs \in Int /\ m.r[SP] \in Int
  BY MachineParts, SpType DEF StackInv
<1>2. PICK back \in Nat : back = 2 * n /\ n <= back /\ back >= n + n  OBVIOUS
<1>3. PICK y \in Int : y = m.r[SP] - back  BY <1>1
<1>4. PICK u : u = Store(set_sp(m, y), "SS", Below(m, n), n, m.cs)  OBVIOUS
<1>5. u \in Machine /\ SpMoved(m, u, -back) /\ Above(m, u, n) /\ Load(u, "SS", Below(m, n), n) = m.cs % Size(n)
  <2>1. n <= n /\ back \in Int /\ n \in Int  BY <1>2
  <2>2. PutBelow(m, u, back, n, n, m.cs)  BY <1>1, <1>3, <1>4, <2>1, PushWrite
  <2>3. QED  BY <2>2 DEF PutBelow
<1>6. u.mask = m.mask /\ Above(m, u, back)
  <2>1. u.mask = m.mask  BY <1>5 DEF SpMoved
  <2>2. n \in Int /\ back \in Int /\ n <= back  BY <1>2
  <2>3. QED  BY <1>1, <1>5, <2>1, <2>2, AboveLess
<1>7. PICK w : w = Store(u, "SS", Below(m, back), n, m.ip)  OBVIOUS
<1>8. Below(m, back) \in Int /\ Below(m, n) \in Int  BY <1>1, BelowType
<1>9. Stored(u, w, "SS", Below(m, back), n, m.ip)  BY <1>1, <1>5, <1>7, <1>8, StoreIs
<1>10. w \in Machine /\ w.r = u.r /\ w.mask = m.mask /\ Load(w, "SS", Below(m, back), n) = m.ip % Size(n)
  BY <1>6, <1>9 DEF Stored, SameBut
<1>11. Above(m, w, back)
  <2>1. back <= back /\ back \in Int /\ n <= back  BY <1>2
  <2>2. QED  BY <1>1, <1>5, <1>6, <1>7, <2>1, AboveStore
<1>12. ASSUME Depth(<<Entry("far", back, n, m.ip), Entry("cs", n, n, m.cs)>>) <= m.mask
       PROVE  Layout(CALLFAR(m, n, 3, 2).done, <<Entry("far", back, n, m.ip), Entry("cs", n, n, m.cs)>> \o stk)
  <2>1. Load(w, "SS", Below(m, n), n) = m.cs % Size(n)
    <3>1. PICK a \in Int, b \in Int : a = -back /\ b = -n  OBVIOUS
    <3>2. Clear(m.mask, a, n, b, n)
      <4>1. m.mask \in Nat /\ Depth(stk) \in Nat
        <5>1. Shape(m.mask, stk)  BY <1>1 DEF Layout
        <5>2. QED  BY <1>1, <5>1, Sizes, DepthIs
      <4>2. Depth(<<Entry("far", back, n, m.ip), Entry("cs", n, n, m.cs)>>) = Depth(stk) + back + 0
        BY DEF Depth, Entry
      <4>3. back <= m.mask  BY <1>2, <1>12, <4>1, <4>2
      <4>4. b >= a + n /\ b + n <= a + m.mask  BY <1>2, <3>1, <4>1, <4>3
      <4>5. QED  BY <4>4 DEF Clear
    <3>3. Below(m, back) = At(m.mask, m.r[SP], a) /\ Below(m, n) = At(m.mask, m.r[SP], b)  BY <1>1, <3>1, AtBelow
    <3>4. LoadKept(u, w, Below(m, n), n)  BY <1>1, <1>5, <1>6, <1>7, <3>2, <3>3, StoreBelow
    <3>5. QED  BY <1>5, <3>4 DEF LoadKept
  <2>2. PICK x : x = Jump(SetCS(w, 2), 3)  OBVIOUS
  <2>3. x \in Machine /\ x.r = w.r /\ x.mem = w.mem /\ x.mask = w.mask
    <3>1. 2 \in Int /\ 3 \in Int  OBVIOUS
    <3>2. SetCS(w, 2) \in Machine /\ SetCS(w, 2).r = w.r /\ SetCS(w, 2).mem = w.mem /\ SetCS(w, 2).mask = w.mask
      BY <1>10, <3>1, MovedJump DEF Moved
    <3>3. QED  BY <2>2, <3>1, <3>2, MovedJump DEF Moved
  <2>4. SpMoved(m, x, -back)  BY <1>5, <1>10, <2>3 DEF SpMoved
  <2>5. Above(m, x, back)  BY <1>1, <1>11, <2>3, AboveSame
  <2>6. \A a \in Int : Load(x, "SS", a, n) = Load(w, "SS", a, n)  BY <2>3 DEF Load
  <2>7. Layout(x, <<Entry("far", back, n, m.ip), Entry("cs", n, n, m.cs)>> \o stk)
    BY <1>1, <1>2, <1>8, <1>10, <1>12, <2>1, <2>4, <2>5, <2>6, FarPush
  <2>8. CALLFAR(m, n, 3, 2).done = x  BY <1>2, <1>3, <1>4, <1>7, <2>2 DEF CALLFAR, Plan
  <2>9. QED  BY <2>7, <2>8
<1>13. Fine(m, CALLFAR(m, n, 3, 2))
  <2>1. 3 \in Int /\ 2 \in Int  OBVIOUS
  <2>2. QED  BY <1>1, <2>1, FineFar
<1>14. QED  BY <1>2, <1>12, <1>13, PushKeeps

\* What a far return finds.
FarOnTop(n) ==
    /\ Load(m, "SS", Top(m), n) = stk[1].v /\ stk[1].v \in 0..(Size(n) - 1)
    /\ 2 \in DOMAIN stk /\ stk[2].kind = "cs"
    /\ Under(stk, 2) \in Nat /\ Depth(stk) = n + n + Under(stk, 2)

LEMMA FarTop ==
    ASSUME StackSizes, StackInv, NEW n \in {1, 2}, CanPop("far", n)
    PROVE  FarOnTop(n)
<1>1. m \in Machine /\ Layout(m, stk) /\ Shape(m.mask, stk)  BY DEF StackInv, Layout
<1>2. stk # <<>> /\ stk[1].kind = "far" /\ stk[1].n = n  BY DEF CanPop
<1>3. /\ stk[1].v \in 0..(Size(stk[1].n) - 1) /\ Load(m, "SS", Top(m), Width(stk[1])) = Value(stk[1])
  BY <1>1, <1>2, TopIs
<1>4. Width(stk[1]) = n /\ Value(stk[1]) = stk[1].v  BY <1>2 DEF Width, Value
<1>5. 1 \in DOMAIN stk /\ DOMAIN stk = 1..Len(stk) /\ Len(stk) \in Nat
  <2>1. stk \in Seq(Entries)  BY <1>1 DEF Shape
  <2>2. QED  BY <1>2, <2>1
<1>6. 1 < Len(stk) /\ stk[1 + 1].kind = "cs" /\ stk[1 + 1].n = n  BY <1>1, <1>2, <1>5 DEF Shape
<1>7. 2 \in DOMAIN stk /\ stk[2].kind = "cs" /\ stk[2].n = n  BY <1>5, <1>6
<1>8. /\ stk[1].deep = Extent(stk[1]) + Under(stk, 1) /\ stk[2].deep = Extent(stk[2]) + Under(stk, 2)
      /\ Under(stk, 2) \in Nat
  BY <1>1, <1>5, <1>7, DepthRest
<1>9. Extent(stk[1]) = n /\ Extent(stk[2]) = n  BY <1>2, <1>7 DEF Extent
<1>10. stk[1].gap = 0 /\ stk[2].gap = 0  BY <1>1, <1>2, <1>5, <1>7 DEF Shape
<1>11. Depth(stk) = stk[1].deep + stk[1].gap  BY <1>2 DEF Depth
<1>12. Under(stk, 1) = stk[2].deep + stk[2].gap  BY <1>6 DEF Under
<1>13. Depth(stk) = n + n + Under(stk, 2)  BY <1>8, <1>9, <1>10, <1>11, <1>12
<1>14. QED  BY <1>2, <1>3, <1>4, <1>7, <1>8, <1>13 DEF FarOnTop

\* The entries down to k came off.
LEMMA TakeOff ==
    ASSUME StackSizes, StackInv, NEW k \in DOMAIN stk, NEW d \in Int, Depth(stk) = d + Under(stk, k),
           NEW x, SpMoved(m, x, d), x.mem["SS"] = m.mem["SS"]
    PROVE  Layout(x, Rest(stk, k))
<1>1. m \in Machine /\ Layout(m, stk) /\ Shape(m.mask, stk)  BY DEF StackInv, Layout
<1>2. Depth(Rest(stk, k)) = Under(stk, k) /\ k \in 0..Len(stk) /\ Under(stk, k) \in Nat  BY <1>1, DepthRest
<1>3. d = Depth(stk) - Depth(Rest(stk, k))  BY <1>2
<1>4. SpMoved(m, x, Depth(stk) - Depth(Rest(stk, k)))  BY <1>3
<1>5. QED  BY <1>1, <1>2, <1>4, LayoutPop

LEMMA ReturnFar ==
    ASSUME StackSizes, StackInv, NEW n \in {1, 2}, CanPop("far", n),
           Pops(RETFAR(m, n, 0), 2, RETFAR(m, n, 0).done.ip % Size(n))
    PROVE  Sound
<1>1. m \in Machine /\ m.r[SP] \in Int  BY SpType DEF StackInv
<1>2. PICK d \in Int : d = n + n  OBVIOUS
<1>3. PICK y \in Int : y = m.r[SP] + d /\ y = m.r[SP] + 2 * n + 0  BY <1>1, <1>2
<1>4. PICK u : u = set_sp(m, y)  OBVIOUS
<1>5. SpSet(m, u, y)  BY <1>1, <1>4, SpTo
<1>6. u \in Machine /\ u.mask = m.mask /\ u.mem = m.mem /\ SpMoved(m, u, d)  BY <1>3, <1>5 DEF SpSet, SpMoved
<1>7. PICK v \in Int, s \in Int : v = Load(m, "SS", Top(m), n) /\ s = Load(m, "SS", Below(m, -n), n)
  <2>1. -n \in Int  OBVIOUS
  <2>2. Top(m) \in Int /\ Below(m, -n) \in Int  BY <1>1, <2>1, BelowType
  <2>3. QED  BY <1>1, <2>2, LoadType
<1>8. PICK w : w = SetCS(u, s)  OBVIOUS
<1>9. w \in Machine /\ w.r = u.r /\ w.mem = u.mem /\ w.mask = u.mask  BY <1>6, <1>7, <1>8, MovedJump DEF Moved
<1>10. PICK x : x = Jump(w, v)  OBVIOUS
<1>11. x \in Machine /\ x.r = w.r /\ x.mem = w.mem /\ x.mask = w.mask /\ x.ip = v % W
  BY <1>7, <1>9, <1>10, MovedJump DEF Moved
<1>12. SpMoved(m, x, d) /\ x.mem["SS"] = m.mem["SS"]  BY <1>6, <1>9, <1>11 DEF SpMoved
<1>13. FarOnTop(n)  BY FarTop
<1>14. Layout(x, Rest(stk, 2))  BY <1>2, <1>12, <1>13, TakeOff DEF FarOnTop
<1>15. (v % W) % Size(n) = stk[1].v  BY <1>7, <1>13, ValueMod DEF FarOnTop
<1>16. RETFAR(m, n, 0).done = x  BY <1>3, <1>4, <1>7, <1>8, <1>10 DEF RETFAR, Plan
<1>17. Fine(m, RETFAR(m, n, 0))
  <2>1. 0 \in Int  OBVIOUS
  <2>2. QED  BY <1>1, <2>1, FineFar
<1>18. QED  BY <1>11, <1>14, <1>15, <1>16, <1>17, PopKeeps

LEMMA FarStep ==
    ASSUME StackSizes, StackInv, NEW n \in {1, 2}, DoFar(n)
    PROVE  Sound
<1>1. CASE Moves(JMPFAR(m, 3, 2))
  <2>1. m \in Machine /\ 3 \in Int /\ 2 \in Int  BY DEF StackInv
  <2>2. Fine(m, JMPFAR(m, 3, 2))  BY <2>1, FineFar
  <2>3. QED  BY <1>1, <2>2, MoveKeeps
<1>2. CASE Pushes(CALLFAR(m, n, 3, 2), <<Entry("far", 2 * n, n, m.ip), Entry("cs", n, n, m.cs)>>)
  BY <1>2, CallFar
<1>3. CASE CanPop("far", n) /\ Pops(RETFAR(m, n, 0), 2, RETFAR(m, n, 0).done.ip % Size(n))
  BY <1>3, ReturnFar
<1>4. QED  BY <1>1, <1>2, <1>3 DEF DoFar

\* IRET: a far return, and the flags.
LEMMA IretStep ==
    ASSUME StackSizes, StackInv, DoIret
    PROVE  Sound
<1>1. m \in Machine /\ m.r[SP] \in Int /\ m.fl \in Int /\ Shape(m.mask, stk)
  BY MachineParts, SpType DEF StackInv, Layout
<1>2. CanPop("far", 1) /\ 2 < Len(stk) /\ stk[3].kind = "flags" /\ stk[3].n = 1
      /\ Pops(IRET(m), 3, IRET(m).done.ip % H)
  BY DEF DoIret
<1>3. FarOnTop(1)
  <2>1. 1 \in {1, 2}  OBVIOUS
  <2>2. QED  BY <1>2, <2>1, FarTop
<1>4. 3 \in DOMAIN stk
  <2>1. DOMAIN stk = 1..Len(stk) /\ Len(stk) \in Nat  BY <1>1, DepthIs
  <2>2. QED  BY <1>2, <2>1
<1>5. stk[3].deep = Extent(stk[3]) + Under(stk, 3) /\ Under(stk, 3) \in Nat  BY <1>1, <1>4, DepthRest
<1>6. Extent(stk[3]) = 1 /\ stk[3].gap = 0  BY <1>1, <1>2, <1>4 DEF Extent, Shape
<1>7. Under(stk, 2) = stk[3].deep + stk[3].gap  BY <1>2 DEF Under
<1>8. Depth(stk) = 3 + Under(stk, 3)  BY <1>3, <1>5, <1>6, <1>7 DEF FarOnTop
<1>9. PICK y \in Int : y = m.r[SP] + 3  BY <1>1
<1>10. PICK u : u = set_sp(m, y)  OBVIOUS
<1>11. SpSet(m, u, y)  BY <1>1, <1>10, SpTo
<1>12. u \in Machine /\ u.mask = m.mask /\ u.mem = m.mem /\ SpMoved(m, u, 3)  BY <1>9, <1>11 DEF SpSet, SpMoved
<1>13. PICK v \in Int, s \in Int, f \in Int :
         v = Load(m, "SS", Top(m), 1) /\ s = Load(m, "SS", Below(m, -1), 1) /\ f = Load(m, "SS", Below(m, -2), 1)
  <2>1. -1 \in Int /\ -2 \in Int /\ 1 \in {1, 2}  OBVIOUS
  <2>2. Top(m) \in Int /\ Below(m, -1) \in Int /\ Below(m, -2) \in Int  BY <1>1, <2>1, BelowType
  <2>3. QED  BY <1>1, <2>1, <2>2, LoadType
<1>14. PICK w : w = SetCS(u, s)  OBVIOUS
<1>15. w \in Machine /\ w.r = u.r /\ w.mem = u.mem /\ w.mask = u.mask  BY <1>12, <1>13, <1>14, MovedJump DEF Moved
<1>16. PICK z : z = Jump(w, v)  OBVIOUS
<1>17. z \in Machine /\ z.r = w.r /\ z.mem = w.mem /\ z.mask = w.mask /\ z.ip = v % W
  BY <1>13, <1>15, <1>16, MovedJump DEF Moved
<1>18. PICK g : g = (m.fl - (m.fl % H)) + f  OBVIOUS
<1>19. PICK x : x = [z EXCEPT !.fl = g]  OBVIOUS
<1>20. IRET(m) = Plan(Same(m, 3), x)  BY <1>9, <1>10, <1>13, <1>14, <1>16, <1>18, <1>19 DEF IRET
<1>21. x.r = z.r /\ x.mem = z.mem /\ x.mask = z.mask /\ x.ip = z.ip  BY <1>17, <1>19 DEF Machine
<1>22. Fine(m, IRET(m)) /\ IRET(m).done = x
  <2>1. 0 \in Int /\ 1 \in {1, 2}  OBVIOUS
  <2>2. Fine(m, IRET(m))  BY <1>1, <2>1, FineFar
  <2>3. QED  BY <1>20, <2>2 DEF Plan
<1>23. x \in Machine  BY <1>22 DEF Fine
<1>24. SpMoved(m, x, 3) /\ x.mem["SS"] = m.mem["SS"]  BY <1>12, <1>15, <1>17, <1>21, <1>23 DEF SpMoved
<1>25. Layout(x, Rest(stk, 3))
  <2>1. 3 \in Int  OBVIOUS
  <2>2. QED  BY <1>4, <1>8, <1>24, <2>1, TakeOff
<1>26. x.ip % H = stk[1].v
  <2>1. 1 \in {1, 2} /\ Size(1) = H  BY DEF Size
  <2>2. v \in 0..(Size(1) - 1) /\ v = stk[1].v  BY <1>3, <1>13 DEF FarOnTop
  <2>3. (v % W) % Size(1) = v  BY <2>1, <2>2, ValueMod
  <2>4. QED  BY <1>17, <1>21, <2>1, <2>2, <2>3
<1>27. QED  BY <1>2, <1>22, <1>25, <1>26, PopKeeps

LEMMA EnterStep ==
    ASSUME StackSizes, StackInv, NEW n \in {1, 2}, NEW alloc \in {0, 1},
           Pushes(ENTER(m, n, alloc), <<[Entry("frame", n, n, m.r[BP]) EXCEPT !.gap = alloc]>>)
    PROVE  Sound
<1>1. m \in Machine /\ Layout(m, stk) /\ m.r[SP] \in Int /\ BP \in Reg /\ SP \in Reg /\ BP # SP /\ m.r[BP] \in Int
  BY MachineParts, SpType, Regs DEF StackInv
<1>2. PICK k \in Nat : k = n + alloc  OBVIOUS
<1>3. PICK y \in Int : y = m.r[SP] - k /\ y = m.r[SP] - n - alloc  BY <1>1, <1>2
<1>4. PICK u : u = Store(set_sp(m, y), "SS", Below(m, n), n, m.r[BP])  OBVIOUS
<1>5. u \in Machine
  <2>1. PutBelow(m, u, k, n, n, m.r[BP])
    <3>1. n <= n /\ n \in Int /\ k \in Int  BY <1>2
    <3>2. QED  BY <1>1, <1>3, <1>4, <3>1, PushWrite
  <2>2. QED  BY <2>1 DEF PutBelow
<1>6. Below(m, n) \in Int  BY <1>1, BelowType
<1>7. PICK x : x = sreg(u, n, BP, Below(m, n))  OBVIOUS
<1>8. Written(u, x, n, BP, Below(m, n))  BY <1>1, <1>5, <1>6, <1>7, SetReg
<1>9. x \in Machine /\ x.mask = u.mask /\ x.r[SP] = u.r[SP] /\ x.mem["SS"] = u.mem["SS"]
  BY <1>1, <1>8 DEF Written, SameBut
<1>10. ENTER(m, n, alloc).done = x  BY <1>3, <1>4, <1>7 DEF ENTER, Plan
<1>11. PICK e : e = [Entry("frame", n, n, m.r[BP]) EXCEPT !.gap = alloc]  OBVIOUS
<1>12. Depth(<<e>>) <= m.mask => Layout(x, <<e>> \o stk)
  <2>1. "frame" \in Kinds /\ "frame" \notin {"all", "far"} /\ n = (IF "frame" = "seg" THEN 1 ELSE n) /\ alloc \in Nat
    BY DEF Kinds
  <2>2. QED  BY <1>1, <1>2, <1>3, <1>4, <1>9, <1>11, <2>1, OnePush
<1>13. Fine(m, ENTER(m, n, alloc))
  <2>1. alloc \in Int /\ 0 \in Int  OBVIOUS
  <2>2. QED  BY <1>1, <2>1, FineFar
<1>14. QED  BY <1>10, <1>11, <1>12, <1>13, PushKeeps

\* The frame LEAVE goes back to.
LEMMA FrameIs ==
    ASSUME StackSizes, StackInv, \E i \in DOMAIN stk : stk[i].kind = "frame"
    PROVE  FrameAt \in DOMAIN stk /\ stk[FrameAt].kind = "frame"
<1> DEFINE S == {i \in DOMAIN stk : stk[i].kind = "frame"}
<1>1. DOMAIN stk = 1..Len(stk) /\ Len(stk) \in Nat
  <2>1. Shape(m.mask, stk)  BY DEF StackInv, Layout
  <2>2. QED  BY <2>1, DepthIs
<1>2. S # {} /\ S \subseteq Nat  BY <1>1
<1>3. PICK y \in S : \A z \in S : <<z, y>> \notin OpToRel(<, Nat)  BY <1>2, NatLessThanWellFounded, WFMin
<1>4. y \in Nat /\ y \in DOMAIN stk /\ stk[y].kind = "frame"  BY <1>2, <1>3
<1>5. \A j \in 1..(y - 1) : stk[j].kind # "frame"
  <2>1. SUFFICES ASSUME NEW j \in 1..(y - 1), stk[j].kind = "frame" PROVE FALSE  OBVIOUS
  <2>2. j \in S /\ j \in Nat /\ j < y  BY <1>1, <1>4, <2>1
  <2>3. <<j, y>> \in OpToRel(<, Nat)  BY <1>4, <2>2 DEF OpToRel
  <2>4. QED  BY <1>3, <2>2, <2>3
<1>6. \E i \in DOMAIN stk : stk[i].kind = "frame" /\ \A j \in 1..(i - 1) : stk[j].kind # "frame"  BY <1>4, <1>5
<1>7. QED  BY <1>6 DEF FrameAt

LEMMA LeaveStep ==
    ASSUME StackSizes, StackInv, NEW n \in {1, 2}, HasFrame(n), NEW p, p = LEAVE(m, n),
           Faults(p) \/ Complete(p, SubSeq(stk, FrameAt + 1, Len(stk)), <<stk[FrameAt].v, p.done.r[BP] % Size(n)>>)
    PROVE  Sound
<1>1. m \in Machine /\ m.mask \in Nat \ {0} /\ m.r[SP] \in Int /\ BP \in Reg /\ SP \in Reg /\ BP # SP /\ m.r[BP] \in Int
      /\ Shape(m.mask, stk) /\ Placed(m, stk) /\ Held(m, stk)
  BY MachineParts, SpType, Regs, Sizes DEF StackInv, Layout
<1>2. PICK k \in DOMAIN stk : k = FrameAt /\ stk[k].kind = "frame"  BY FrameIs DEF HasFrame
<1>3. stk[k].n = n /\ stk[k].at = m.r[BP] % m.mask  BY <1>2 DEF HasFrame
<1>4. stk[k].deep = n + Under(stk, k) /\ Under(stk, k) \in Nat
  <2>1. Extent(stk[k]) = n  BY <1>2, <1>3 DEF Extent
  <2>2. QED  BY <1>1, <2>1, DepthRest
<1>5. Depth(stk) \in Nat  BY <1>1, DepthIs
<1>6. PICK c \in Int, d \in Int : c = Depth(stk) - stk[k].deep /\ d = c + n /\ Depth(stk) = d + Under(stk, k)
  BY <1>4, <1>5
<1>7. PICK b \in Int, s \in Int, M \in Nat \ {0} : b = m.r[BP] /\ s = m.r[SP] + c /\ M = m.mask
  <2>1. m.r[SP] + c \in Int  BY <1>1
  <2>2. QED  BY <1>1, <2>1
<1>8. Cong(M, b, s)  BY <1>1, <1>3, <1>6, <1>7 DEF Placed, At, Cong
<1>9. PICK y \in Int : y = b + n  OBVIOUS
<1>10. PICK u : u = set_sp(m, y)  OBVIOUS
<1>11. SpSet(m, u, y)  BY <1>1, <1>10, SpTo
<1>12. u \in Machine /\ u.mask = m.mask /\ u.mem = m.mem /\ Cong(M, u.r[SP], y)  BY <1>7, <1>11 DEF SpSet
<1>13. Cong(M, u.r[SP], m.r[SP] + d)
  <2>1. n \in Int  OBVIOUS
  <2>2. Cong(M, b + n, s + n)  BY <1>8, <2>1, CongShift
  <2>5. PICK q \in Int : q = m.r[SP]  BY <1>1
  <2>6. s = q + c /\ d = c + n  BY <1>6, <1>7, <2>5
  <2>3. s + n = m.r[SP] + d  BY <2>1, <2>5, <2>6
  <2>4. QED  BY <1>9, <1>12, <2>2, <2>3 DEF Cong
<1>14. PICK a \in Int : a = m.r[BP] % m.mask  BY <1>1, ModInt, Zenon
<1>15. PICK v \in Int : v = Load(m, "SS", a, n)  BY <1>1, <1>14, LoadType
<1>16. v = stk[k].v /\ v \in 0..(Size(n) - 1)
  <2>1. Width(stk[k]) = n /\ Value(stk[k]) = stk[k].v  BY <1>2, <1>3 DEF Width, Value
  <2>2. stk[k].v \in 0..(Size(n) - 1)  BY <1>1, <1>3 DEF Shape
  <2>3. QED  BY <1>1, <1>3, <1>14, <1>15, <2>1, <2>2 DEF Held
<1>17. PICK x : x = sreg(u, n, BP, v)  OBVIOUS
<1>18. Written(u, x, n, BP, v)  BY <1>1, <1>12, <1>17, SetReg
<1>19. x \in Machine /\ x.mask = m.mask /\ x.r[SP] = u.r[SP] /\ x.mem = m.mem /\ x.r[BP] % Size(n) = v % Size(n)
  BY <1>1, <1>12, <1>18 DEF Written, SameBut
<1>20. SpMoved(m, x, d)  BY <1>7, <1>13, <1>19 DEF SpMoved
<1>21. p.done = x  BY <1>7, <1>9, <1>10, <1>14, <1>15, <1>17 DEF LEAVE, Plan
<1>22. Layout(x, Rest(stk, k))  BY <1>6, <1>19, <1>20, TakeOff
<1>23. v % Size(n) = v  BY <1>16, ValueMod
<1>24. Fine(m, p)
  <2>1. 0 \in Int  OBVIOUS
  <2>2. QED  BY <1>1, <2>1, FineFar
<1>25. PICK pp : pp = <<stk[FrameAt].v, p.done.r[BP] % Size(n)>>  OBVIOUS
<1>26. pp[1] = pp[2]  BY <1>2, <1>16, <1>19, <1>21, <1>23, <1>25
<1>27. Faults(p) \/ Complete(p, Rest(stk, k), pp)  BY <1>2, <1>25 DEF Rest
<1>28. QED  BY <1>21, <1>22, <1>24, <1>26, <1>27, FaultKeeps, CompleteKeeps

LEMMA FrameStep ==
    ASSUME StackSizes, StackInv, NEW n \in {1, 2}, DoFrame(n)
    PROVE  Sound
BY EnterStep, LeaveStep DEF DoFrame

-----------------------------------------------------------------------------
\* Nested ENTER.
LEMMA LevelMoves ==
    ASSUME StackSizes, NEW t \in Machine, NEW n \in {1, 2}, NEW level \in {1, 2}
    PROVE  Moved(t, ENTER_level(t, n, level, 0).done)
<1>1. t.r[SP] \in Int /\ t.r[SP] - n \in Int /\ t.r[SP] - n - 0 \in Int /\ Below(t, n) \in Int /\ BP \in Reg /\ BP # SP
      /\ SP \in Reg /\ t.r[BP] \in Int
  <2>1. t.r[SP] \in Int /\ n \in Int /\ BP \in Reg /\ BP # SP /\ SP \in Reg  BY SpType, Regs
  <2>2. t.r[SP] - n \in Int /\ t.r[SP] - n - 0 \in Int  BY <2>1
  <2>3. Below(t, n) \in Int  BY <2>1, BelowType
  <2>4. t.r[BP] \in Int  BY <2>1, MachineParts
  <2>5. QED  BY <2>1, <2>2, <2>3, <2>4
<1>2. PICK kk : kk = IF t.mask = H THEN 1 ELSE 2  OBVIOUS
<1> DEFINE Next1(v) == LET w == sreg(v, kk, BP, lreg(v, kk, BP) - n)
                       IN  Store(set_sp(w, t.r[SP] - n), "SS", Below(t, n), n, w.r[BP])
<1>3. PICK first : first = Store(set_sp(t, t.r[SP] - n), "SS", Below(t, n), n, t.r[BP])  OBVIOUS
<1>4. Moved(t, first) /\ first \in Machine
  <2>1. PICK b \in Int : b = t.r[BP]  BY <1>1
  <2>2. 0 \in Nat  OBVIOUS
  <2>3. Moved(t, Store(set_sp(t, t.r[SP] - n), "SS", Below(t, n), n, b))  BY <2>2, FinePush
  <2>4. Moved(t, first)  BY <1>3, <2>1, <2>3
  <2>5. QED  BY <2>4 DEF Moved
<1>5. \A v \in Machine : Moved(v, Next1(v)) /\ Next1(v) \in Machine
  <2>1. TAKE v \in Machine
  <2>2. PICK z \in Int : z = lreg(v, kk, BP) - n  BY <1>1, LregType
  <2>3. PICK w : w = sreg(v, kk, BP, z)  OBVIOUS
  <2>4. Moved(v, w) /\ w \in Machine  BY <1>1, <2>2, <2>3, MovedReg DEF Moved
  <2>5. PICK s : s = set_sp(w, t.r[SP] - n)  OBVIOUS
  <2>6. Moved(w, s) /\ s \in Machine  BY <1>1, <2>4, <2>5, MovedSp DEF Moved
  <2>7. w.r[BP] \in Int  BY <1>1, <2>4, MachineParts
  <2>8. Moved(s, Store(s, "SS", Below(t, n), n, w.r[BP]))  BY <1>1, <2>6, <2>7, MovedStore
  <2>9. Next1(v) = Store(s, "SS", Below(t, n), n, w.r[BP])  BY <2>2, <2>3, <2>5
  <2>10. Moved(v, Next1(v))
    <3>1. Moved(v, s)  BY <2>4, <2>6, MovedTrans
    <3>2. QED  BY <2>8, <2>9, <3>1, MovedTrans
  <2>11. QED  BY <2>10 DEF Moved
<1>6. PICK k \in Nat : k = level - 1  OBVIOUS
<1> DEFINE F == [i \in 1..k |-> [v \in Machine |-> Next1(v)]]
<1> DEFINE Is(f) == f = [i \in 0..k |-> IF i = 0 THEN first ELSE Next1(f[i - 1])]
<1> HIDE DEF Next1
<1>7. F \in [1..k -> [Machine -> Machine]]  BY <1>5
<1>8. PICK f : Run(f, F, first, k)
  <2> HIDE DEF F
  <2>1. QED  BY <1>4, <1>7, RunExists
<1>9. Is(f)
  <2>1. f \in [0..k -> Machine] /\ f[0] = first /\ \A i \in 1..k : f[i] = F[i][f[i - 1]]  BY <1>8 DEF Run
  <2>2. \A i \in 1..k : f[i] = Next1(f[i - 1])
    <3>1. TAKE i \in 1..k
    <3>2. f[i - 1] \in Machine  BY <2>1
    <3>3. QED  BY <2>1, <3>2
  <2>3. f = [i \in 0..k |-> f[i]]  BY <2>1
  <2>4. \A i \in 0..k : i = 0 \/ i \in 1..k  OBVIOUS
  <2>5. QED  BY <2>1, <2>2, <2>3, <2>4
<1> DEFINE g == CHOOSE g : Is(g)
<1>10. Is(g)  BY <1>9
<1>11. PICK temp \in Int : temp = lreg(first, n, SP)  BY <1>1, <1>4, LregType
<1>12. ENTER_level(t, n, level, 0).done
         = sreg(Store(set_sp(g[k], t.r[SP] - n - 0), "SS", Below(t, n), n, temp), n, BP, temp)
  BY <1>2, <1>3, <1>6, <1>11 DEF ENTER_level, Plan, Next1
<1> HIDE DEF g
<1>13. g[0] = first /\ \A i \in 1..k : g[i] = Next1(g[i - 1])
  <2>1. g[0] = first  BY <1>10
  <2>2. ASSUME NEW i \in 1..k PROVE g[i] = Next1(g[i - 1])
    <3>1. i \in 0..k /\ i # 0  OBVIOUS
    <3>2. QED  BY <1>10, <3>1
  <2>3. QED  BY <2>1, <2>2
<1> HIDE DEF Is, F
<1> DEFINE P == {i \in Nat : i <= k => Moved(t, g[i])}
<1>14. 0 \in P  BY <1>4, <1>13
<1>15. ASSUME NEW j \in 0 .. k - 1, j \in P PROVE j + 1 \in P
  <2>1. j \in Nat /\ j <= k /\ j + 1 \in 1..k /\ (j + 1) - 1 = j  OBVIOUS
  <2>2. Moved(t, g[j]) /\ g[j] \in Machine  BY <1>15, <2>1 DEF Moved
  <2>3. g[j + 1] = Next1(g[j])  BY <1>13, <2>1
  <2>4. Moved(t, g[j + 1])  BY <1>5, <2>2, <2>3, MovedTrans
  <2>5. QED  BY <2>1, <2>4
<1> HIDE DEF P
<1>16. 0 .. k \subseteq P  BY <1>14, <1>15, Counted
<1>17. PICK u : u = g[k]  OBVIOUS
<1>18. Moved(t, u) /\ u \in Machine
  <2>1. k \in P /\ k <= k  BY <1>16
  <2>2. Moved(t, u)  BY <1>17, <2>1 DEF P
  <2>3. QED  BY <2>2 DEF Moved
<1>19. PICK s : s = set_sp(u, t.r[SP] - n - 0)  OBVIOUS
<1>20. Moved(u, s) /\ s \in Machine  BY <1>1, <1>18, <1>19, MovedSp DEF Moved
<1>21. PICK w : w = Store(s, "SS", Below(t, n), n, temp)  OBVIOUS
<1>22. Moved(s, w) /\ w \in Machine
  <2>1. Moved(s, w)  BY <1>1, <1>20, <1>21, MovedStore
  <2>2. QED  BY <2>1 DEF Moved
<1>23. Moved(w, sreg(w, n, BP, temp))  BY <1>1, <1>22, MovedReg
<1>24. Moved(t, sreg(w, n, BP, temp))  BY <1>18, <1>20, <1>22, <1>23, MovedTrans
<1>25. QED  BY <1>12, <1>17, <1>19, <1>21, <1>24

LEMMA NestedStep ==
    ASSUME StackSizes, StackInv, NEW n \in {1, 2}, DoNested(n)
    PROVE  Sound
<1>1. PICK level \in {1, 2} : Complete(ENTER_level(m, n, level, 0), <<>>, pop)  BY DEF DoNested
<1>2. Moved(m, ENTER_level(m, n, level, 0).done)  BY LevelMoves DEF StackInv
<1>3. m' = ENTER_level(m, n, level, 0).done /\ stk' = <<>> /\ pop' = pop /\ faulted' = faulted  BY <1>1 DEF Complete
<1>4. Layout(m', <<>>)  BY <1>2, <1>3, LayoutEmpty DEF Moved
<1>5. QED  BY <1>2, <1>3, <1>4 DEF Sound, StackInv, Precise, Moved

-----------------------------------------------------------------------------
LEMMA StackStarts ==
    ASSUME StackSizes, StackInit
    PROVE  StackInv
<1>1. PICK sp \in SpChoice, mask \in {H, W} :
        m = [r |-> [i \in Reg |-> IF i = SP THEN sp ELSE IF i = CX THEN 1 ELSE H + i],
             mem |-> [g \in {"SS", "DS"} |-> [a \in 0..(W - 1) |-> 0]],
             ip |-> H + 1, cs |-> 1, fl |-> H + 2, mask |-> mask]
  BY DEF StackInit
<1>2. sp \in Int /\ H \in Int  BY Sizes DEF StackSizes
<1>3. [i \in Reg |-> IF i = SP THEN sp ELSE IF i = CX THEN 1 ELSE H + i] \in [Reg -> Int]  BY <1>2 DEF Reg
<1>4. [g \in {"SS", "DS"} |-> [a \in 0..(W - 1) |-> 0]] \in [{"SS", "DS"} -> [0..(W - 1) -> Int]]  OBVIOUS
<1>5. m \in Machine  BY <1>1, <1>2, <1>3, <1>4 DEF Machine
<1>6. Layout(m, <<>>)  BY <1>5, LayoutEmpty
<1>7. QED  BY <1>5, <1>6 DEF StackInit, StackInv

LEMMA StackSteps ==
    ASSUME StackSizes, StackInv, [StackNext]_stkVars
    PROVE  StackInv' /\ (Sound \/ UNCHANGED stkVars)
<1>1. CASE StackNext
  <2>1. PICK n \in {1, 2} :
          \/ \E o \in ModRM : DoMove(n, o) \/ DoPush(n, o) \/ DoPop(n, o) \/ DoNear(n, o)
          \/ DoAll(n) \/ DoFar(n) \/ DoFrame(n) \/ DoNested(n)
          \/ n = 1 /\ DoIret
    BY <1>1 DEF StackNext
  <2>2. Sound
    BY <2>1, MoveStep, PushStep, PopStep, NearStep, AllStep, FarStep, FrameStep, NestedStep, IretStep
  <2>3. QED  BY <2>2 DEF Sound
<1>2. CASE UNCHANGED stkVars  BY <1>2 DEF StackInv, stkVars
<1>3. QED  BY <1>1, <1>2

LEMMA InvSound ==
    ASSUME StackSizes, StackInv
    PROVE  StackSound
<1>1. m \in Machine /\ Layout(m, stk) /\ pop[1] = pop[2] /\ m.r[SP] \in Int  BY SpType DEF StackInv
<1>2. Lifo  BY <1>1 DEF Lifo, Layout, Held, Width, Value
<1>3. TopReachable
  <2> DEFINE viaEsp == [adsz16 |-> FALSE, mod |-> 0, rm |-> 4, base |-> 4, index |-> 4, scale |-> 1, disp |-> 0]
  <2>1. SUFFICES ASSUME stk # <<>>, stk[1].kind \notin {"frame", "seg"}, m.mask = W
                 PROVE  stk[1].at = Top(m) /\ Operand(m, viaEsp, stk[1].n) = stk[1].v
    BY DEF TopReachable
  <2>2. stk[1].at = Top(m) /\ Load(m, "SS", Top(m), stk[1].n) = stk[1].v
    <3>1. stk[1].at = Top(m) /\ Load(m, "SS", Top(m), Width(stk[1])) = Value(stk[1])  BY <1>1, <2>1, TopIs
    <3>2. Width(stk[1]) = stk[1].n /\ Value(stk[1]) = stk[1].v  BY <2>1 DEF Width, Value
    <3>3. QED  BY <3>1, <3>2
  <2>3. modsib(m, viaEsp).seg = "SS" /\ modsib(m, viaEsp).addr = Top(m)
    <3>1. viaEsp.adsz16 = FALSE /\ viaEsp.mod = 0 /\ viaEsp.rm = 4 /\ viaEsp.base = 4 /\ viaEsp.index = 4
          /\ viaEsp.scale = 1 /\ viaEsp.disp = 0
      OBVIOUS
    <3> HIDE DEF viaEsp
    <3>2. modsib(m, viaEsp) = modsib32(m, viaEsp)  BY <3>1 DEF modsib
    <3>3. modsib32(m, viaEsp).seg = "SS"  BY <3>1 DEF modsib32, SP
    <3>4. modsib32(m, viaEsp).addr = (m.r[4] + 0 + 0) % W  BY <3>1 DEF modsib32
    <3>5. m.r[4] + 0 + 0 = m.r[SP]  BY <1>1 DEF SP
    <3>6. QED  BY <2>1, <3>2, <3>3, <3>4, <3>5 DEF Top
  <2>4. viaEsp.mod # 3  OBVIOUS
  <2> HIDE DEF viaEsp
  <2>5. QED  BY <2>2, <2>3, <2>4 DEF Operand
<1>4. QED  BY <1>2, <1>3 DEF StackSound

\* Whatever a guest pushes, calls, enters and leaves, in either width and on a
\* stack of either width, each entry keeps what was pushed, a matching pop gives
\* it back, and the entry on top is at SS:SP and read with [ESP] (PUSH .. LEAVE,
\* set_sp).  The guest does not overrun its stack (Pushes).
THEOREM StackSafe == ASSUME StackSizes PROVE StackSpec => []StackSound
<1>1. StackInit => StackInv  BY StackStarts
<1>2. StackInv /\ [StackNext]_stkVars => StackInv'  BY StackSteps
<1>3. StackInv => StackSound  BY InvSound
<1>4. QED  BY <1>1, <1>2, <1>3, PTL DEF StackSpec

\* An instruction that fails in any of its fetches and translations leaves the
\* registers, memory, flags and IP as they were; on a 16-bit stack the upper half
\* of ESP never changes, for a guest that does not write ESP as an operand
\* (POP_helper, set_sp).
THEOREM PreciseFaults == ASSUME StackSizes, NoSpOperand PROVE StackSpec => StackPrecise
<1>1. StackInit => StackInv  BY StackStarts
<1>2. StackInv /\ [StackNext]_stkVars => StackInv'  BY StackSteps
<1>3. StackInv /\ [StackNext]_stkVars => [Precise /\ UpperKept]_stkVars
  <2>1. SUFFICES ASSUME StackInv, [StackNext]_stkVars, ~ UNCHANGED stkVars PROVE Precise /\ UpperKept
    OBVIOUS
  <2>2. Sound  BY <2>1, StackSteps
  <2>3. QED  BY <2>2 DEF Sound, Upper, UpperKept
<1>4. QED  BY <1>1, <1>2, <1>3, PTL DEF StackSpec, StackPrecise
=============================================================================
