----------------------------- MODULE DebugconRing -----------------------------
(***************************************************************************)
(* The ring buffer between the guest's debug port (debugcon_write_char, on *)
(* the core of the CPU) and the task that prints it (debugcon_task, on the *)
(* other core).  There is no lock: head belongs to the writer, and tail is *)
(* moved by both, by the writer to drop the oldest character of a full     *)
(* ring.  Each step below is one access to shared memory.                  *)
(*                                                                         *)
(* A character is the number of its write, so that what is printed can be  *)
(* compared with what was written.                                         *)
(***************************************************************************)
EXTENDS Integers, Sequences

CONSTANTS
  Cap,      \* DEBUGCON_BUF_SIZE
  Chunk,    \* DEBUGCON_DRAIN_CHUNK
  Mod,      \* modulus of the indices, a multiple of Cap
  Start,    \* characters that have come and gone when the history begins
  MaxChars  \* bound: characters the guest writes from then on

RingSizes ==
  /\ Cap \in Nat \ {0} /\ Chunk \in Nat \ {0} /\ MaxChars \in Nat
  /\ Mod \in Nat /\ Mod % Cap = 0 /\ Start \in 0 .. Mod - 1
  /\ Mod > 2 * (MaxChars + Cap)   \* 2^32: no lag is taken for a lead

VARIABLES
  buf,            \* s_debugcon_buf
  head, tail,     \* s_debugcon_head, s_debugcon_tail
  w,              \* the writer: what it is about to do and what it has read
  r,              \* the reader, likewise
  sent,           \* history: characters written
  lost,           \* history: the writer has dropped characters
  printed         \* history: the last character printed, and whether all of
                  \* them up to it have been printed in order, each once

ringVars == <<buf, head, tail, w, r, sent, lost, printed>>

\* head - tail of unsigned indices.
Dist(a, b) == (a - b) % Mod
Slot(i) == i % Cap

-------------------------------------------------------------------------------
(* debugcon_write_char *)

\* Mutant: the ring is full one character late.
WriteLoadLate ==
  /\ w.pc = "idle" /\ sent < MaxChars
  /\ w' = [pc |-> IF Dist(head, tail) > Cap THEN "drop" ELSE "put", tail |-> tail]
  /\ UNCHANGED <<buf, head, tail, r, sent, lost, printed>>

\* Load tail; is the ring full?
WriteLoad ==
  /\ w.pc = "idle" /\ sent < MaxChars
  /\ w' = [pc |-> IF Dist(head, tail) >= Cap THEN "drop" ELSE "put", tail |-> tail]
  /\ UNCHANGED <<buf, head, tail, r, sent, lost, printed>>

\* Store the tail that was loaded, plus one, whatever it is by now.
WriteDrop ==
  /\ w.pc = "drop"
  /\ tail' = (w.tail + 1) % Mod
  /\ lost' = TRUE
  /\ w' = [w EXCEPT !.pc = "put"]
  /\ UNCHANGED <<buf, head, r, sent, printed>>

WritePut ==
  /\ w.pc = "put"
  /\ buf' = [buf EXCEPT ![Slot(head)] = sent + 1]
  /\ w' = [w EXCEPT !.pc = "publish"]
  /\ UNCHANGED <<head, tail, r, sent, lost, printed>>

WritePublish ==
  /\ w.pc = "publish"
  /\ head' = (head + 1) % Mod
  /\ sent' = sent + 1
  /\ w' = [w EXCEPT !.pc = "idle"]
  /\ UNCHANGED <<buf, tail, r, lost, printed>>

-------------------------------------------------------------------------------
(* debugcon_task *)

ReadTail ==
  /\ r.pc = "tail"
  /\ r' = [r EXCEPT !.pc = "head", !.tail = tail]
  /\ UNCHANGED <<buf, head, tail, w, sent, lost, printed>>

\* Mutants: everything there is, a chunk whatever there is, whole chunks only.
TakenAll(avail) == avail
TakenChunk(avail) == IF avail = 0 THEN 0 ELSE Chunk
TakenWhole(avail) == IF avail < Chunk THEN 0 ELSE Chunk

\* How much of what is available the task takes.
Taken(avail) == IF avail > Chunk THEN Chunk ELSE avail

\* Load head: there is nothing, or at most a chunk is taken.
ReadHead ==
  /\ r.pc = "head"
  /\ LET n == Taken(Dist(head, r.tail))
     IN  r' = [r EXCEPT !.pc = IF n = 0 THEN "tail" ELSE "copy", !.n = n, !.local = <<>>]
  /\ UNCHANGED <<buf, head, tail, w, sent, lost, printed>>

ReadCopy ==
  /\ r.pc = "copy"
  /\ r' = [r EXCEPT !.local = Append(@, buf[Slot(r.tail + Len(@))]),
                    !.pc = IF Len(r.local) + 1 = r.n THEN "check" ELSE "copy"]
  /\ UNCHANGED <<buf, head, tail, w, sent, lost, printed>>

\* Load tail again: has the writer gone past what was copied?
ReadCheck ==
  /\ r.pc = "check"
  /\ LET ahead == Dist(r.tail + r.n, tail)
     IN  r' = [r EXCEPT !.pc = IF ahead > 0 /\ ahead < Mod \div 2 THEN "store" ELSE "print"]
  /\ UNCHANGED <<buf, head, tail, w, sent, lost, printed>>

ReadStore ==
  /\ r.pc = "store"
  /\ tail' = (r.tail + r.n) % Mod
  /\ r' = [r EXCEPT !.pc = "print"]
  /\ UNCHANGED <<buf, head, w, sent, lost, printed>>

ReadPrint ==
  /\ r.pc = "print"
  /\ printed' = [last |-> r.local[r.n],
                 exact |-> printed.exact /\ \A i \in 1 .. r.n : r.local[i] = printed.last + i]
  /\ r' = [r EXCEPT !.pc = "tail"]
  /\ UNCHANGED <<buf, head, tail, w, sent, lost>>

-------------------------------------------------------------------------------

RingInit ==
  /\ buf = [i \in 0 .. Cap - 1 |-> 0]
  /\ head = Start /\ tail = Start
  /\ w = [pc |-> "idle", tail |-> 0]
  /\ r = [pc |-> "tail", tail |-> Start, n |-> 0, local |-> <<>>]
  /\ sent = 0 /\ lost = FALSE
  /\ printed = [last |-> 0, exact |-> TRUE]

Writer == WriteLoad \/ WriteDrop \/ WritePut \/ WritePublish
Reader == ReadTail \/ ReadHead \/ ReadCopy \/ ReadCheck \/ ReadStore \/ ReadPrint

RingNext == Writer \/ Reader

\* The printing task is one of several of its priority, and is scheduled.
RingSpec == RingInit /\ [][RingNext]_ringVars /\ WF_ringVars(Reader) /\ WF_ringVars(WriteDrop \/ WritePut \/ WritePublish)

-------------------------------------------------------------------------------
(* Properties *)

\* What the task has copied.
Texts == UNION {[1 .. n -> 0 .. MaxChars] : n \in 0 .. Chunk}

RingTypeOK ==
  /\ buf \in [0 .. Cap - 1 -> 0 .. MaxChars]
  /\ head \in 0 .. Mod - 1 /\ tail \in 0 .. Mod - 1
  /\ w \in [pc : {"idle", "drop", "put", "publish"}, tail : 0 .. Mod - 1]
  /\ r \in [pc : {"tail", "head", "copy", "check", "store", "print"}, tail : 0 .. Mod - 1,
            n : 0 .. Chunk, local : Texts]
  /\ sent \in 0 .. MaxChars /\ lost \in BOOLEAN
  /\ printed \in [last : 0 .. MaxChars, exact : BOOLEAN]

\* As long as the ring has not overflowed, what is printed is what the guest
\* wrote, in order, each character once and none missing.
Faithful == ~lost => printed.exact

\* Overflow or not, nothing is printed that was never written: the tail does not
\* get ahead of the head, however the two sides interleave their stores to it.
OnlyWritten ==
  r.pc \in {"check", "store", "print"} => \A i \in 1 .. r.n : r.local[i] \in 1 .. sent + 1

\* The ring as its two sides see it, whatever the order of their accesses
\* (debugcon_write_char, debugcon_task).
RingSound == RingTypeOK /\ Faithful /\ OnlyWritten

\* The last words of the guest are printed.
LastWords == sent = MaxChars ~> printed.last = MaxChars

===============================================================================
