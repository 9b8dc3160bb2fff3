------------------------------- MODULE SdCache --------------------------------
(***************************************************************************)
(* The write-through sector cache that sdmmc_crc_wrap.c puts between the   *)
(* SD driver and its callers, FAT and the IDE disks.                       *)
(*                                                                         *)
(* A caller is a task.  The cache is protected by a mutex, which a read    *)
(* gives up while the card is read and a write takes only after the card   *)
(* has been written.  The card may fail: a read then changes nothing, a    *)
(* write leaves each of its sectors old or new.                            *)
(***************************************************************************)
EXTENDS Integers, FiniteSets

CONSTANTS
  Task,        \* callers
  CardSector,  \* sectors of the card
  Sets, Ways,
  CardData,    \* contents of a sector
  AgeMod,      \* ages are unsigned integers of this modulus
  MaxRun,      \* bound: sectors of one request
  Region,      \* Region[t]: the sectors task t may ask for
  Writers,     \* the tasks that write
  NoTask

ASSUME CacheSizes ==
  /\ CardSector \subseteq Nat /\ Sets \in Nat \ {0} /\ Ways \in Nat \ {0}
  /\ AgeMod \in Nat \ {0} /\ MaxRun \in Nat
  /\ NoTask \notin Task

\* Each caller has sectors of its own; a single caller may have them all.
ASSUME CallersApart ==
  /\ Region \in [Task -> SUBSET CardSector]
  /\ \A t, u \in Task : t # u => Region[t] \cap Region[u] = {}

VARIABLES
  card,      \* what each sector of the card holds
  ready,     \* s_cache_initialized
  entries,   \* s_cache_entries, each with its part of s_cache_data
  age,       \* s_cache_age_counter
  mutex,     \* the task that holds s_cache_mutex
  req,       \* the request of each task, and how far it has come
  may        \* history: what a sector may hold, given the writes so far

sdVars == <<card, ready, entries, age, mutex, req, may>>

Set == 0 .. Sets - 1
Way == 0 .. Ways - 1
SetOf(s) == s % Sets

\* The age counter after n more uses.
Aged(n) == (age + n) % AgeMod

NoEntry == [valid |-> FALSE]
EmptyCache == [x \in Set |-> [w \in Way |-> NoEntry]]

Span(from, n) == from .. from + n - 1

\* A task without a request.
NoRequest == [pc |-> "idle"]

Least(S) == CHOOSE w \in S : \A x \in S : w <= x

-------------------------------------------------------------------------------
(* The cache *)

\* The ways of its set that hold sector s.
Holding(es, s) == {w \in Way : es[SetOf(s)][w].valid /\ es[SetOf(s)][w].sector = s}
Cached(es, s) == Holding(es, s) # {}

\* sd_cache_lookup and the copy of a hit: the first way that holds s.
Hit(es, s) == es[SetOf(s)][Least(Holding(es, s))].data

\* sd_cache_insert's victim: the first free way, else the first of the least age.
Victim(es, s) ==
  LET set == es[SetOf(s)]
      free == {w \in Way : ~set[w].valid}
      oldest == {w \in Way : \A x \in Way : set[w].age <= set[x].age}
  IN  Least(IF free # {} THEN free ELSE oldest)

Place(es, s, w, a, v) ==
  [es EXCEPT ![SetOf(s)][w] = [valid |-> TRUE, sector |-> s, age |-> a, data |-> v]]

\* sd_cache_insert: whether s is cached already is not asked.
Insert(es, s, a, v) == Place(es, s, Victim(es, s), a, v)

\* Mutant: the sector is inserted without a look for it.
UpdateBlind(es, s, a, v) == Insert(es, s, a, v)

\* sd_cache_update.
Update(es, s, a, v) ==
  IF Cached(es, s) THEN Place(es, s, Least(Holding(es, s)), a, v) ELSE Insert(es, s, a, v)

-------------------------------------------------------------------------------
(* The mutex *)

Take(t) == mutex = NoTask /\ mutex' = t
Give(t) == mutex = t /\ mutex' = NoTask

-------------------------------------------------------------------------------
(* Reads: __wrap_sdmmc_read_sectors *)

\* sd_cache_init, by the first request or, if it failed, by a later one.
LazyInit ==
  \/ UNCHANGED <<ready, entries>>
  \/ ~ready /\ ready' = TRUE /\ entries' = EmptyCache

\* The next sector of the request, and what lies behind its last one.
NextSector(t) == req[t].from + req[t].i
EndSector(t) == req[t].from + req[t].n
At(t, pc) == req[t].pc = pc

\* The buffer of the request with the sectors of S filled in from data.
BufferWith(t, S, data) ==
  [s \in DOMAIN req[t].buf \cup S |-> IF s \in S THEN data[s] ELSE req[t].buf[s]]

ReadSectors(t, from, n) ==
  /\ At(t, "idle") /\ Span(from, n) \subseteq Region[t]
  /\ LazyInit
  /\ req' = [req EXCEPT ![t] = [pc |-> IF ready' THEN "lock" ELSE "bypass",
                                from |-> from, n |-> n, i |-> 0, miss |-> 0,
                                buf |-> [s \in {} |-> 0]]]
  /\ UNCHANGED <<card, age, mutex, may>>

\* Without a cache the card is read, which may fail.
Bypass(t) ==
  /\ At(t, "bypass")
  /\ \/ req' = [req EXCEPT ![t].pc = "done",
                           ![t].buf = BufferWith(t, Span(req[t].from, req[t].n), card)]
     \/ req' = [req EXCEPT ![t] = NoRequest]
  /\ UNCHANGED <<card, ready, entries, age, mutex, may>>

Lock(t) ==
  /\ At(t, "lock") /\ Take(t)
  /\ req' = [req EXCEPT ![t].pc = "scan"]
  /\ UNCHANGED <<card, ready, entries, age, may>>

\* A hit is copied out of the cache.
CopyHit(t) ==
  /\ At(t, "scan") /\ NextSector(t) < EndSector(t) /\ Cached(entries, NextSector(t))
  /\ req' = [req EXCEPT ![t].i = @ + 1,
                        ![t].buf = BufferWith(t, {NextSector(t)}, [s \in CardSector |-> Hit(entries, s)])]
  /\ UNCHANGED <<card, ready, entries, age, mutex, may>>

\* Mutant: the search for the next hit looks one sector too far.
MissingTooFar(t) ==
  Least({k \in 1 .. EndSector(t) - NextSector(t) + 1 :
           NextSector(t) + k <= EndSector(t) => Cached(entries, NextSector(t) + k)})

\* How many sectors are missing up to the next hit.
Missing(t) ==
  Least({k \in 1 .. EndSector(t) - NextSector(t) :
           NextSector(t) + k < EndSector(t) => Cached(entries, NextSector(t) + k)})

\* The sectors up to the next hit are to be read; the mutex is given back.
Miss(t) ==
  /\ At(t, "scan") /\ NextSector(t) < EndSector(t) /\ ~Cached(entries, NextSector(t))
  /\ req' = [req EXCEPT ![t].pc = "fetch", ![t].miss = Missing(t), ![t].i = @ + Missing(t)]
  /\ Give(t)
  /\ UNCHANGED <<card, ready, entries, age, may>>

\* The card is read without the mutex; an error is returned at once.
Fetch(t) ==
  /\ At(t, "fetch")
  /\ \/ req' = [req EXCEPT ![t].pc = "fetched",
                           ![t].buf = BufferWith(t, Span(NextSector(t) - req[t].miss, req[t].miss), card)]
     \/ req' = [req EXCEPT ![t] = NoRequest]
  /\ UNCHANGED <<card, ready, entries, age, mutex, may>>

\* The mutex again.
Relock(t) ==
  /\ At(t, "fetched") /\ Take(t)
  /\ req' = [req EXCEPT ![t].pc = "insert"]
  /\ UNCHANGED <<card, ready, entries, age, may>>

\* What was read goes into the cache, sector by sector.
InsertNext(t) ==
  LET s == NextSector(t) - req[t].miss
  IN  /\ At(t, "insert")
      /\ entries' = Insert(entries, s, Aged(1), req[t].buf[s])
      /\ age' = Aged(1)
      /\ req' = [req EXCEPT ![t].miss = @ - 1, ![t].pc = IF req[t].miss = 1 THEN "scan" ELSE @]
      /\ UNCHANGED <<card, ready, mutex, may>>

ReadDone(t) ==
  /\ At(t, "scan") /\ NextSector(t) = EndSector(t) /\ Give(t)
  /\ req' = [req EXCEPT ![t].pc = "done"]
  /\ UNCHANGED <<card, ready, entries, age, may>>

\* The caller has its answer.
Return(t) ==
  /\ At(t, "done")
  /\ req' = [req EXCEPT ![t] = NoRequest]
  /\ UNCHANGED <<card, ready, entries, age, mutex, may>>

-------------------------------------------------------------------------------
(* Writes: __wrap_sdmmc_write_sectors *)

WriteSectors(t, from, n, data) ==
  /\ At(t, "idle") /\ t \in Writers /\ Span(from, n) \subseteq Region[t]
  /\ LazyInit
  /\ req' = [req EXCEPT ![t] = [pc |-> "write", from |-> from, n |-> n,
                                i |-> 0, miss |-> 0, buf |-> data]]
  /\ UNCHANGED <<card, age, mutex, may>>

\* The card takes the data of the sectors of S.
OnCard(t, S) == [s \in CardSector |-> IF s \in S THEN req[t].buf[s] ELSE card[s]]

\* Mutant: a write never reaches the cache.
WriteCardOnly(t) ==
  LET S == Span(req[t].from, req[t].n)
  IN  /\ At(t, "write")
      /\ card' = OnCard(t, S)
      /\ may' = [s \in CardSector |-> IF s \in S THEN {req[t].buf[s]} ELSE may[s]]
      /\ req' = [req EXCEPT ![t] = NoRequest]
      /\ UNCHANGED <<ready, entries, age, mutex>>

\* The card is written first, without the mutex.
WriteCard(t) ==
  LET S == Span(req[t].from, req[t].n)
  IN  /\ At(t, "write")
      /\ card' = OnCard(t, S)
      /\ may' = [s \in CardSector |-> IF s \in S THEN {req[t].buf[s]} ELSE may[s]]
      /\ req' = [req EXCEPT ![t] = IF ready THEN [@ EXCEPT !.pc = "written"] ELSE NoRequest]
      /\ UNCHANGED <<ready, entries, age, mutex>>

\* Mutant: the cache is told of a write that failed.
WriteFailsCached(t) ==
  LET S == Span(req[t].from, req[t].n)
  IN  /\ At(t, "write")
      /\ req' = [req EXCEPT ![t] = IF ready THEN [@ EXCEPT !.pc = "written"] ELSE NoRequest]
      /\ UNCHANGED <<card, ready, entries, age, mutex, may>>

\* An error of the card leaves any part of the data on it; the cache is not told.
WriteFails(t) ==
  LET S == Span(req[t].from, req[t].n)
  IN  /\ At(t, "write")
      /\ \E P \in SUBSET S : card' = OnCard(t, P)
      /\ may' = [s \in CardSector |-> IF s \in S THEN may[s] \cup {req[t].buf[s]} ELSE may[s]]
      /\ req' = [req EXCEPT ![t] = NoRequest]
      /\ UNCHANGED <<ready, entries, age, mutex>>

\* Then the cache, under the mutex.
LockUpdate(t) ==
  /\ At(t, "written") /\ Take(t)
  /\ req' = [req EXCEPT ![t].pc = "update"]
  /\ UNCHANGED <<card, ready, entries, age, may>>

\* Sector by sector; the last one gives the mutex back and ends the request.
UpdateNext(t) ==
  /\ At(t, "update")
  /\ entries' = Update(entries, NextSector(t), Aged(1), req[t].buf[NextSector(t)])
  /\ age' = Aged(1)
  /\ \/ /\ NextSector(t) + 1 < EndSector(t) /\ req' = [req EXCEPT ![t].i = @ + 1]
        /\ UNCHANGED mutex
     \/ /\ NextSector(t) + 1 = EndSector(t) /\ req' = [req EXCEPT ![t] = NoRequest]
        /\ Give(t)
  /\ UNCHANGED <<card, ready, may>>

-------------------------------------------------------------------------------

SdInit ==
  /\ card \in [CardSector -> CardData] /\ may = [s \in CardSector |-> {card[s]}]
  /\ ready = FALSE /\ entries = EmptyCache /\ age = 0
  /\ mutex = NoTask /\ req = [t \in Task |-> NoRequest]

SdRead(t) == \/ \E from \in CardSector, n \in 1 .. MaxRun : ReadSectors(t, from, n)
           \/ Bypass(t) \/ Lock(t) \/ CopyHit(t) \/ Miss(t) \/ Fetch(t)
           \/ Relock(t) \/ InsertNext(t) \/ ReadDone(t) \/ Return(t)
SdWrite(t) == \/ \E from \in CardSector, n \in 1 .. MaxRun :
                 \E data \in [Span(from, n) -> CardData] : WriteSectors(t, from, n, data)
            \/ WriteCard(t) \/ WriteFails(t) \/ LockUpdate(t) \/ UpdateNext(t)

SdNext == \E t \in Task : SdRead(t) \/ SdWrite(t)

SdSpec == SdInit /\ [][SdNext]_sdVars

-------------------------------------------------------------------------------
(* Properties *)

Pcs == {"lock", "bypass", "scan", "fetch", "fetched", "insert", "done", "write", "written", "update"}

Requests ==
  [pc : Pcs, from : CardSector, n : 1 .. MaxRun, i : 0 .. MaxRun, miss : 0 .. MaxRun,
   buf : UNION {[S -> CardData] : S \in SUBSET CardSector}]

Entries == [valid : {TRUE}, sector : CardSector, age : 0 .. AgeMod - 1, data : CardData]

SdTypeOK ==
  /\ card \in [CardSector -> CardData]
  /\ ready \in BOOLEAN
  /\ entries \in [Set -> [Way -> Entries \cup {NoEntry}]]
  /\ age \in 0 .. AgeMod - 1
  /\ mutex \in Task \cup {NoTask}
  /\ req \in [Task -> Requests \cup {NoRequest}]
  /\ may \in [CardSector -> SUBSET CardData]

\* The card has been written and the cache not yet.
Behind(s) ==
  \E t \in Task : /\ req[t].pc \in {"written", "update"}
                  /\ s \in NextSector(t) .. EndSector(t) - 1

\* What a copy in the cache says is what the sector may hold: the data of the
\* last write, or of a failed one since, or what the first of these found there.
Coherent ==
  \A x \in Set, w \in Way :
    LET e == entries[x][w]
    IN  e.valid /\ ~Behind(e.sector) => e.data \in may[e.sector]

\* A sector is cached once, or an update reaches one copy and a read another.
CachedOnce == \A s \in CardSector : Cardinality(Holding(entries, s)) <= 1

\* A read of several sectors, hits and misses mixed, answers for each of them
\* with what it may hold.
ReadsFresh ==
  \A t \in Task : At(t, "done") =>
    /\ DOMAIN req[t].buf = Span(req[t].from, req[t].n)
    /\ \A s \in DOMAIN req[t].buf : req[t].buf[s] \in may[s]

\* The cache and its callers in one property.
CacheSound == SdTypeOK /\ Coherent /\ CachedOnce /\ ReadsFresh

===============================================================================
