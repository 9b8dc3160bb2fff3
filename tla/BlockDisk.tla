------------------------------- MODULE BlockDisk -------------------------------
(***************************************************************************)
(* What a guest expects of its disks: one request at a time, which reads a *)
(* run of sectors or stores one.  A write stores its sectors front to back *)
(* and each one whole; a request that fails has stored a prefix.           *)
(***************************************************************************)
EXTENDS Integers

CONSTANTS
  Drive,        \* the drives
  Sectors,      \* sectors of a drive
  SectorBytes,  \* bytes of a sector
  Cell,         \* values of a byte
  Image         \* the media at power on

VARIABLES
  media,   \* contents of the drives
  req,     \* the request in progress, or NoRequest
  data,    \* the bytes a write wants stored
  moved,   \* sectors of a write stored so far
  result,  \* how the last request ended
  got      \* the bytes the last successful read returned

dvars == <<media, req, data, moved, result, got>>

NoRequest == [op |-> "none", d |-> 0, l |-> 0, n |-> 0]
Bytes(n) == 0 .. n * SectorBytes - 1

DiskInit ==
  /\ media = Image /\ req = NoRequest /\ moved = 0
  /\ data = [i \in Bytes(0) |-> 0] /\ got = data
  /\ result = "none"

Begin ==
  /\ req = NoRequest
  /\ \E op \in {"read", "write"}, d \in Drive, l \in 0 .. Sectors - 1, n \in 1 .. Sectors :
       /\ l + n <= Sectors
       /\ req' = [op |-> op, d |-> d, l |-> l, n |-> n]
       /\ data' \in [Bytes(IF op = "write" THEN n ELSE 0) -> Cell]
  /\ moved' = 0
  /\ result' = "none"
  /\ got' = [i \in Bytes(0) |-> 0]
  /\ UNCHANGED media

\* The next k sectors of a write reach the medium.
StoreBlock(k) ==
  /\ req.op = "write" /\ moved + k <= req.n
  /\ moved' = moved + k
  /\ media' = [media EXCEPT ![req.d] =
       [l \in DOMAIN @ |->
          IF l \in req.l + moved .. req.l + moved + k - 1
            THEN [o \in 0 .. SectorBytes - 1 |-> data[(l - req.l) * SectorBytes + o]]
            ELSE @[l]]]
  /\ UNCHANGED <<req, data, result, got>>

\* A request succeeds: a read has the bytes of the medium, a write is stored.
Finish ==
  /\ req # NoRequest
  /\ req.op = "write" => moved = req.n
  /\ req' = NoRequest /\ moved' = 0 /\ result' = "ok" /\ data' = [i \in Bytes(0) |-> 0]
  /\ got' = [i \in Bytes(IF req.op = "read" THEN req.n ELSE 0) |->
               media[req.d][req.l + (i \div SectorBytes)][i % SectorBytes]]
  /\ UNCHANGED media

Fail ==
  /\ req # NoRequest
  /\ req' = NoRequest /\ moved' = 0 /\ result' = "error" /\ data' = [i \in Bytes(0) |-> 0]
  /\ UNCHANGED <<media, got>>

DiskNext == Begin \/ (\E k \in 1 .. Sectors : StoreBlock(k)) \/ Finish \/ Fail

DiskSpec == DiskInit /\ [][DiskNext]_dvars

===============================================================================
