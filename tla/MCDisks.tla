------------------------------- MODULE MCDisks --------------------------------
(***************************************************************************)
(* Small instances of the path of a disk access, checked in one run: a     *)
(* behaviour is one of IdeChannel (one disk in slot 0, contents ignored,   *)
(* any guest), SdCache (two callers that share the only set of the cache   *)
(* and its mutex, but no sector) or FlashFile (two erase blocks of two     *)
(* sectors, a disk behind a header of one), chosen by `unit'; the parts    *)
(* that do not run stay idle.                                              *)
(***************************************************************************)
EXTENDS IdeChannel, FlashFile, SdCache, TLC

CONSTANTS any, t1, t2, v1, v2

OneDrive == {0}
Cells == {any}
Blank == [d \in OneDrive |-> [l \in 0 .. Sectors - 1 |-> [o \in Offset |-> any]]]
TwoValues == {v1, v2}
Alike == Permutations(TwoValues)
Callers == {t1, t2}

\* The last of three sectors is the second caller's, the others the first one's.
CardSectors == 0 .. 2
Apart == [t \in Callers |-> {s \in CardSectors : (s < 2) = (t = t1)}]

\* The first sector of the disk, one behind it, and one so far behind it that as an off_t it
\* is the header, where sector -1 is too.
AskedFor == {0, 4, 9}

VARIABLE unit

ASSUME FlashSizes

\* An idle card holds the same in each sector, an idle partition is erased.
NoSd == SdInit /\ \E v \in TwoValues : card = [s \in CardSector |-> v]
NoFlash == flash = [s \in Sector |-> Lost] /\ old = flash /\ pos = Size /\ op = NoOp

DisksInit == /\ Init
             /\ \/ unit = "ide" /\ NoSd /\ NoFlash
                \/ unit = "sd" /\ SdInit /\ NoFlash
                \/ unit = "flash" /\ NoSd /\ FlashInit

DisksNext == \/ unit = "ide" /\ Next /\ UNCHANGED <<unit, sdVars, flashVars>>
             \/ unit = "sd" /\ SdNext /\ UNCHANGED <<unit, vars, flashVars>>
             \/ unit = "flash" /\ FlashNext /\ UNCHANGED <<unit, vars, sdVars>>

DisksSpec == DisksInit /\ [][DisksNext]_<<unit, vars, sdVars, flashVars>>
===============================================================================
