----------------------------- MODULE MCCpuCore -----------------------------
(***************************************************************************)
(* Small instances of the four parts of the interpreter, checked in one    *)
(* run: every behaviour is one of Mmu, CpuFlags, CpuString or CpuStack,    *)
(* chosen by `unit', and leaves the variables of the others alone.         *)
(***************************************************************************)
EXTENDS Mmu, CpuStack, TLC

CONSTANTS
    WORD, BYTE, NIB, FlagSteps,                         \* CpuFlags
    PageSize, IndexMod, Bases, IndexChoice, MaxCount     \* CpuString

VARIABLES
    unit,
    lazy, eager, defined, want, bcd, product, done,        \* CpuFlags
    ins, s, present, status, page, start          \* CpuString

Rich == (BYTE :> {0, 1, 7, 8, 15}) @@ (WORD :> {0, 1, 128, 255})
Corner == (BYTE :> {0, 8, 15}) @@ (WORD :> {128, 255})
Flags == INSTANCE CpuFlags WITH MaxSteps <- FlagSteps, steps <- done

\* Three linear pages in frames out of order; memory all different, all equal,
\* or equal in places.
Frames == <<1, 0, 2>>
Cells == 0 .. 3 * PageSize - 1
MemChoice == {[a \in Cells |-> a], [a \in Cells |-> 0], [a \in Cells |-> IF a \in {2, 4, 6} THEN 1 ELSE 0]}
PresentChoice == {{}, {1}}
String == INSTANCE CpuString WITH want <- page

\* A register; [ESP+ECX*2+1]; [BX+SI].
Addressing(a16, md, rm, b, i, d) ==
    [adsz16 |-> a16, mod |-> md, rm |-> rm, base |-> b, index |-> i, scale |-> 2, disp |-> d]
Operands == {Addressing(FALSE, 3, 3, 0, 0, 0), Addressing(FALSE, 1, 4, 4, 1, 1), Addressing(TRUE, 0, 0, 0, 0, 0)}

ASSUME Flags!Widths /\ StackSizes /\ NoSpOperand

PteOf(pr, wb, ub, f) == [p |-> pr, w |-> wb, u |-> ub, frame |-> f, d |-> FALSE]
MCPteChoice == {PteOf(FALSE, TRUE, TRUE, "f0"), PteOf(TRUE, FALSE, TRUE, "f0"),
                PteOf(TRUE, TRUE, TRUE, "f0"), PteOf(TRUE, TRUE, FALSE, "f1"),
                PteOf(TRUE, FALSE, FALSE, "f1")}

-----------------------------------------------------------------------------
flagVars == <<lazy, eager, defined, want, bcd, product, done>>
strVars == <<ins, s, present, status, page, start>>
coreVars == <<unit, mmuVars, flagVars, strVars, stkVars>>

\* The translation unit when another one is checked: one of its initial states.
MmuIdle == MmuInit /\ wp /\ pte = [sp \in Space |-> [p \in Page |-> PteOf(TRUE, TRUE, TRUE, "f0")]]

NoFlags == lazy = 0 /\ eager = 0 /\ defined = 0 /\ want = 0 /\ bcd = 0 /\ product = "none" /\ done = 0
NoString == ins = 0 /\ s = 0 /\ present = 0 /\ status = "none" /\ page = 0 /\ start = 0
NoStack == m = [mask |-> W] /\ faulted = 0 /\ steps = 0 /\ stk = <<>> /\ pop = <<0, 0>>

CoreInit ==
    \/ unit = "mmu" /\ MmuInit /\ NoFlags /\ NoString /\ NoStack
    \/ unit = "flags" /\ MmuIdle /\ Flags!FlagsInit /\ NoString /\ NoStack
    \/ unit = "string" /\ MmuIdle /\ NoFlags /\ String!StrInit /\ NoStack
    \/ unit = "stack" /\ MmuIdle /\ NoFlags /\ NoString /\ StackInit

StringStep == unit = "string" /\ String!StrNext /\ UNCHANGED <<unit, mmuVars, flagVars, stkVars>>

CoreNext ==
    \/ unit = "mmu" /\ MmuNext /\ UNCHANGED <<unit, flagVars, strVars, stkVars>>
    \/ unit = "flags" /\ Flags!FlagsNext /\ UNCHANGED <<unit, mmuVars, strVars, stkVars>>
    \/ StringStep
    \/ unit = "stack" /\ StackNext /\ UNCHANGED <<unit, mmuVars, flagVars, strVars>>

CoreSpec == CoreInit /\ [][CoreNext]_coreVars /\ WF_strVars(StringStep)

-----------------------------------------------------------------------------
(* The properties of the parts, each where its part runs.                  *)

\* Every result, every flag read from the lazy state, every branch after a
\* comparison and every decimal adjustment is what the architecture says
\* (get_CF .. get_OF, ADD .. IDIV, COND, DAA .. AAM), save the OF of a product
\* after an instruction that writes CF alone; a string instruction is always some
\* elements of its reference, and a compare stops at the deciding element (MOVS
\* .. OUTS, CMPS, SCAS), save for what a REP moves whose index wraps in a page.
InstructionsExact ==
    /\ unit = "flags" => Flags!FlagsExact /\ Flags!ResultExact /\ Flags!BranchMeaning
                            /\ Flags!DecimalExact
    /\ unit = "string" => String!OnTrajectory /\ String!StopsRight
\* Every string instruction ends, whatever pages are mapped on the way.
Terminates == unit = "string" ~> status = "done"
===============================================================================
