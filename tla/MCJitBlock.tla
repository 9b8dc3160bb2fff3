----------------------------- MODULE MCJitBlock -----------------------------
(***************************************************************************)
(* The two halves of jit_translate in one run: a behaviour decodes one     *)
(* instruction (JitDecode), or takes decoded ones through flag             *)
(* elimination and emission into a block that is run (JitBlock).           *)
(* Guest code over EAX (a3), ESP and EDI (a10, clobbered by every call).   *)
(***************************************************************************)
EXTENDS JitBlock

CONSTANTS Regs, Scales, PageLeft
VARIABLES insn, left, got
Decoder == INSTANCE JitDecode

At(t, d, s, base, disp) ==
    [Action(t, d, s, 0) EXCEPT !.mem = [base |-> base, index |-> -1, scale |-> 0, disp |-> disp]]
Indexed(a) == [a EXCEPT !.mem.index = 7 - a.mem.base, !.mem.scale = 1]
WithOp(a, f) == [a EXCEPT !.op = f]

MCInsns ==
    {Action(t, d, 0, 0) : t \in {"NOT_R", "NEG_R"}, d \in {7}}
    \cup {Action("NOP", 0, 0, 0), Action("MOV_RR", 7, 0, 0), Action("MOV_RI", 7, 0, 9),
          Action("INC_R", 0, 0, 0), Action("CWDE", 0, 0, 0), Action("CDQ", 0, 0, 0),
          Action("XCHG_EAX_R", 0, 7, 0), Action("BSWAP_R", 0, 0, 0), Action("PUSH_IMM8", 0, 0, 14)}
    \cup {WithOp(Action("ALU_RR", 0, 7, 0), "ADD"), WithOp(Action("ALU_RI", 7, 0, 9), "SUB"),
          WithOp(Action("ALU_RI", 0, 0, 6), "OR")}
    \cup {WithOp(Action("SHx_RI", 0, 1, 0), "SHL"), WithOp(Action("SHx_RI", 7, 3, 0), "SHR"),
          WithOp(Action("SHx_RI", 7, 2, 0), "SAR"), WithOp(Action("SHx_RI", 7, 0, 0), "SHL")}
    \cup {Action("CMP_RR", 0, 7, 0), Action("CMP_RI", 7, 0, 9), Action("TEST_RR", 0, 7, 0),
          At("CMP_RM32", 7, 0, 0, 0), Indexed(At("CMP_MR32", 0, 7, 0, 3)), At("TEST_MR32", 0, 7, 0, 0)}
    \cup {Indexed(At("MOV_RM32", 0, 0, 7, 1)),
          At("MOV_RM32", 7, 0, 0, 0), At("MOV_MR32", 0, 7, -1, 5),
          Indexed(At("MOV_RM8", 4, 0, 7, 2)), At("MOV_MR8", 0, 4, 7, 2),
          At("MOV_RM16", 7, 0, 0, 0), At("MOV_MR16", 0, 7, 7, 0)}
    \cup {Action("JMP", 0, 0, 0)}
    \cup {[Action("JCC", 0, 0, 0) EXCEPT !.cc = c] : c \in {0} \cup 2 .. 9 \cup 12 .. 15}

Some(a, c, d, b) == [r \in GPR |-> CASE r = 0 -> a [] r = 1 -> c [] r = 2 -> d [] r = 3 -> b
                                     [] r = 4 -> 1 [] r = 7 -> b [] OTHER -> r]
MCMachines ==
    {[g |-> [Some(a, 2, 3, 4) EXCEPT ![7] = d],
      m |-> [x \in Word |-> IF x \in {1, 2, 5, 8, 11, 14} THEN 1 ELSE 0],
      f |-> Flags(1, 0, 1, 0)] : a \in {9}, d \in {9, 12}}

-----------------------------------------------------------------------------
bothVars == <<vars, insn, left, got>>
NoBlock == inline = FALSE /\ phase = "none" /\ acts = <<>> /\ n = 0 /\ cs = NoCmp /\ code = <<>>
           /\ entered = <<>> /\ out = <<>>
NoDecode == insn = <<>> /\ left = 0 /\ got = <<>>

BothInit == (NoBlock /\ Decoder!DecodeInit) \/ (Init /\ NoDecode)
BothNext == \/ phase = "none" /\ Decoder!DecodeNext /\ UNCHANGED vars
            \/ Next /\ UNCHANGED <<insn, left, got>>
BothSpec == BothInit /\ [][BothNext]_bothVars

\* What decode_x86_insn accepts is what the interpreter would decode, and lies
\* inside its page; what jit_translate makes of it computes what the
\* interpreter computes.
TranslationExact ==
    /\ BlockExact
    /\ phase = "none" => Decoder!DecodeExact /\ Decoder!InsidePage
=============================================================================
