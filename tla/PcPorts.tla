------------------------------- MODULE PcPorts -------------------------------
(***************************************************************************)
(* The two ports at which the guest speaks to the board itself (pc.c,      *)
(* pc_io_write): the BIOS debug port 0x402, where the board waits for the  *)
(* line "Booting from ...", and port 0x8900, where the word "Shutdown"     *)
(* ends the emulation.  Characters are positions of the text, all others   *)
(* are Other, and the text's terminator is Nul.                            *)
(***************************************************************************)
EXTENDS Integers, Sequences, SequencesExt

CONSTANTS
    Message,    \* the line, as a sequence of letters: the first occurs once
    Word,       \* the letters of Shutdown, all different
    MaxLetters  \* characters in a behaviour

Nul == "nul"
Other == "other"

PortTexts ==
    /\ Message \in Seq(Range(Message)) /\ Word \in Seq(Range(Word))
    /\ Len(Message) > 0 /\ Len(Word) > 0
    /\ \A i \in 2..Len(Message) : Message[i] # Message[1]
    /\ \A i, j \in 1..Len(Word) : i # j => Word[i] # Word[j]

VARIABLES
    match,      \* pc->debugcon_boot_match
    sighted,    \* pc->boot_sector_seen
    state,      \* pc->shutdown_state
    off,        \* pc_main left its loop
    debug, power    \* what the guest wrote at each port

boardVars == <<match, sighted, state, off, debug, power>>

Spoken == Len(debug) + Len(power)

\* What a comparison with boot_msg[match] finds: the text, its terminator, and
\* behind it whatever the linker put there.
Finds(m, c) == IF m < Len(Message) THEN {c = Message[m + 1]}
               ELSE IF m = Len(Message) THEN {c = Nul} ELSE BOOLEAN
\* Whether the position after m holds the terminator.
Ends(m) == IF m < Len(Message) THEN {m + 1 = Len(Message)} ELSE BOOLEAN

\* Mutant: after a mismatch the first letter is not looked at again.
Debug_Forget(c) ==
    /\ ~off /\ Spoken < MaxLetters
    /\ \E hit \in Finds(match, c), last \in Ends(match) :
         IF hit THEN match' = match + 1 /\ sighted' = (sighted \/ last)
         ELSE match' = 0 /\ UNCHANGED sighted
    /\ debug' = Append(debug, c)
    /\ UNCHANGED <<state, off, power>>

\* Port 0x402.
Debug(c) ==
    /\ ~off /\ Spoken < MaxLetters
    /\ \E hit \in Finds(match, c), last \in Ends(match) :
         IF hit THEN match' = match + 1 /\ sighted' = (sighted \/ last)
         ELSE match' = (IF c = Message[1] THEN 1 ELSE 0) /\ UNCHANGED sighted
    /\ debug' = Append(debug, c)
    /\ UNCHANGED <<state, off, power>>

\* Mutant: a letter in the wrong place starts over.
Advance_Strict(s, c) == IF s < Len(Word) /\ c = Word[s + 1] THEN s + 1 ELSE 0

\* Port 0x8900: a letter of the word counts when it is the next one and is
\* ignored when it is not; any other character starts over.
Advance(s, c) == IF c \in Range(Word) THEN IF s < Len(Word) /\ c = Word[s + 1] THEN s + 1 ELSE s ELSE 0

Power(c) ==
    /\ ~off /\ Spoken < MaxLetters
    /\ state' = Advance(state, c) /\ power' = Append(power, c)
    /\ UNCHANGED <<match, sighted, off, debug>>

\* The loop of pc_main looks at the state between two pc_steps.
Leave == ~off /\ state = Len(Word) /\ off' = TRUE /\ UNCHANGED <<match, sighted, state, debug, power>>

BoardInit == match = 0 /\ sighted = FALSE /\ state = 0 /\ off = FALSE /\ debug = <<>> /\ power = <<>>

BoardNext == \/ \E c \in Range(Message) \union {Nul, Other} : Debug(c)
             \/ \E c \in Range(Word) \union {Other} : Power(c)
             \/ Leave

BoardSpec == BoardInit /\ [][BoardNext]_boardVars

-----------------------------------------------------------------------------

\* The boot sector has been seen exactly when the line stands in what the guest
\* wrote, whatever came before it, prefixes of the line included.  (Once it has,
\* the matcher may read behind its text.)
LineSeen == sighted <=> \E i \in 0..Len(debug) - Len(Message) :
                        SubSeq(debug, i + 1, i + Len(Message)) = Message

\* The word switches off, whatever letters came before it, and nothing does that
\* does not hold its letters in order since the last foreign character.
WordEnds ==
    /\ IsSuffix(Word, power) => state = Len(Word)
    /\ state = Len(Word) =>
         \E f \in [1..Len(Word) -> 1..Len(power)] :
            /\ \A i \in 1..Len(Word) : power[f[i]] = Word[i] /\ (i > 1 => f[i - 1] < f[i])
            /\ \A k \in f[1]..Len(power) : power[k] \in Range(Word)

\* What the board takes from the two texts is what the guest said.
BoardSound == LineSeen /\ WordEnds
=============================================================================
