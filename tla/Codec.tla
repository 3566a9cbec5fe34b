------------------------------- MODULE Codec -------------------------------
(***************************************************************************)
(* The two ways an instruction comes to Instruction::execute: a line of the *)
(* simulator's editor through the assembler (executeAsmCommand), and a      *)
(* halfword fetched from memory through the decompressor                    *)
(* (executeFromBinFile).  One instruction is taken through at a time.       *)
(***************************************************************************)
EXTENDS Assembler, Decompressor, Decoder

CONSTANTS
  Register,   \* numbers that may be written for a register, x32 and so on included
  Immediate,  \* numbers that may be written for an immediate or a CSR
  Halfword    \* the halfwords that may be fetched, as numbers

ASSUME OperandAssumption == Register \subseteq Int /\ Immediate \subseteq Int
ASSUME HalfwordAssumption == Halfword \subseteq 0..Pow2[16] - 1

VARIABLES
  stage,    \* "idle", "text" or "halfword" when there is a word to execute,
            \* "done"
  line,     \* the line being run, Unrecognised if it is a halfword
  half,     \* the halfword being run
  word,     \* the instruction word made of it
  executed  \* the instruction it was taken for

vars == <<stage, line, half, word, executed>>

(* The lines that have the operands their mnemonic asks for.                *)
RegisterForms == DOMAIN RMnemonics \cup DOMAIN AmoMnemonics
Lines ==
  UNION {
    {Instr(op, d, a, b, 0) : op \in RegisterForms, d \in Register,
                             a \in Register, b \in Register},
    {Instr("lr", d, a, 0, 0) : d \in Register, a \in Register},
    {Instr(op, 0, a, b, n) : op \in DOMAIN BMnemonics \cup DOMAIN SMnemonics,
                             a \in Register, b \in Register, n \in Immediate},
    {Instr(op, d, 0, 0, n) : op \in {"jal"} \cup DOMAIN UMnemonics,
                             d \in Register, n \in Immediate},
    {Instr(op, d, a, 0, n) :
       op \in DOMAIN IMnemonics \cup DOMAIN ShiftMnemonics \cup DOMAIN LoadMnemonics
                \cup DOMAIN CsrRegMnemonics \cup DOMAIN CsrImmMnemonics,
       d \in Register, a \in Register, n \in Immediate},
    {Instr(op, 0, 0, 0, 0) : op \in DOMAIN ZeroOperandMnemonics},
    {Instr("sfence_vma", 0, a, b, 0) : a \in Register, b \in Register}}

Halves == {ToBits(n) : n \in Halfword}
----------------------------------------------------------------------------
Init ==
  /\ stage = "idle"
  /\ line = Unrecognised
  /\ half = {}
  /\ word = {}
  /\ executed = Unrecognised

(* getBinaryInstructionFromAsmCommand.                                      *)
Compile ==
  /\ stage = "idle"
  /\ stage' = "text"
  /\ \E i \in Lines :
       /\ line' = i
       /\ word' = Assemble(i)
  /\ UNCHANGED <<half, executed>>

(* The fetch of a halfword whose two low bits are not 11.                   *)
Fetch ==
  /\ stage = "idle"
  /\ stage' = "halfword"
  /\ \E h \in Halves :
       /\ ~ {0, 1} \subseteq h
       /\ half' = h
       /\ word' = decompress(h)
  /\ UNCHANGED <<line, executed>>

(* Instruction::execute.  A refused line is reported instead, an illegal    *)
(* halfword is not recognised and traps.                                    *)
Execute ==
  /\ stage = "halfword" \/ (stage = "text" /\ word # Refused)
  /\ stage' = "done"
  /\ executed' = Decode(word)
  /\ UNCHANGED <<line, half, word>>

(* The next instruction, after the end of this one or its refusal.          *)
Proceed ==
  /\ stage = "done" \/ (stage = "text" /\ word = Refused)
  /\ stage' = "idle"
  /\ line' = Unrecognised
  /\ half' = {}
  /\ word' = {}
  /\ executed' = Unrecognised

Next ==
  \/ Compile
  \/ Fetch
  \/ Execute
  \/ Proceed

Spec == Init /\ [][Next]_vars
----------------------------------------------------------------------------
FromText == stage = "done" /\ line # Unrecognised
FromHalfword == stage = "done" /\ line = Unrecognised

(* Instruction words have 32 bits.                                          *)
TypeOK ==
  /\ stage \in {"idle", "text", "halfword", "done"}
  /\ half \subseteq 0..15
  /\ word \subseteq Bit
  /\ executed.op \in Mnemonics \cup {"none", "fence", "fence_i", "wfi"}
  /\ {executed.rd, executed.rs1, executed.rs2} \subseteq 0..31

(* What the user wrote is what is executed: the mnemonic, the registers and *)
(* the immediate that the dispatchers read out of a word are those the      *)
(* assembler was given.  lui and auipc keep 20 bits of theirs, and          *)
(* sfence.vma's registers select nothing.                                   *)
Meaning(i) ==
  CASE i.op \in DOMAIN UMnemonics -> [i EXCEPT !.imm = @ % Pow2[20]]
    [] i.op = "sfence_vma" -> [i EXCEPT !.rs1 = 0, !.rs2 = 0]
    [] OTHER -> i
WrittenIsExecuted == FromText => executed = Meaning(line)

(* The decompressor's own builders agree with the assembler and with the    *)
(* dispatchers: a halfword that is not illegal is executed, and as the      *)
(* instruction whose assembly is its expansion, bit for bit.  A shift by 32 *)
(* or more, which RV32 has no assembly for, keeps its sixth bit and loses   *)
(* it when executed.                                                        *)
LongShift == executed.op \in DOMAIN ShiftMnemonics /\ 12 \in half
ExpansionIsAssembly ==
  FromHalfword /\ word # Illegal =>
    /\ executed # Unrecognised
    /\ LongShift \/ Assemble(executed) = word

(* No two legal halfwords that differ in one bit are expanded alike: every  *)
(* bit of an encoding reaches the word, none is dropped by a field too      *)
(* short or overwritten by another.  The exceptions are the register forms  *)
(* of quadrant 1 with bit 12 set, reserved in RV32, taken for those without.*)
Reserved(h) == Field(h, 0, 1) = 1 /\ Field(h, 13, 15) = 4 /\ Field(h, 10, 11) = 3
Flip(h, k) == IF k \in h THEN h \ {k} ELSE h \cup {k}
NoBitIsIgnored ==
  FromHalfword /\ word # Illegal =>
    \A k \in 0..15 :
      decompress(Flip(half, k)) = word => k = 12 /\ Reserved(half)

(* A compressed jump goes where the encoder of the tests meant it to go:    *)
(* that encoder, given the offset executed, gives the halfword back.        *)
buildC_J_fromImm(imm) ==
  LET u == ToBits(imm)
  IN  Move(u, 11, 11, 12) \cup Move(u, 4, 4, 11) \cup Move(u, 10, 10, 8)
        \cup Move(u, 8, 9, 9) \cup Move(u, 6, 6, 7) \cup Move(u, 7, 7, 6)
        \cup Move(u, 5, 5, 2) \cup Move(u, 1, 3, 3) \cup {0, 13, 15}
JumpsGoWhereMeant ==
  FromHalfword /\ executed.op = "jal" =>
    half = buildC_J_fromImm(executed.imm)
               \ IF executed.rd = 1 THEN {15} ELSE {}
=============================================================================
