------------------------------ MODULE Decoder ------------------------------
(***************************************************************************)
(* Instruction::execute and the execute functions it calls, up to the       *)
(* handler they choose and the arguments they give it: which instruction a  *)
(* 32-bit word is taken for.  What the handlers do is not modelled here.    *)
(***************************************************************************)
EXTENDS Words

Unrecognised == Instr("none", 0, 0, 0, 0)

(* The case labels of each dispatcher: getInstructionDescription.           *)
RDescriptions ==  \* <<funct3, funct7>>
  [add |-> <<0, 0>>, sub |-> <<0, 32>>, sll |-> <<1, 0>>, slt |-> <<2, 0>>,
   sltu |-> <<3, 0>>, xor |-> <<4, 0>>, srl |-> <<5, 0>>, sra |-> <<5, 32>>,
   or |-> <<6, 0>>, and |-> <<7, 0>>,
   mul |-> <<0, 1>>, mulh |-> <<1, 1>>, mulhsu |-> <<2, 1>>, mulhu |-> <<3, 1>>,
   div |-> <<4, 1>>, divu |-> <<5, 1>>, rem |-> <<6, 1>>, remu |-> <<7, 1>>]
AtomicDescriptions ==  \* <<funct3, funct7 >> 2>>
  [lr |-> <<2, 2>>, sc |-> <<2, 3>>, amoswap |-> <<2, 1>>, amoadd |-> <<2, 0>>,
   amoxor |-> <<2, 4>>, amoand |-> <<2, 12>>, amoor |-> <<2, 8>>,
   amomin |-> <<2, 16>>, amomax |-> <<2, 20>>,
   amominu |-> <<2, 24>>, amomaxu |-> <<2, 28>>]
BDescriptions == [beq |-> 0, bne |-> 1, blt |-> 4, bge |-> 5, bltu |-> 6, bgeu |-> 7]
ArithmeticDescriptions ==
  [addi |-> 0, slti |-> 2, sltiu |-> 3, xori |-> 4, ori |-> 6, andi |-> 7]
ShiftDescriptions ==  \* <<funct3, bit 30>>
  [slli |-> <<1, 0>>, srli |-> <<5, 0>>, srai |-> <<5, 1>>]
LoadDescriptions == [lb |-> 0, lh |-> 1, lw |-> 2, lbu |-> 4, lhu |-> 5]
FenceDescriptions == [fence |-> 0, fence_i |-> 1]
SDescriptions == [sb |-> 0, sh |-> 1, sw |-> 2]
SystemDescriptions ==  \* funct12, where funct3 = 0
  [ecall |-> 0, ebreak |-> 1, mret |-> 770, sret |-> 258, wfi |-> 261]
CsrDescriptions ==
  [csrrw |-> 1, csrrs |-> 2, csrrc |-> 3, csrrwi |-> 5, csrrsi |-> 6, csrrci |-> 7]

Labelled(descriptions, label) ==
  {op \in DOMAIN descriptions : descriptions[op] = label}

(* The immediates, as words whose sign has been extended.                   *)
SignFrom(imm, n) == IF n \in imm THEN imm \cup (n..31) ELSE imm

getImmI(w) == SignFrom(Move(w, 20, 31, 0), 11)
getImmS(w) == SignFrom(Move(w, 25, 31, 5) \cup Move(w, 7, 11, 0), 11)
getImmB(w) == SignFrom(Move(w, 31, 31, 12) \cup Move(w, 7, 7, 11)
                         \cup Move(w, 25, 30, 5) \cup Move(w, 8, 11, 1), 12)
getImmJ(w) == SignFrom(Move(w, 31, 31, 20) \cup Move(w, 12, 19, 12)
                         \cup Move(w, 20, 20, 11) \cup Move(w, 21, 30, 1), 20)

----------------------------------------------------------------------------
(* Each dispatcher gives the set of the instructions a word is taken for:   *)
(* one, or none where it returns false.                                     *)

rd(w) == Field(w, 7, 11)
\* Mutant: a field one bit too wide.
rs1_wide(w) == Field(w, 15, 20)
rs1(w) == Field(w, 15, 19)
rs2(w) == Field(w, 20, 24)
funct3(w) == Field(w, 12, 14)
funct7(w) == Field(w, 25, 31)

RType(w) == {Instr(op, rd(w), rs1(w), rs2(w), 0) :
               op \in Labelled(RDescriptions, <<funct3(w), funct7(w)>>)}

\* LR has no use for rs2.
Atomic(w) == {Instr(op, rd(w), rs1(w), IF op = "lr" THEN 0 ELSE rs2(w), 0) :
                op \in Labelled(AtomicDescriptions,
                                <<funct3(w), funct7(w) \div 4>>)}

BType(w) == {Instr(op, 0, rs1(w), rs2(w), ToInt(getImmB(w))) :
               op \in Labelled(BDescriptions, funct3(w))}

\* The shifts, tried after the others, look at bit 30 and at five bits of
\* the immediate.
Arithmetic(w) ==
  {Instr(op, rd(w), rs1(w), 0, ToInt(getImmI(w))) :
     op \in Labelled(ArithmeticDescriptions, funct3(w))}
  \cup
  {Instr(op, rd(w), rs1(w), 0, ToNat(Move(getImmI(w), 0, 4, 0))) :
     op \in Labelled(ShiftDescriptions, <<funct3(w), Field(w, 30, 30)>>)}

Load(w) == {Instr(op, rd(w), rs1(w), 0, ToInt(getImmI(w))) :
              op \in Labelled(LoadDescriptions, funct3(w))}

Jalr(w) == {Instr("jalr", rd(w), rs1(w), 0, ToInt(getImmI(w)))}

Fence(w) == {Instr(op, 0, 0, 0, 0) : op \in Labelled(FenceDescriptions, funct3(w))}

JType(w) == {Instr("jal", rd(w), 0, 0, ToInt(getImmJ(w)))}

SType(w) == {Instr(op, 0, rs1(w), rs2(w), ToInt(getImmS(w))) :
               op \in Labelled(SDescriptions, funct3(w))}

\* SFENCE.VMA flushes all there is to flush, whatever its operands.
System(w) ==
  IF funct3(w) = 0
  THEN {Instr(op, 0, 0, 0, 0) :
          op \in IF funct7(w) = 9 THEN {"sfence_vma"}
                 ELSE Labelled(SystemDescriptions, Field(w, 20, 31))}
  ELSE {Instr(op, rd(w), rs1(w), 0, ToNat(Move(getImmI(w), 0, 11, 0))) :
          op \in Labelled(CsrDescriptions, funct3(w))}

UType(w, op) == {Instr(op, rd(w), 0, 0, Field(w, 12, 31))}

Decode(w) ==
  LET opcode == Field(w, 0, 6)
      chosen == CASE opcode = 51 -> RType(w)
                  [] opcode = 47 -> Atomic(w)
                  [] opcode = 99 -> BType(w)
                  [] opcode = 19 -> Arithmetic(w)
                  [] opcode = 3 -> Load(w)
                  [] opcode = 103 -> Jalr(w)
                  [] opcode = 15 -> Fence(w)
                  [] opcode = 111 -> JType(w)
                  [] opcode = 35 -> SType(w)
                  [] opcode = 115 -> System(w)
                  [] opcode = 55 -> UType(w, "lui")
                  [] opcode = 23 -> UType(w, "auipc")
                  [] OTHER -> {}
  IN  IF chosen = {} THEN Unrecognised ELSE CHOOSE i \in chosen : TRUE
=============================================================================
