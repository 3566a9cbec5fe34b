----------------------------- MODULE Assembler -----------------------------
(***************************************************************************)
(* AssemblyCompiler: from one line of assembly, already split into mnemonic *)
(* and operands, to an instruction word.  Numbers are the ones the library  *)
(* read from the text; 0 (no bit set) is the answer to a refused line.      *)
(***************************************************************************)
EXTENDS Words

----------------------------------------------------------------------------
(* The encode functions.                                                    *)

encodeRType(funct7, rs2, rs1, funct3, rd, opcode) ==
  Place(funct7, 25) \cup Place(rs2, 20) \cup Place(rs1, 15)
    \cup Place(funct3, 12) \cup Place(rd, 7) \cup Place(opcode, 0)

\* Mutant: bit 11 of the offset is forgotten.
encodeBType_no11(imm, rs2, rs1, funct3, opcode) ==
  Move(imm, 12, 12, 31) \cup Move(imm, 5, 10, 25) \cup Move(imm, 1, 4, 8)
    \cup encodeRType(0, rs2, rs1, funct3, 0, opcode)
encodeBType(imm, rs2, rs1, funct3, opcode) ==
  Move(imm, 12, 12, 31) \cup Move(imm, 5, 10, 25)
    \cup Move(imm, 1, 4, 8) \cup Move(imm, 11, 11, 7)
    \cup Place(rs2, 20) \cup Place(rs1, 15)
    \cup Place(funct3, 12) \cup Place(opcode, 0)

encodeJType(imm, rd, opcode) ==
  Move(imm, 20, 20, 31) \cup Move(imm, 1, 10, 21) \cup Move(imm, 11, 11, 20)
    \cup Move(imm, 12, 19, 12) \cup Place(rd, 7) \cup Place(opcode, 0)

encodeUType(imm, rd, opcode) ==
  (imm \cap (12..31)) \cup Place(rd, 7) \cup Place(opcode, 0)

encodeIType(imm, rs1, funct3, rd, opcode) ==
  Move(imm, 0, 11, 20) \cup Place(rs1, 15)
    \cup Place(funct3, 12) \cup Place(rd, 7) \cup Place(opcode, 0)

encodeIShiftType(shamt, rs1, funct3, rd, funct7, opcode) ==
  encodeRType(funct7, shamt, rs1, funct3, rd, opcode)

encodeSType(imm, rs1, rs2, funct3, opcode) ==
  Move(imm, 5, 11, 25) \cup Move(imm, 0, 4, 7) \cup Place(rs2, 20)
    \cup Place(rs1, 15) \cup Place(funct3, 12) \cup Place(opcode, 0)

encodeSystemType(csr, rs1_zimm, funct3, rd) ==
  Place(csr, 20) \cup Place(rs1_zimm, 15)
    \cup Place(funct3, 12) \cup Place(rd, 7) \cup Place(115, 0)

----------------------------------------------------------------------------
(* The mnemonics of instructionMap, by the function that assembles them,    *)
(* with the codes that each assembleXXX passes on.                          *)

RMnemonics ==  \* <<funct3, funct7>>
  [add |-> <<0, 0>>, sub |-> <<0, 32>>, sll |-> <<1, 0>>, slt |-> <<2, 0>>,
   sltu |-> <<3, 0>>, xor |-> <<4, 0>>, srl |-> <<5, 0>>, sra |-> <<5, 32>>,
   or |-> <<6, 0>>, and |-> <<7, 0>>,
   mul |-> <<0, 1>>, mulh |-> <<1, 1>>, mulhsu |-> <<2, 1>>, mulhu |-> <<3, 1>>,
   div |-> <<4, 1>>, divu |-> <<5, 1>>, rem |-> <<6, 1>>, remu |-> <<7, 1>>]
AmoMnemonics ==  \* funct7 without its two low bits, aq and rl
  [sc |-> 3, amoswap |-> 1, amoadd |-> 0, amoxor |-> 4, amoand |-> 12,
   amoor |-> 8, amomin |-> 16, amomax |-> 20, amominu |-> 24, amomaxu |-> 28]
BMnemonics == [beq |-> 0, bne |-> 1, blt |-> 4, bge |-> 5, bltu |-> 6, bgeu |-> 7]
UMnemonics == [lui |-> 55, auipc |-> 23]  \* opcode
IMnemonics == [addi |-> 0, slti |-> 2, sltiu |-> 3, xori |-> 4, ori |-> 6, andi |-> 7]
ShiftMnemonics == [slli |-> <<1, 0>>, srli |-> <<5, 0>>, srai |-> <<5, 32>>]
LoadMnemonics ==  \* <<funct3, opcode>>
  [lb |-> <<0, 3>>, lh |-> <<1, 3>>, lw |-> <<2, 3>>, lbu |-> <<4, 3>>,
   lhu |-> <<5, 3>>, jalr |-> <<0, 103>>]
SMnemonics == [sb |-> 0, sh |-> 1, sw |-> 2]
CsrRegMnemonics == [csrrw |-> 1, csrrs |-> 2, csrrc |-> 3]
CsrImmMnemonics == [csrrwi |-> 5, csrrsi |-> 6, csrrci |-> 7]
ZeroOperandMnemonics ==  \* bits 20..31
  [ecall |-> 0, ebreak |-> 1, mret |-> 770, sret |-> 258]

Mnemonics ==
  DOMAIN RMnemonics \cup DOMAIN AmoMnemonics \cup DOMAIN BMnemonics
    \cup DOMAIN UMnemonics \cup DOMAIN IMnemonics \cup DOMAIN ShiftMnemonics
    \cup DOMAIN LoadMnemonics \cup DOMAIN SMnemonics \cup DOMAIN CsrRegMnemonics
    \cup DOMAIN CsrImmMnemonics \cup DOMAIN ZeroOperandMnemonics
    \cup {"lr", "jal", "sfence_vma"}

----------------------------------------------------------------------------
(* The assemble functions.                                                  *)

validateRegister(r) == r \in 0..31
validateRegisters(i) == /\ validateRegister(i.rd)
                        /\ validateRegister(i.rs1)
                        /\ validateRegister(i.rs2)

Refused == {}

assembleRType(i) ==
  LET f == RMnemonics[i.op]
  IN  IF validateRegisters(i)
      THEN encodeRType(f[2], i.rs2, i.rs1, f[1], i.rd, 51) ELSE Refused

assembleAMOType(i) ==
  IF validateRegisters(i)
  THEN encodeRType(AmoMnemonics[i.op] * 4, i.rs2, i.rs1, 2, i.rd, 47) ELSE Refused

assembleLRType(i) ==
  IF validateRegisters(i) THEN encodeRType(8, 0, i.rs1, 2, i.rd, 47) ELSE Refused

assembleBType(i) ==
  IF validateRegisters(i) /\ i.imm % 2 = 0 /\ -4096 <= i.imm /\ i.imm <= 4094
  THEN encodeBType(ToBits(i.imm), i.rs2, i.rs1, BMnemonics[i.op], 99) ELSE Refused

assembleJType(i) ==
  IF validateRegisters(i) /\ i.imm % 2 = 0 /\ -1048576 <= i.imm /\ i.imm <= 1048574
  THEN encodeJType(ToBits(i.imm), i.rd, 111) ELSE Refused

\* Too large a number is cut to 20 bits, not refused.
assembleUType(i) ==
  IF validateRegisters(i)
  THEN encodeUType(Move(ToBits(i.imm), 0, 19, 12), i.rd, UMnemonics[i.op])
  ELSE Refused

assembleIType(i) ==
  IF validateRegisters(i) /\ -2048 <= i.imm /\ i.imm <= 2047
  THEN encodeIType(ToBits(i.imm), i.rs1, IMnemonics[i.op], i.rd, 19) ELSE Refused

assembleIShiftType(i) ==
  LET f == ShiftMnemonics[i.op]
  IN  IF validateRegisters(i) /\ i.imm \in 0..31
      THEN encodeIShiftType(i.imm, i.rs1, f[1], i.rd, f[2], 19) ELSE Refused

assembleILoadType(i) ==
  LET f == LoadMnemonics[i.op]
  IN  IF validateRegisters(i) /\ -2048 <= i.imm /\ i.imm <= 2047
      THEN encodeIType(ToBits(i.imm), i.rs1, f[1], i.rd, f[2]) ELSE Refused

assembleSType(i) ==
  IF validateRegisters(i) /\ -2048 <= i.imm /\ i.imm <= 2047
  THEN encodeSType(ToBits(i.imm), i.rs1, i.rs2, SMnemonics[i.op], 35) ELSE Refused

resolves(csr) == 0 <= csr /\ csr <= 4095

assembleCsrReg(i) ==
  IF validateRegisters(i) /\ resolves(i.imm)
  THEN encodeSystemType(i.imm, i.rs1, CsrRegMnemonics[i.op], i.rd) ELSE Refused

assembleCsrImm(i) ==
  IF validateRegister(i.rd) /\ resolves(i.imm) /\ i.rs1 \in 0..31
  THEN encodeSystemType(i.imm, i.rs1, CsrImmMnemonics[i.op], i.rd) ELSE Refused

assembleZeroOperandSystemInstr(i) ==
  Place(115, 0) \cup Place(ZeroOperandMnemonics[i.op], 20)

assembleSfenceVma(i) ==
  IF validateRegisters(i)
  THEN encodeRType(9, i.rs2, i.rs1, 0, 0, 115) ELSE Refused

(* getInstruction: the assemble function that instructionMap names.         *)
Assemble(i) ==
  CASE i.op \in DOMAIN RMnemonics -> assembleRType(i)
    [] i.op \in DOMAIN AmoMnemonics -> assembleAMOType(i)
    [] i.op = "lr" -> assembleLRType(i)
    [] i.op \in DOMAIN BMnemonics -> assembleBType(i)
    [] i.op = "jal" -> assembleJType(i)
    [] i.op \in DOMAIN UMnemonics -> assembleUType(i)
    [] i.op \in DOMAIN IMnemonics -> assembleIType(i)
    [] i.op \in DOMAIN ShiftMnemonics -> assembleIShiftType(i)
    [] i.op \in DOMAIN LoadMnemonics -> assembleILoadType(i)
    [] i.op \in DOMAIN SMnemonics -> assembleSType(i)
    [] i.op \in DOMAIN CsrRegMnemonics -> assembleCsrReg(i)
    [] i.op \in DOMAIN CsrImmMnemonics -> assembleCsrImm(i)
    [] i.op \in DOMAIN ZeroOperandMnemonics -> assembleZeroOperandSystemInstr(i)
    [] i.op = "sfence_vma" -> assembleSfenceVma(i)
    [] OTHER -> Refused
=============================================================================
