---------------------------- MODULE Decompressor ----------------------------
(***************************************************************************)
(* CType: decompress, from a 16-bit instruction to the 32-bit word that is  *)
(* executed in its place.  0 (no bit set) stands for an illegal or an       *)
(* unimplemented encoding.                                                  *)
(***************************************************************************)
EXTENDS Words

----------------------------------------------------------------------------
(* The build functions.  Immediates are words, the other fields numbers.    *)

signExtend(val, bits) == IF bits - 1 \in val THEN val \cup (bits..31) ELSE val

buildR(opcode, funct3, funct7, rd, rs1, rs2) ==
  Place(funct7, 25) \cup Place(rs2, 20) \cup Place(rs1, 15)
    \cup Place(funct3, 12) \cup Place(rd, 7) \cup Place(opcode, 0)

buildI(opcode, funct3, rd, rs1, imm) ==
  Move(imm, 0, 11, 20) \cup buildR(opcode, funct3, 0, rd, rs1, 0)

buildS(opcode, funct3, rs1, rs2, imm) ==
  Move(imm, 5, 11, 25) \cup Move(imm, 0, 4, 7)
    \cup buildR(opcode, funct3, 0, 0, rs1, rs2)

buildB(opcode, funct3, rs1, rs2, imm) ==
  Move(imm, 12, 12, 31) \cup Move(imm, 5, 10, 25) \cup Move(imm, 1, 4, 8)
    \cup Move(imm, 11, 11, 7) \cup buildR(opcode, funct3, 0, 0, rs1, rs2)

buildJ(opcode, rd, imm) ==
  Move(imm, 20, 20, 31) \cup Move(imm, 1, 10, 21) \cup Move(imm, 11, 11, 20)
    \cup Move(imm, 12, 19, 12) \cup Place(rd, 7) \cup Place(opcode, 0)

buildU(opcode, rd, imm) ==
  (imm \cap (12..31)) \cup Place(rd, 7) \cup Place(opcode, 0)

----------------------------------------------------------------------------
(* The operands of a compressed instruction.                                *)

getRvcRegister(h, startBit) == 8 + Field(h, startBit, startBit + 2)
Register5(h) == Field(h, 7, 11)

Imm4spn(h) ==
  Move(h, 7, 10, 6) \cup Move(h, 11, 12, 4) \cup Move(h, 5, 5, 3) \cup Move(h, 6, 6, 2)
ImmLwSw(h) == Move(h, 5, 5, 6) \cup Move(h, 10, 12, 3) \cup Move(h, 6, 6, 2)
Imm6(h) == Move(h, 12, 12, 5) \cup Move(h, 2, 6, 0)
\* Mutant: the mark of SRAI one bit too high.
SraiImm_bit11(h) == Imm6(h) \cup {11}
\* SRAI is told from SRLI by bit 10 of the immediate.
SraiImm(h) == Imm6(h) \cup {10}
Imm16sp(h) ==
  signExtend(Move(h, 12, 12, 9) \cup Move(h, 3, 4, 7) \cup Move(h, 5, 5, 6)
               \cup Move(h, 2, 2, 5) \cup Move(h, 6, 6, 4), 10)
\* Mutant: bits 6 and 7 of the offset change places.
ImmJ_swapped(h) ==
  signExtend(Move(h, 12, 12, 11) \cup Move(h, 8, 8, 10) \cup Move(h, 9, 10, 8)
               \cup Move(h, 6, 7, 6) \cup Move(h, 2, 2, 5) \cup Move(h, 11, 11, 4)
               \cup Move(h, 3, 5, 1), 12)
ImmJ(h) ==
  signExtend(Move(h, 12, 12, 11) \cup Move(h, 8, 8, 10) \cup Move(h, 9, 10, 8)
               \cup Move(h, 6, 6, 7) \cup Move(h, 7, 7, 6) \cup Move(h, 2, 2, 5)
               \cup Move(h, 11, 11, 4) \cup Move(h, 3, 5, 1), 12)
ImmB(h) ==
  signExtend(Move(h, 12, 12, 8) \cup Move(h, 5, 6, 6) \cup Move(h, 2, 2, 5)
               \cup Move(h, 10, 11, 3) \cup Move(h, 3, 4, 1), 9)
\* Mutant: a field one bit too short.
ImmLwsp_short(h) == Move(h, 2, 3, 6) \cup Move(h, 12, 12, 5) \cup Move(h, 4, 5, 2)
ImmLwsp(h) == Move(h, 2, 3, 6) \cup Move(h, 12, 12, 5) \cup Move(h, 4, 6, 2)
ImmSwsp(h) == Move(h, 7, 8, 6) \cup Move(h, 9, 12, 2)

----------------------------------------------------------------------------
(* decompress, one operator for each case that needs more than a line.      *)

Illegal == {}
Ebreak == {0, 1, 4, 5, 6, 20}

Addi4spn(h) ==
  IF Imm4spn(h) = {} THEN Illegal
  ELSE buildI(19, 0, getRvcRegister(h, 2), 2, Imm4spn(h))

\* rd = 0 gives addi x0, x0, imm, the code's NOP among them.
Addi(h) == buildI(19, 0, Register5(h), Register5(h), signExtend(Imm6(h), 6))

Li(h) == IF Register5(h) = 0 THEN Illegal
         ELSE buildI(19, 0, Register5(h), 0, signExtend(Imm6(h), 6))

LuiOrAddi16sp(h) ==
  LET rd == Register5(h)
  IN  CASE rd = 2 /\ Imm16sp(h) # {} -> buildI(19, 0, 2, 2, Imm16sp(h))
        [] rd \notin {0, 2} /\ Imm6(h) # {} ->
             buildU(55, rd, {k + 12 : k \in signExtend(Imm6(h), 6)})
        [] OTHER -> Illegal

\* Bit 12 of the register forms is not looked at.
MiscAlu(h) ==
  LET rd == getRvcRegister(h, 7)
      rs == getRvcRegister(h, 2)
      funct2 == Field(h, 10, 11)
      sub == Field(h, 5, 6)
  IN  CASE funct2 = 0 -> buildI(19, 5, rd, rd, Imm6(h))
        [] funct2 = 1 -> buildI(19, 5, rd, rd, SraiImm(h))
        [] funct2 = 2 -> buildI(19, 7, rd, rd, signExtend(Imm6(h), 6))
        [] funct2 = 3 /\ sub = 0 -> buildR(51, 0, 32, rd, rd, rs)
        [] funct2 = 3 /\ sub = 1 -> buildR(51, 4, 0, rd, rd, rs)
        [] funct2 = 3 /\ sub = 2 -> buildR(51, 6, 0, rd, rd, rs)
        [] funct2 = 3 /\ sub = 3 -> buildR(51, 7, 0, rd, rd, rs)

Branch(h, funct3) == buildB(99, funct3, getRvcRegister(h, 7), 0, ImmB(h))

Slli(h) == IF Register5(h) = 0 \/ Imm6(h) = {} THEN Illegal
           ELSE buildI(19, 1, Register5(h), Register5(h), Imm6(h))

Lwsp(h) == IF Register5(h) = 0 THEN Illegal
           ELSE buildI(3, 2, Register5(h), 2, ImmLwsp(h))

JumpMoveAdd(h) ==
  LET r1 == Register5(h)
      r2 == Field(h, 2, 6)
      link == 12 \in h
  IN  CASE r1 # 0 /\ r2 = 0 -> buildI(103, 0, IF link THEN 1 ELSE 0, r1, {})
        [] r1 # 0 /\ r2 # 0 -> buildR(51, 0, 0, r1, IF link THEN r1 ELSE 0, r2)
        [] r1 = 0 /\ r2 = 0 /\ link -> Ebreak
        [] OTHER -> Illegal

decompress(h) ==
  LET quadrant == Field(h, 0, 1)
      funct3 == Field(h, 13, 15)
      case(q, f) == quadrant = q /\ funct3 = f
      rs1 == getRvcRegister(h, 7)
      r2 == getRvcRegister(h, 2)
  IN  CASE case(0, 0) -> Addi4spn(h)
        [] case(0, 2) -> buildI(3, 2, r2, rs1, ImmLwSw(h))
        [] case(0, 6) -> buildS(35, 2, rs1, r2, ImmLwSw(h))
        [] case(1, 0) -> Addi(h)
        [] case(1, 1) -> buildJ(111, 1, ImmJ(h))
        [] case(1, 2) -> Li(h)
        [] case(1, 3) -> LuiOrAddi16sp(h)
        [] case(1, 4) -> MiscAlu(h)
        [] case(1, 5) -> buildJ(111, 0, ImmJ(h))
        [] case(1, 6) -> Branch(h, 0)
        [] case(1, 7) -> Branch(h, 1)
        [] case(2, 0) -> Slli(h)
        [] case(2, 2) -> Lwsp(h)
        [] case(2, 4) -> JumpMoveAdd(h)
        [] case(2, 6) -> buildS(35, 2, 2, Field(h, 2, 6), ImmSwsp(h))
        [] OTHER -> Illegal
=============================================================================
