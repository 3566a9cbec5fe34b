-------------------------------- MODULE Alu --------------------------------
(***************************************************************************)
(* The general registers, the program counter and the instructions that    *)
(* compute: arithmetic, shifts, comparisons, multiplication and division,   *)
(* loads' extensions, the functions of the AMOs, branches and jumps.        *)
(*                                                                         *)
(* A word is a natural number below 2^W.  W is 32 in the code; nothing here *)
(* depends on it, so that TLC can try every pair of operands of a small W.  *)
(* Memory is abstracted (module VirtualMemory has it): a load reads any     *)
(* value.  Immediates are those that module Decoder hands to the handlers.  *)
(***************************************************************************)
EXTENDS Binary

CONSTANTS
  W,         \* bits of a register (32)
  ShiftBits, \* 2^ShiftBits = W (5)
  Reg,       \* registers, x0 among them
  Imm,       \* immediates of the I-type instructions
  UpperImm,  \* immediates of LUI and AUIPC, as words
  Offset,    \* offsets of branches and of JAL
  Base,      \* ram_base, where the program starts (0x80000000)
  StackSize  \* the stack pointer x2 starts that far above

Modulus == Pow2[W]
SignBit == Pow2[W - 1]
Word    == 0 .. Modulus - 1

ASSUME WidthAssumption == W \in Nat /\ ShiftBits \in Nat /\ W = Pow2[ShiftBits] /\ W >= 4
ASSUME RegAssumption == Reg \subseteq 0 .. 31 /\ 0 \in Reg
ASSUME ImmAssumption == /\ Imm \subseteq -SignBit .. SignBit - 1
                        /\ UpperImm \subseteq Word
                        /\ Offset \subseteq {n \in -SignBit .. SignBit - 1 : n % 2 = 0}
ASSUME BaseAssumption == Base \in Word /\ Base % 2 = 0 /\ StackSize \in Nat

VARIABLES
  x,   \* _regs
  pc   \* _pc

vars == <<x, pc>>

-----------------------------------------------------------------------------
(* Words: what the casts of C++ do *)

ToWord(n) == n % Modulus
Signed(a) == IF a >= SignBit THEN a - Modulus ELSE a
AllOnes   == Modulus - 1

BitsOf(a)   == Bits(a, W)
FromBits(b) == Number(b, W)

\* The low n bits of a, extended with zeros and with the highest of them.
ZeroExtend(a, n) == a % Pow2[n]
SignExtend(a, n) == LET z == a % Pow2[n] IN ToWord(IF z >= Pow2[n - 1] THEN z - Pow2[n] ELSE z)

Bool(b) == IF b THEN 1 ELSE 0

-----------------------------------------------------------------------------
(* Arithmetic: what each handler computes of its operands *)

ADD(a, b) == ToWord(a + b)
SUB(a, b) == ToWord(a - b)
XOR(a, b) == FromBits((BitsOf(a) \ BitsOf(b)) \cup (BitsOf(b) \ BitsOf(a)))
OR(a, b)  == FromBits(BitsOf(a) \cup BitsOf(b))
AND(a, b) == FromBits(BitsOf(a) \cap BitsOf(b))

SLT(a, b)  == Bool(Signed(a) < Signed(b))

\* Mutant: the operands are compared as signed numbers.
SLTU_signed(a, b) == Bool(Signed(a) < Signed(b))

SLTU(a, b) == Bool(a < b)

\* Shifts by n bits; `>>` of a negative int rounds down.
Sll(a, n) == ToWord(a * Pow2[n])
Srl(a, n) == a \div Pow2[n]

\* Mutant: the word is shifted without its sign.
Sra_logical(a, n) == a \div Pow2[n]

Sra(a, n) == ToWord(Signed(a) \div Pow2[n])

\* SLL, SRL and SRA take the amount from bits 0 to 5 of rs2, one more than a word has
\* amounts.  A shift by W or more is undefined in C++: the instruction of the machine
\* reduces the amount, or shifts everything out.
Amounts(b) == LET n == b % (2 * W) IN IF n < W THEN {n} ELSE {n % W, n}

MUL(a, b)    == ToWord(a * b)
MULH(a, b)   == ToWord((Signed(a) * Signed(b)) \div Modulus)

\* Mutant: rs2 goes through int32_t as well.
MULHSU_signed(a, b) == ToWord((Signed(a) * Signed(b)) \div Modulus)

MULHSU(a, b) == ToWord((Signed(a) * b) \div Modulus)
MULHU(a, b)  == ToWord((a * b) \div Modulus)

\* C++ division of ints rounds towards zero; the remainder has the dividend's sign.
Magnitude(n) == IF n < 0 THEN -n ELSE n
Quotient(n, d) == LET q == Magnitude(n) \div Magnitude(d)
                  IN  IF (n < 0) = (d < 0) THEN q ELSE -q
Remainder(n, d) == n - d * Quotient(n, d)

Overflows(a, b) == Signed(a) = -SignBit /\ Signed(b) = -1

DIV(a, b)  == IF b = 0 THEN AllOnes
              ELSE IF Overflows(a, b) THEN a ELSE ToWord(Quotient(Signed(a), Signed(b)))
DIVU(a, b) == IF b = 0 THEN AllOnes ELSE a \div b

\* Mutant: nothing remains of a division by zero.
REM_zero(a, b) == IF b = 0 \/ Overflows(a, b) THEN 0 ELSE ToWord(Remainder(Signed(a), Signed(b)))

REM(a, b)  == IF b = 0 THEN a
              ELSE IF Overflows(a, b) THEN 0 ELSE ToWord(Remainder(Signed(a), Signed(b)))
REMU(a, b) == IF b = 0 THEN a ELSE a % b

\* What R-type instruction op can leave in rd.
RTypeOp == {"ADD", "SUB", "XOR", "OR", "AND", "SLT", "SLTU", "SLL", "SRL", "SRA",
            "MUL", "MULH", "MULHSU", "MULHU", "DIV", "DIVU", "REM", "REMU"}
RResults(op, a, b) ==
  CASE op = "ADD"    -> {ADD(a, b)}     [] op = "SUB"   -> {SUB(a, b)}
    [] op = "XOR"    -> {XOR(a, b)}     [] op = "OR"    -> {OR(a, b)}
    [] op = "AND"    -> {AND(a, b)}     [] op = "SLT"   -> {SLT(a, b)}
    [] op = "SLTU"   -> {SLTU(a, b)}
    [] op = "SLL"    -> {Sll(a, n) : n \in Amounts(b)}
    [] op = "SRL"    -> {Srl(a, n) : n \in Amounts(b)}
    [] op = "SRA"    -> {Sra(a, n) : n \in Amounts(b)}
    [] op = "MUL"    -> {MUL(a, b)}     [] op = "MULH"  -> {MULH(a, b)}
    [] op = "MULHSU" -> {MULHSU(a, b)}  [] op = "MULHU" -> {MULHU(a, b)}
    [] op = "DIV"    -> {DIV(a, b)}     [] op = "DIVU"  -> {DIVU(a, b)}
    [] op = "REM"    -> {REM(a, b)}     [] op = "REMU"  -> {REMU(a, b)}

\* I-type: imm is sign-extended, for SLTIU too, which then compares it as unsigned.
ITypeOp == {"ADDI", "SLTI", "SLTIU", "XORI", "ORI", "ANDI"}
IResult(op, a, imm) ==
  LET b == ToWord(imm)
  IN  CASE op = "ADDI" -> ADD(a, b)   [] op = "SLTI" -> SLT(a, b)  [] op = "SLTIU" -> SLTU(a, b)
        [] op = "XORI" -> XOR(a, b)   [] op = "ORI"  -> OR(a, b)   [] op = "ANDI"  -> AND(a, b)

\* The immediate shifts take ShiftBits bits of imm.
ShiftOp == {"SLLI", "SRLI", "SRAI"}
ShiftResult(op, a, n) ==
  CASE op = "SLLI" -> Sll(a, n) [] op = "SRLI" -> Srl(a, n) [] op = "SRAI" -> Sra(a, n)

\* What a load of the word v leaves in rd.
LoadOp == {"LB", "LH", "LW", "LBU", "LHU"}
LoadResult(op, v) ==
  CASE op = "LB"  -> SignExtend(v, W \div 4) [] op = "LH"  -> SignExtend(v, W \div 2)
    [] op = "LBU" -> ZeroExtend(v, W \div 4) [] op = "LHU" -> ZeroExtend(v, W \div 2)
    [] op = "LW"  -> v

\* What an AMO writes over `old`.
AmoOp == {"SWAP", "ADD", "XOR", "AND", "OR", "MIN", "MAX", "MINU", "MAXU"}
AmoResult(op, old, b) ==
  CASE op = "SWAP" -> b
    [] op = "ADD"  -> ADD(old, b) [] op = "XOR" -> XOR(old, b)
    [] op = "AND"  -> AND(old, b) [] op = "OR"  -> OR(old, b)
    [] op = "MIN"  -> IF Signed(b) < Signed(old) THEN b ELSE old
    [] op = "MAX"  -> IF Signed(old) < Signed(b) THEN b ELSE old
    [] op = "MINU" -> IF b < old THEN b ELSE old
    [] op = "MAXU" -> IF old < b THEN b ELSE old

BranchOp == {"BEQ", "BNE", "BLT", "BGE", "BLTU", "BGEU"}
Taken(op, a, b) ==
  CASE op = "BEQ"  -> a = b                   [] op = "BNE"  -> a # b
    [] op = "BLT"  -> Signed(a) < Signed(b)   [] op = "BGE"  -> Signed(a) >= Signed(b)
    [] op = "BLTU" -> a < b                   [] op = "BGEU" -> a >= b

-----------------------------------------------------------------------------
(* Registers and jumps, on the hart as a value *)

Size == {2, 4}   \* of a compressed instruction and of another

\* Mutant: x0 is a register like any other.
SetRegister_x0(r, rd, v) == [r EXCEPT ![rd] = v]

SetRegister(r, rd, v) == IF rd = 0 THEN r ELSE [r EXCEPT ![rd] = v]

Cur == [x |-> x, pc |-> pc]
NextPc(m, size) == ToWord(m.pc + size)

JAL(m, rd, offset, size) ==
  [x |-> SetRegister(m.x, rd, NextPc(m, size)), pc |-> ToWord(m.pc + offset)]

\* & ~1
Even(t) == t - (t % 2)

\* Mutant: rs1 is read when rd has been written.
JALR_late(m, rd, rs1, imm, size) ==
  LET r == SetRegister(m.x, rd, NextPc(m, size))
      t == ToWord(r[rs1] + imm)
  IN  [x |-> r, pc |-> Even(t)]

JALR(m, rd, rs1, imm, size) ==
  LET t == ToWord(m.x[rs1] + imm)
  IN  [x |-> SetRegister(m.x, rd, NextPc(m, size)), pc |-> Even(t)]

-----------------------------------------------------------------------------
(* One instruction *)

Becomes(m) == x' = m.x /\ pc' = m.pc

\* rd becomes v and the hart goes on to the next instruction.
Result(rd, v, size) == Becomes([x |-> SetRegister(x, rd, v), pc |-> NextPc(Cur, size)])

ExecuteR == \E op \in RTypeOp, rd, rs1, rs2 \in Reg, size \in Size :
              \E v \in RResults(op, x[rs1], x[rs2]) : Result(rd, v, size)

ExecuteI == \E op \in ITypeOp, rd, rs1 \in Reg, imm \in Imm, size \in Size :
              Result(rd, IResult(op, x[rs1], imm), size)

ExecuteShift == \E op \in ShiftOp, rd, rs1 \in Reg, n \in 0 .. W - 1, size \in Size :
                  Result(rd, ShiftResult(op, x[rs1], n), size)

ExecuteLui == \E rd \in Reg, imm \in UpperImm, size \in Size : Result(rd, imm, size)

ExecuteAuipc == \E rd \in Reg, imm \in UpperImm : Result(rd, ToWord(pc + imm), 4)

ExecuteLoad == \E op \in LoadOp, rd \in Reg, v \in Word, size \in Size :
                 Result(rd, LoadResult(op, v), size)

\* An AMO, and LR and SC, which leave a word or a code in rd.
ExecuteAtomic == \E rd \in Reg, old \in Word : Result(rd, old, 4)

ExecuteBranch == \E op \in BranchOp, rs1, rs2 \in Reg, offset \in Offset, size \in Size :
  Becomes([x |-> x, pc |-> IF Taken(op, x[rs1], x[rs2])
                           THEN ToWord(pc + offset) ELSE NextPc(Cur, size)])

ExecuteJal == \E rd \in Reg, offset \in Offset, size \in Size :
                Becomes(JAL(Cur, rd, offset, size))

ExecuteJalr == \E rd, rs1 \in Reg, imm \in Imm, size \in Size :
                 Becomes(JALR(Cur, rd, rs1, imm, size))

Init == /\ x = [r \in Reg |-> IF r = 2 THEN ToWord(Base + StackSize) ELSE 0]
        /\ pc = Base

Next == \/ ExecuteR \/ ExecuteI \/ ExecuteShift \/ ExecuteLui \/ ExecuteAuipc
        \/ ExecuteLoad \/ ExecuteAtomic \/ ExecuteBranch \/ ExecuteJal \/ ExecuteJalr

Spec == Init /\ [][Next]_vars

-----------------------------------------------------------------------------
(* Properties.  The registers take every value, so that what is said of them is said of *)
(* all operands.                                                                         *)

\* Type invariant; x0 stays zero and the program counter even, whatever is written and
\* jumped to.
TypeOK == /\ x \in [Reg -> Word] /\ x[0] = 0
          /\ pc \in Word /\ pc % 2 = 0

\* Quotient and remainder (RTypeInstruction.cpp:342-444) belong together for all
\* operands, division by zero and the one signed overflow included: the dividend is
\* put back by MUL and ADD, and the remainder is smaller than the divisor and has the
\* dividend's sign.
DivisionIdentity == \A r, s \in Reg :
  LET a == x[r]
      b == x[s]
  IN  /\ ADD(MUL(DIV(a, b), b), REM(a, b)) = a
      /\ ADD(MUL(DIVU(a, b), b), REMU(a, b)) = a
      /\ b # 0 => /\ REMU(a, b) < b
                  /\ Magnitude(Signed(REM(a, b))) < Magnitude(Signed(b))
                  /\ Signed(REM(a, b)) * Signed(a) >= 0

\* MUL with each of MULH, MULHSU and MULHU (RTypeInstruction.cpp:266-340) is the
\* product of twice the width under its own reading of the operands.
WideProduct == \A r, s \in Reg :
  LET a == x[r]
      b == x[s]
  IN  /\ Signed(MULH(a, b))   * Modulus + MUL(a, b) = Signed(a) * Signed(b)
      /\ Signed(MULHSU(a, b)) * Modulus + MUL(a, b) = Signed(a) * b
      /\ MULHU(a, b) * Modulus + MUL(a, b) = a * b

\* The comparisons of branches, of SLT and SLTU and of the AMOs are the same two orders,
\* and SLTU finds the carry of an addition and the borrow of a subtraction.
ComparisonsAgree == \A r, s \in Reg :
  LET a == x[r]
      b == x[s]
  IN  /\ SLT(a, b)  = Bool(Taken("BLT", a, b))  /\ Taken("BGE", a, b)  = ~Taken("BLT", a, b)
      /\ SLTU(a, b) = Bool(Taken("BLTU", a, b)) /\ Taken("BGEU", a, b) = ~Taken("BLTU", a, b)
      /\ Taken("BLT", a, b)  <=> AmoResult("MIN", a, b) = a /\ AmoResult("MAX", b, a) # a
      /\ Taken("BLTU", a, b) <=> AmoResult("MINU", a, b) = a /\ AmoResult("MAXU", b, a) # a
      /\ SLTU(ADD(a, b), a) * Modulus + ADD(a, b) = a + b
      /\ SUB(a, b) - SLTU(a, b) * Modulus = a - b

\* Shifting a field to the top and back extends it as a load does: SRAI as LB and LH,
\* SRLI as LBU and LHU (ITypeInstruction.cpp:178-367).
ExtensionsAgree == \A r \in Reg :
  LET a    == x[r]
      byte == W - W \div 4
      half == W - W \div 2
  IN  /\ Sra(Sll(a, byte), byte) = LoadResult("LB", a)
      /\ Sra(Sll(a, half), half) = LoadResult("LH", a)
      /\ Srl(Sll(a, byte), byte) = LoadResult("LBU", a)
      /\ Srl(Sll(a, half), half) = LoadResult("LHU", a)

\* A call through JAL or JALR, of either size and with the link in any register, also
\* the one that holds the target, goes to the target and comes back by JALR x0, 0(rd)
\* to the instruction after it (ITypeInstruction.cpp:371-392, JTypeInstruction.cpp:44-63).
CallReturns == \A rd, rs1 \in Reg \ {0}, size \in Size :
  LET Back(m) == JALR(m, 0, rd, 0, 4).pc
  IN  /\ \A imm \in Imm : LET called == JALR(Cur, rd, rs1, imm, size)
                          IN  /\ called.pc = Even(ToWord(x[rs1] + imm))
                              /\ Back(called) = NextPc(Cur, size)
      /\ \A offset \in Offset : Back(JAL(Cur, rd, offset, size)) = NextPc(Cur, size)
=============================================================================
