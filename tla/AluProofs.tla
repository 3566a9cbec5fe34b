----------------------------- MODULE AluProofs -----------------------------
(***************************************************************************)
(* Theorems about Alu, for every width of a register and all operands.      *)
(***************************************************************************)
EXTENDS Alu, BinaryProofs, TLAPS

-----------------------------------------------------------------------------
(* Words and the integers they stand for *)

LEMMA Widths ==
  /\ W \in Nat /\ W >= 4
  /\ SignBit \in Nat /\ SignBit > 1 /\ Modulus \in Nat /\ Modulus = 2 * SignBit
<1>1. W - 1 \in Nat /\ W - 2 \in Nat /\ (W - 1) + 1 = W /\ (W - 2) + 1 = W - 1
  BY WidthAssumption
<1> QED
  BY <1>1, WidthAssumption, Pow2Type, Pow2Next DEF Modulus, SignBit

\* m and n differ by a multiple of the modulus.
Same(m, n) == \E k \in Int : m = n + k * Modulus

LEMMA ToWordType == \A n \in Int : ToWord(n) \in Word
BY Widths DEF ToWord, Word

LEMMA ToWordUnique ==
  ASSUME NEW n \in Int, NEW a \in Word, Same(n, a)
  PROVE  ToWord(n) = a
<1>1. a \in Int /\ a \in 0 .. Modulus - 1 /\ Modulus > 0 /\ Modulus \in Nat
  BY Widths DEF Word
<1>2. PICK k \in Int : n = k * Modulus + a
  BY <1>1 DEF Same
<1>3. (k * Modulus + a) % Modulus = a
  BY <1>1, DivisionIsUnique
<1> QED
  BY <1>2, <1>3 DEF ToWord

LEMMA ToWordSame == \A n \in Int : Same(ToWord(n), n)
<1> SUFFICES ASSUME NEW n \in Int PROVE Same(ToWord(n), n)
  OBVIOUS
<1>1. PICK q \in Int, r \in Int : n = q * Modulus + r /\ ToWord(n) = r
  BY Division, Widths DEF ToWord
<1>2. r = n + (0 - q) * Modulus /\ 0 - q \in Int
  BY <1>1, Widths
<1> QED
  BY <1>1, <1>2 DEF Same

LEMMA SameTrans ==
  ASSUME NEW m \in Int, NEW n \in Int, NEW p \in Int, Same(m, n), Same(n, p)
  PROVE  Same(m, p)
<1>1. PICK k \in Int : m = n + k * Modulus
  BY DEF Same
<1>2. PICK l \in Int : n = p + l * Modulus
  BY DEF Same
<1>3. m = p + (k + l) * Modulus
  BY <1>1, <1>2, Widths
<1> QED
  BY <1>3 DEF Same

LEMMA SameSum ==
  ASSUME NEW m \in Int, NEW n \in Int, NEW p \in Int, NEW q \in Int, Same(m, n), Same(p, q)
  PROVE  Same(m + p, n + q)
<1>1. PICK k \in Int : m = n + k * Modulus
  BY DEF Same
<1>2. PICK l \in Int : p = q + l * Modulus
  BY DEF Same
<1>3. m + p = (n + q) + (k + l) * Modulus
  BY <1>1, <1>2, Widths
<1> QED
  BY <1>3 DEF Same

LEMMA SameProduct ==
  ASSUME NEW m \in Int, NEW n \in Int, NEW p \in Int, NEW q \in Int, Same(m, n), Same(p, q)
  PROVE  Same(m * p, n * q)
<1>1. PICK k \in Int : m = n + k * Modulus
  BY DEF Same
<1>2. PICK l \in Int : p = q + l * Modulus
  BY DEF Same
<1>3. m * p = n * p + (k * p) * Modulus
  BY <1>1, Widths
<1>4. n * p = n * q + (n * l) * Modulus
  BY <1>2, Widths
<1>5. m * p = n * q + (n * l + k * p) * Modulus
  BY <1>3, <1>4, Widths
<1> QED
  BY <1>5 DEF Same

LEMMA SameWord ==
  ASSUME NEW m \in Int, NEW n \in Int, Same(m, n)
  PROVE  ToWord(m) = ToWord(n)
<1>1. PICK k \in Int : m = n + k * Modulus
  BY DEF Same
<1>2. PICK l \in Int : ToWord(n) = n + l * Modulus
  BY ToWordSame DEF Same
<1>3. ToWord(n) \in Word /\ ToWord(n) \in Int
  BY ToWordType, Widths DEF Word
<1>4. m = ToWord(n) + (k - l) * Modulus
  BY <1>1, <1>2, <1>3, Widths
<1>5. Same(m, ToWord(n))
  BY <1>4 DEF Same
<1> QED
  BY <1>3, <1>5, ToWordUnique

\* A word stands for the integer of its two's complement.
LEMMA SignedType ==
  \A a \in Word : Signed(a) \in -SignBit .. SignBit - 1 /\ Signed(a) \in Int /\ Same(a, Signed(a))
<1> SUFFICES ASSUME NEW a \in Word
             PROVE  Signed(a) \in -SignBit .. SignBit - 1 /\ Signed(a) \in Int /\ Same(a, Signed(a))
  OBVIOUS
<1>1. a \in Int /\ 0 <= a /\ a < Modulus
  BY Widths DEF Word
<1>2. CASE a >= SignBit
  <2>1. Signed(a) = a - Modulus
    BY <1>2 DEF Signed
  <2>2. a = (a - Modulus) + 1 * Modulus
    BY <1>1, Widths
  <2> QED
    BY <1>1, <1>2, <2>1, <2>2, Widths DEF Same
<1>3. CASE a < SignBit
  <2>1. Signed(a) = a
    BY <1>1, <1>3, Widths DEF Signed
  <2>2. a = a + 0 * Modulus
    BY <1>1, Widths
  <2> QED
    BY <1>1, <1>3, <2>1, <2>2, Widths DEF Same
<1> QED
  BY <1>1, <1>2, <1>3, Widths

LEMMA WordOfSigned == \A a \in Word : ToWord(Signed(a)) = a /\ ToWord(a) = a
<1> SUFFICES ASSUME NEW a \in Word PROVE ToWord(Signed(a)) = a /\ ToWord(a) = a
  OBVIOUS
<1>1. a \in Int /\ Signed(a) \in Int /\ Same(a, Signed(a))
  BY SignedType DEF Word
<1>2. a = a + 0 * Modulus
  BY <1>1, Widths
<1>3. Same(a, a)
  BY <1>2 DEF Same
<1> QED
  BY <1>1, <1>3, ToWordUnique, SameWord

LEMMA SignedOfWord == \A n \in -SignBit .. SignBit - 1 : Signed(ToWord(n)) = n
<1> SUFFICES ASSUME NEW n \in -SignBit .. SignBit - 1 PROVE Signed(ToWord(n)) = n
  OBVIOUS
<1>1. n \in Int /\ -SignBit <= n /\ n < SignBit
  BY Widths
<1>2. CASE n >= 0
  <2>1. n \in Word
    BY <1>1, <1>2, Widths DEF Word
  <2>2. ToWord(n) = n
    BY <2>1, WordOfSigned
  <2> QED
    BY <1>1, <2>2, Widths DEF Signed
<1>3. CASE n < 0
  <2>1. n + Modulus \in Word
    BY <1>1, <1>3, Widths DEF Word
  <2>2. n = (n + Modulus) + (-1) * Modulus
    BY <1>1, Widths
  <2>3. ToWord(n) = n + Modulus
    BY <1>1, <2>1, <2>2, ToWordUnique DEF Same
  <2>4. n + Modulus >= SignBit /\ (n + Modulus) - Modulus = n
    BY <1>1, Widths
  <2> QED
    BY <2>3, <2>4 DEF Signed
<1> QED
  BY <1>1, <1>2, <1>3

-----------------------------------------------------------------------------
(* Every instruction computes a word *)

LEMMA WordIsInt == \A a \in Word : a \in Int /\ a \in Nat /\ a < Modulus
BY Widths DEF Word

LEMMA BitsAreWords == 0 \in Word /\ 1 \in Word
BY Widths DEF Word

LEMMA ShrinkType ==
  ASSUME NEW a \in Word, NEW n \in Nat, n > 0
  PROVE  a \div n \in Word /\ a % n \in Word
<1>1. PICK q \in Int, r \in 0 .. n - 1 : q = a \div n /\ r = a % n /\ a = q * n + r
  BY Division, WordIsInt
<1>2. q >= 0
  <2>1. q <= -1 => q * n <= -n
    BY <1>1
  <2> QED
    BY <1>1, <2>1, WordIsInt
<1>3. q <= q * n /\ r <= a
  BY <1>1, <1>2, WordIsInt
<1> QED
  BY <1>1, <1>2, <1>3, WordIsInt, Widths DEF Word

LEMMA ShiftTypes ==
  ASSUME NEW a \in Word, NEW n \in Nat
  PROVE  Sll(a, n) \in Word /\ Srl(a, n) \in Word /\ Sra(a, n) \in Word
<1>1. PICK p \in Nat : p = Pow2[n] /\ p > 0
  BY Pow2Type
<1>2. a * p \in Int /\ Signed(a) \div p \in Int
  BY <1>1, WordIsInt, SignedType, Division
<1> QED
  BY <1>1, <1>2, ToWordType, ShrinkType DEF Sll, Srl, Sra

LEMMA AmountType == \A b \in Word : Amounts(b) \subseteq Nat
<1> SUFFICES ASSUME NEW b \in Word PROVE Amounts(b) \subseteq Nat
  OBVIOUS
<1>1. PICK n \in Nat : n = b % (2 * W)
  <2>1. 2 * W \in Nat /\ 2 * W > 0 /\ b \in Int
    BY Widths, WordIsInt
  <2> QED
    BY <2>1, Division
<1>2. n % W \in Nat
  BY Widths, Division
<1>3. Amounts(b) = IF n < W THEN {n} ELSE {n % W, n}
  BY <1>1 DEF Amounts
<1> QED
  BY <1>2, <1>3

LEMMA BitwiseTypes == \A a, b : XOR(a, b) \in Word /\ OR(a, b) \in Word /\ AND(a, b) \in Word
BY NumberType, Widths DEF XOR, OR, AND, FromBits, Word, Modulus

LEMMA MagnitudeType == \A n \in Int : Magnitude(n) \in Nat /\ (n # 0 => Magnitude(n) > 0)
BY DEF Magnitude

LEMMA DivisionTypes ==
  ASSUME NEW n \in Int, NEW d \in Int, d # 0
  PROVE  Quotient(n, d) \in Int /\ Remainder(n, d) \in Int
<1>1. Magnitude(n) \div Magnitude(d) \in Int
  BY MagnitudeType, Division
<1>2. Quotient(n, d) \in Int
  BY <1>1 DEF Quotient
<1> QED
  BY <1>2 DEF Remainder

LEMMA NonZero == \A b \in Word : b # 0 => Signed(b) # 0
BY WordIsInt, Widths DEF Signed

LEMMA ArithmeticTypes ==
  ASSUME NEW a \in Word, NEW b \in Word
  PROVE  /\ ADD(a, b) \in Word /\ SUB(a, b) \in Word
         /\ MUL(a, b) \in Word /\ MULH(a, b) \in Word /\ MULHSU(a, b) \in Word /\ MULHU(a, b) \in Word
         /\ DIV(a, b) \in Word /\ DIVU(a, b) \in Word /\ REM(a, b) \in Word /\ REMU(a, b) \in Word
<1>1. a \in Int /\ b \in Int /\ Signed(a) \in Int /\ Signed(b) \in Int
  BY WordIsInt, SignedType
<1>2. ADD(a, b) \in Word /\ SUB(a, b) \in Word /\ MUL(a, b) \in Word
  BY <1>1, ToWordType DEF ADD, SUB, MUL
<1>3. ASSUME NEW m \in Int, NEW n \in Int PROVE ToWord((m * n) \div Modulus) \in Word
  <2>1. m * n \in Int
    OBVIOUS
  <2> QED
    BY <2>1, Division, Widths, ToWordType
<1>4. MULH(a, b) \in Word /\ MULHSU(a, b) \in Word /\ MULHU(a, b) \in Word
  BY <1>1, <1>3 DEF MULH, MULHSU, MULHU
<1>5. 0 \in Word /\ AllOnes \in Word
  BY BitsAreWords, Widths DEF Word, AllOnes
<1>6. DIV(a, b) \in Word /\ REM(a, b) \in Word
  <2>1. b # 0 => Quotient(Signed(a), Signed(b)) \in Int /\ Remainder(Signed(a), Signed(b)) \in Int
    BY <1>1, NonZero, DivisionTypes
  <2> QED
    BY <1>5, <2>1, ToWordType DEF DIV, REM
<1>7. DIVU(a, b) \in Word /\ REMU(a, b) \in Word
  <2>1. b # 0 => b \in Nat /\ b > 0
    BY WordIsInt
  <2> QED
    BY <1>5, <2>1, ShrinkType DEF DIVU, REMU
<1> QED
  BY <1>2, <1>4, <1>6, <1>7

LEMMA CompareTypes == \A a, b : SLT(a, b) \in Word /\ SLTU(a, b) \in Word
BY BitsAreWords DEF SLT, SLTU, Bool

LEMMA RTypes ==
  ASSUME NEW a \in Word, NEW b \in Word, NEW op \in RTypeOp
  PROVE  RResults(op, a, b) \subseteq Word
<1>1. \A n \in Amounts(b) : Sll(a, n) \in Word /\ Srl(a, n) \in Word /\ Sra(a, n) \in Word
  BY AmountType, ShiftTypes
<1>2. CASE op \in {"ADD", "SUB", "XOR", "OR", "AND", "SLT", "SLTU"}
  BY <1>2, ArithmeticTypes, BitwiseTypes, CompareTypes DEF RResults
<1>3. CASE op \in {"SLL", "SRL", "SRA"}
  BY <1>1, <1>3 DEF RResults
<1>4. CASE op \in {"MUL", "MULH", "MULHSU", "MULHU", "DIV", "DIVU", "REM", "REMU"}
  BY <1>4, ArithmeticTypes DEF RResults
<1> QED
  BY <1>2, <1>3, <1>4 DEF RTypeOp

LEMMA ITypes ==
  ASSUME NEW a \in Word, NEW imm \in Int, NEW op \in ITypeOp
  PROVE  IResult(op, a, imm) \in Word
BY ToWordType, ArithmeticTypes, BitwiseTypes, CompareTypes DEF IResult, ITypeOp

LEMMA ImmediateShiftTypes ==
  ASSUME NEW a \in Word, NEW n \in 0 .. W - 1, NEW op \in ShiftOp
  PROVE  ShiftResult(op, a, n) \in Word
<1>1. n \in Nat
  BY Widths
<1> QED
  BY <1>1, ShiftTypes DEF ShiftResult, ShiftOp

LEMMA ExtendTypes ==
  ASSUME NEW v \in Word, NEW n \in Nat, n > 0
  PROVE  ZeroExtend(v, n) \in Word /\ SignExtend(v, n) \in Word
<1>1. PICK p \in Nat : p = Pow2[n] /\ p > 0
  BY Pow2Type
<1>2. v % p \in Int /\ (v % p) - p \in Int
  BY <1>1, WordIsInt, Division
<1> QED
  BY <1>1, <1>2, ShrinkType, ToWordType DEF ZeroExtend, SignExtend

LEMMA Parts == W \div 4 \in Nat /\ W \div 4 > 0 /\ W \div 4 < W /\ W \div 2 \in Nat /\ W \div 2 > 0 /\ W \div 2 < W
BY Widths

LEMMA LoadTypes ==
  ASSUME NEW v \in Word, NEW op \in LoadOp
  PROVE  LoadResult(op, v) \in Word
BY Parts, ExtendTypes DEF LoadResult, LoadOp

-----------------------------------------------------------------------------
(* Types *)

Registers == {r \in [Reg -> Word] : r[0] = 0}
Target == {a \in Word : a % 2 = 0}

LEMMA SetRegisterType ==
  ASSUME NEW r \in Registers, NEW rd \in Reg, NEW v \in Word
  PROVE  SetRegister(r, rd, v) \in Registers
BY RegAssumption DEF Registers, SetRegister

\* The modulus is even: wrapping around keeps an address even.
LEMMA ToWordEven ==
  ASSUME NEW n \in Int, n % 2 = 0
  PROVE  ToWord(n) \in Target
<1>1. ToWord(n) \in Word /\ ToWord(n) \in Int
  BY ToWordType, WordIsInt
<1>2. PICK k \in Int : ToWord(n) = n + k * Modulus
  BY ToWordSame DEF Same
<1>3. k * Modulus = 2 * (k * SignBit)
  BY Widths
<1>4. ToWord(n) % 2 = 0
  <2>1. PICK l \in Int : l = k * SignBit
    BY Widths
  <2> QED
    BY <1>2, <1>3, <2>1
<1> QED
  BY <1>1, <1>4 DEF Target

LEMMA EvenType == \A a \in Word : Even(a) \in Target
<1> SUFFICES ASSUME NEW a \in Word PROVE Even(a) \in Target
  OBVIOUS
<1>1. a \in Nat /\ a % 2 \in 0 .. 1 /\ a - (a % 2) \in Nat /\ (a - (a % 2)) % 2 = 0
  BY WordIsInt
<1> QED
  BY <1>1, WordIsInt, Widths DEF Even, Word, Target

LEMMA EvenOfEven == \A a \in Target : Even(a) = a
BY WordIsInt DEF Target, Even

LEMMA NextPcType ==
  ASSUME NEW m, m.pc \in Target, NEW size \in Size
  PROVE  NextPc(m, size) \in Target
<1>1. m.pc \in Int /\ m.pc % 2 = 0 /\ size \in Int /\ size % 2 = 0
  BY WordIsInt DEF Target, Size
<1>2. m.pc + size \in Int /\ (m.pc + size) % 2 = 0
  BY <1>1
<1> QED
  BY <1>2, ToWordEven DEF NextPc

LEMMA OffsetType ==
  ASSUME NEW a \in Target, NEW offset \in Offset
  PROVE  ToWord(a + offset) \in Target
<1>1. a \in Int /\ a % 2 = 0 /\ offset \in Int /\ offset % 2 = 0
  BY WordIsInt, ImmAssumption, Widths DEF Target
<1>2. a + offset \in Int /\ (a + offset) % 2 = 0
  BY <1>1
<1> QED
  BY <1>2, ToWordEven

LEMMA ResultType ==
  ASSUME TypeOK, NEW rd \in Reg, NEW v \in Word, NEW size \in Size, Result(rd, v, size)
  PROVE  TypeOK'
<1>1. x \in Registers /\ pc \in Target
  BY DEF TypeOK, Registers, Target
<1>2. x' = SetRegister(x, rd, v) /\ pc' = NextPc(Cur, size)
  BY DEF Result, Becomes
<1>3. x' \in Registers /\ pc' \in Target
  BY <1>1, <1>2, SetRegisterType, NextPcType DEF Cur
<1> QED
  BY <1>3 DEF TypeOK, Registers, Target

LEMMA JumpType ==
  ASSUME TypeOK, NEW rd \in Reg, NEW size \in Size, NEW t \in Target, NEW m,
         m.x = SetRegister(x, rd, NextPc(Cur, size)), m.pc = t, Becomes(m)
  PROVE  TypeOK'
<1>1. x \in Registers /\ pc \in Target
  BY DEF TypeOK, Registers, Target
<1>2. NextPc(Cur, size) \in Target
  BY <1>1, NextPcType DEF Cur
<1>3. x' \in Registers /\ pc' \in Target
  BY <1>1, <1>2, SetRegisterType DEF Becomes, Target
<1> QED
  BY <1>3 DEF TypeOK, Registers, Target

\* All instructions compute words, keep x0 and leave an even program counter.
THEOREM AluTypeCorrect == Spec => []TypeOK
<1>1. Init => TypeOK
  <2>1. ToWord(Base + StackSize) \in Word
    BY BaseAssumption, WordIsInt, ToWordType
  <2> QED
    BY <2>1, BitsAreWords, BaseAssumption, RegAssumption DEF Init, TypeOK
<1>2. TypeOK /\ [Next]_vars => TypeOK'
  <2> SUFFICES ASSUME TypeOK, [Next]_vars PROVE TypeOK'
    OBVIOUS
  <2>0. x \in [Reg -> Word] /\ pc \in Target /\ pc \in Word
    BY DEF TypeOK, Target
  <2>1. CASE ExecuteR
    BY <2>0, <2>1, RTypes, ResultType DEF ExecuteR
  <2>2. CASE ExecuteI
    <3>1. Imm \subseteq Int
      BY ImmAssumption, Widths
    <3> QED
      BY <2>0, <2>2, <3>1, ITypes, ResultType DEF ExecuteI
  <2>3. CASE ExecuteShift
    BY <2>0, <2>3, ImmediateShiftTypes, ResultType DEF ExecuteShift
  <2>4. CASE ExecuteLui
    BY <2>4, ImmAssumption, ResultType DEF ExecuteLui
  <2>5. CASE ExecuteAuipc
    <3>1. PICK rd \in Reg, imm \in UpperImm : Result(rd, ToWord(pc + imm), 4)
      BY <2>5 DEF ExecuteAuipc
    <3>2. ToWord(pc + imm) \in Word /\ 4 \in Size
      BY <2>0, ImmAssumption, WordIsInt, ToWordType DEF Size
    <3> QED
      BY <3>1, <3>2, ResultType
  <2>6. CASE ExecuteLoad
    BY <2>6, LoadTypes, ResultType DEF ExecuteLoad
  <2>7. CASE ExecuteAtomic
    <3>1. 4 \in Size
      BY DEF Size
    <3> QED
      BY <2>7, <3>1, ResultType DEF ExecuteAtomic
  <2>8. CASE ExecuteBranch
    <3>1. PICK op \in BranchOp, rs1 \in Reg, rs2 \in Reg, offset \in Offset, size \in Size :
            /\ x' = x
            /\ pc' = IF Taken(op, x[rs1], x[rs2]) THEN ToWord(pc + offset) ELSE NextPc(Cur, size)
      BY <2>8 DEF ExecuteBranch, Becomes
    <3>2. ToWord(pc + offset) \in Target /\ NextPc(Cur, size) \in Target
      BY <2>0, OffsetType, NextPcType DEF Cur
    <3>3. pc' \in Target
      BY <3>1, <3>2
    <3> QED
      BY <3>1, <3>3 DEF TypeOK, Target
  <2>9. CASE ExecuteJal
    <3>1. PICK rd \in Reg, offset \in Offset, size \in Size : Becomes(JAL(Cur, rd, offset, size))
      BY <2>9 DEF ExecuteJal
    <3>2. ToWord(pc + offset) \in Target
      BY <2>0, OffsetType
    <3>3. /\ JAL(Cur, rd, offset, size).x = SetRegister(x, rd, NextPc(Cur, size))
          /\ JAL(Cur, rd, offset, size).pc = ToWord(pc + offset)
      BY DEF JAL, Cur
    <3> QED
      BY <3>1, <3>2, <3>3, JumpType
  <2>10. CASE ExecuteJalr
    <3>1. PICK rd \in Reg, rs1 \in Reg, imm \in Imm, size \in Size : Becomes(JALR(Cur, rd, rs1, imm, size))
      BY <2>10 DEF ExecuteJalr
    <3>2. ToWord(x[rs1] + imm) \in Word
      <4>1. x[rs1] \in Int /\ imm \in Int
        BY <2>0, WordIsInt, ImmAssumption, Widths
      <4> QED
        BY <4>1, ToWordType
    <3>3. Even(ToWord(x[rs1] + imm)) \in Target
      BY <3>2, EvenType
    <3>4. /\ JALR(Cur, rd, rs1, imm, size).x = SetRegister(x, rd, NextPc(Cur, size))
          /\ JALR(Cur, rd, rs1, imm, size).pc = Even(ToWord(x[rs1] + imm))
      BY DEF JALR, Cur
    <3> QED
      BY <3>1, <3>3, <3>4, JumpType
  <2>11. CASE UNCHANGED vars
    BY <2>11 DEF vars, TypeOK
  <2> QED
    BY <2>1, <2>2, <2>3, <2>4, <2>5, <2>6, <2>7, <2>8, <2>9, <2>10, <2>11 DEF Next
<1> QED
  BY <1>1, <1>2, PTL DEF Spec

-----------------------------------------------------------------------------
(* Calls *)

\* Coming back from a call: the link register holds the next instruction's address,
\* which is even and a word.
LEMMA ComingBack ==
  ASSUME TypeOK, NEW rd \in Reg \ {0}, NEW size \in Size, NEW m,
         m.x = SetRegister(x, rd, NextPc(Cur, size))
  PROVE  JALR(m, 0, rd, 0, 4).pc = NextPc(Cur, size)
<1>1. pc \in Target
  BY DEF TypeOK, Target
<1>2. NextPc(Cur, size) \in Target /\ NextPc(Cur, size) \in Word
  BY <1>1, NextPcType DEF Cur, Target
<1>3. m.x[rd] = NextPc(Cur, size)
  BY DEF SetRegister, TypeOK
<1>4. ToWord(m.x[rd] + 0) = NextPc(Cur, size)
  <2>1. m.x[rd] + 0 = NextPc(Cur, size)
    BY <1>2, <1>3, WordIsInt
  <2> QED
    BY <1>2, <2>1, WordOfSigned
<1> QED
  BY <1>2, <1>4, EvenOfEven DEF JALR

\* Every call by JAL or JALR goes to its target, and the return to the instruction
\* after the call.
THEOREM CallsReturn == Spec => []CallReturns
<1>1. TypeOK => CallReturns
  <2> SUFFICES ASSUME TypeOK, NEW rd \in Reg \ {0}, NEW rs1 \in Reg \ {0}, NEW size \in Size
               PROVE  LET Back(m) == JALR(m, 0, rd, 0, 4).pc
                      IN  /\ \A imm \in Imm :
                               LET called == JALR(Cur, rd, rs1, imm, size)
                               IN  /\ called.pc = Even(ToWord(x[rs1] + imm))
                                   /\ Back(called) = NextPc(Cur, size)
                          /\ \A offset \in Offset : Back(JAL(Cur, rd, offset, size)) = NextPc(Cur, size)
    BY DEF CallReturns
  <2>1. ASSUME NEW imm \in Imm
        PROVE  LET called == JALR(Cur, rd, rs1, imm, size)
               IN  /\ called.pc = Even(ToWord(x[rs1] + imm))
                   /\ JALR(called, 0, rd, 0, 4).pc = NextPc(Cur, size)
    <3>1. PICK m : m = JALR(Cur, rd, rs1, imm, size)
      OBVIOUS
    <3>2. m.x = SetRegister(x, rd, NextPc(Cur, size)) /\ m.pc = Even(ToWord(x[rs1] + imm))
      BY <3>1 DEF JALR, Cur
    <3>3. JALR(m, 0, rd, 0, 4).pc = NextPc(Cur, size)
      BY <3>2, ComingBack
    <3> QED
      BY <3>1, <3>2, <3>3
  <2>2. ASSUME NEW offset \in Offset
        PROVE  JALR(JAL(Cur, rd, offset, size), 0, rd, 0, 4).pc = NextPc(Cur, size)
    <3>1. PICK m : m = JAL(Cur, rd, offset, size)
      OBVIOUS
    <3>2. m.x = SetRegister(x, rd, NextPc(Cur, size))
      BY <3>1 DEF JAL, Cur
    <3>3. JALR(m, 0, rd, 0, 4).pc = NextPc(Cur, size)
      BY <3>2, ComingBack
    <3> QED
      BY <3>1, <3>3
  <2> QED
    BY <2>1, <2>2
<1> QED
  BY <1>1, AluTypeCorrect, PTL

-----------------------------------------------------------------------------
(* Comparisons *)

LEMMA Wraps ==
  ASSUME NEW a \in Word, NEW b \in Word
  PROVE  /\ ADD(a, b) = IF a + b < Modulus THEN a + b ELSE a + b - Modulus
         /\ SUB(a, b) = IF a >= b THEN a - b ELSE a - b + Modulus
<1>1. a \in Int /\ b \in Int /\ 0 <= a /\ 0 <= b /\ a < Modulus /\ b < Modulus /\ Modulus \in Int
  BY WordIsInt, Widths
<1>2. /\ a + b \in Int /\ a - b \in Int
      /\ \A n \in Int : n = n + 0 * Modulus
      /\ a + b = (a + b - Modulus) + 1 * Modulus
      /\ a - b = (a - b + Modulus) + (-1) * Modulus
  BY <1>1
<1>3. a + b < Modulus => ADD(a, b) = a + b
  BY <1>1, <1>2, ToWordUnique DEF ADD, Same, Word
<1>4. ~(a + b < Modulus) => ADD(a, b) = a + b - Modulus
  <2>1. SUFFICES ASSUME ~(a + b < Modulus) PROVE ADD(a, b) = a + b - Modulus
    OBVIOUS
  <2>2. a + b - Modulus \in Word
    BY <1>1, <2>1 DEF Word
  <2> QED
    BY <1>2, <2>2, ToWordUnique DEF ADD, Same
<1>5. a >= b => SUB(a, b) = a - b
  BY <1>1, <1>2, ToWordUnique DEF SUB, Same, Word
<1>6. ~(a >= b) => SUB(a, b) = a - b + Modulus
  <2>1. SUFFICES ASSUME ~(a >= b) PROVE SUB(a, b) = a - b + Modulus
    OBVIOUS
  <2>2. a - b + Modulus \in Word
    BY <1>1, <2>1 DEF Word
  <2> QED
    BY <1>2, <2>2, ToWordUnique DEF SUB, Same
<1> QED
  BY <1>3, <1>4, <1>5, <1>6

\* SLTU finds the carry and the borrow.
LEMMA CarryAndBorrow ==
  ASSUME NEW a \in Word, NEW b \in Word
  PROVE  /\ SLTU(ADD(a, b), a) * Modulus + ADD(a, b) = a + b
         /\ SUB(a, b) - SLTU(a, b) * Modulus = a - b
<1>1. a \in Int /\ b \in Int /\ 0 <= a /\ 0 <= b /\ a < Modulus /\ b < Modulus /\ Modulus \in Int
  BY WordIsInt, Widths
<1>2. 0 * Modulus = 0 /\ 1 * Modulus = Modulus
  BY <1>1
<1>3. SLTU(ADD(a, b), a) * Modulus + ADD(a, b) = a + b
  <2>1. CASE a + b < Modulus
    <3>1. ADD(a, b) = a + b /\ SLTU(a + b, a) = 0
      BY <1>1, <2>1, Wraps DEF SLTU, Bool
    <3> QED
      BY <1>1, <1>2, <3>1
  <2>2. CASE ~(a + b < Modulus)
    <3>1. ADD(a, b) = a + b - Modulus /\ SLTU(a + b - Modulus, a) = 1
      BY <1>1, <2>2, Wraps DEF SLTU, Bool
    <3> QED
      BY <1>1, <1>2, <3>1
  <2> QED
    BY <2>1, <2>2
<1>4. SUB(a, b) - SLTU(a, b) * Modulus = a - b
  <2>1. CASE a >= b
    <3>1. SUB(a, b) = a - b /\ SLTU(a, b) = 0
      BY <1>1, <2>1, Wraps DEF SLTU, Bool
    <3> QED
      BY <1>1, <1>2, <3>1
  <2>2. CASE ~(a >= b)
    <3>1. SUB(a, b) = a - b + Modulus /\ SLTU(a, b) = 1
      BY <1>1, <2>2, Wraps DEF SLTU, Bool
    <3> QED
      BY <1>1, <1>2, <3>1
  <2> QED
    BY <2>1, <2>2
<1> QED
  BY <1>3, <1>4

\* A word is known by the integer it stands for.
LEMMA SignedOrder ==
  ASSUME NEW a \in Word, NEW b \in Word
  PROVE  /\ Signed(a) \in Int /\ Signed(b) \in Int
         /\ Signed(a) = Signed(b) => a = b
BY SignedType, WordOfSigned

LEMMA TwoOrders ==
  ASSUME NEW a \in Word, NEW b \in Word
  PROVE  /\ SLT(a, b)  = Bool(Taken("BLT", a, b))  /\ Taken("BGE", a, b)  = ~Taken("BLT", a, b)
         /\ SLTU(a, b) = Bool(Taken("BLTU", a, b)) /\ Taken("BGEU", a, b) = ~Taken("BLTU", a, b)
         /\ Taken("BLT", a, b)  <=> AmoResult("MIN", a, b) = a /\ AmoResult("MAX", b, a) # a
         /\ Taken("BLTU", a, b) <=> AmoResult("MINU", a, b) = a /\ AmoResult("MAXU", b, a) # a
<1>1. a \in Int /\ b \in Int
  BY WordIsInt
<1>2. /\ Taken("BLT", a, b) <=> Signed(a) < Signed(b)
      /\ Taken("BLTU", a, b) <=> a < b
  BY DEF Taken
<1>3. /\ AmoResult("MIN", a, b) = IF Signed(b) < Signed(a) THEN b ELSE a
      /\ AmoResult("MAX", b, a) = IF Signed(b) < Signed(a) THEN a ELSE b
      /\ AmoResult("MINU", a, b) = IF b < a THEN b ELSE a
      /\ AmoResult("MAXU", b, a) = IF b < a THEN a ELSE b
  BY DEF AmoResult
<1>4. /\ SLT(a, b) = Bool(Taken("BLT", a, b))
      /\ SLTU(a, b) = Bool(Taken("BLTU", a, b))
  BY DEF SLT, SLTU, Taken
<1>5. Taken("BGE", a, b) = ~Taken("BLT", a, b) /\ Taken("BGEU", a, b) = ~Taken("BLTU", a, b)
  <2>1. (Signed(a) >= Signed(b)) = ~(Signed(a) < Signed(b)) /\ (a >= b) = ~(a < b)
    BY <1>1, SignedOrder
  <2> QED
    BY <2>1 DEF Taken
<1>6. Taken("BLT", a, b) <=> AmoResult("MIN", a, b) = a /\ AmoResult("MAX", b, a) # a
  <2>1. CASE Signed(a) < Signed(b)
    <3>1. AmoResult("MIN", a, b) = a /\ AmoResult("MAX", b, a) = b /\ a # b
      BY <1>3, <2>1, SignedOrder
    <3> QED
      BY <1>2, <2>1, <3>1
  <2>2. CASE Signed(a) = Signed(b)
    <3>1. AmoResult("MAX", b, a) = a /\ ~(Signed(a) < Signed(b))
      BY <1>3, <2>2, SignedOrder
    <3> QED
      BY <1>2, <3>1
  <2>3. CASE Signed(b) < Signed(a)
    <3>1. AmoResult("MIN", a, b) # a /\ ~(Signed(a) < Signed(b))
      BY <1>3, <2>3, SignedOrder
    <3> QED
      BY <1>2, <3>1
  <2> QED
    BY <2>1, <2>2, <2>3, SignedOrder
<1>7. Taken("BLTU", a, b) <=> AmoResult("MINU", a, b) = a /\ AmoResult("MAXU", b, a) # a
  <2>1. CASE a < b
    <3>1. AmoResult("MINU", a, b) = a /\ AmoResult("MAXU", b, a) = b /\ a # b
      BY <1>1, <1>3, <2>1
    <3> QED
      BY <1>2, <2>1, <3>1
  <2>2. CASE a = b
    <3>1. AmoResult("MAXU", b, a) = a /\ ~(a < b)
      BY <1>1, <1>3, <2>2
    <3> QED
      BY <1>2, <3>1
  <2>3. CASE b < a
    <3>1. AmoResult("MINU", a, b) # a /\ ~(a < b)
      BY <1>1, <1>3, <2>3
    <3> QED
      BY <1>2, <3>1
  <2> QED
    BY <1>1, <2>1, <2>2, <2>3
<1> QED
  BY <1>4, <1>5, <1>6, <1>7

\* The comparisons of the processor are two orders, and SLTU is carry and borrow.
THEOREM ComparisonsAreOrders == Spec => []ComparisonsAgree
<1>1. TypeOK => ComparisonsAgree
  <2> SUFFICES ASSUME TypeOK, NEW r \in Reg, NEW s \in Reg, NEW a, NEW b, a = x[r], b = x[s]
               PROVE  /\ SLT(a, b)  = Bool(Taken("BLT", a, b))  /\ Taken("BGE", a, b)  = ~Taken("BLT", a, b)
                      /\ SLTU(a, b) = Bool(Taken("BLTU", a, b)) /\ Taken("BGEU", a, b) = ~Taken("BLTU", a, b)
                      /\ Taken("BLT", a, b)  <=> AmoResult("MIN", a, b) = a /\ AmoResult("MAX", b, a) # a
                      /\ Taken("BLTU", a, b) <=> AmoResult("MINU", a, b) = a /\ AmoResult("MAXU", b, a) # a
                      /\ SLTU(ADD(a, b), a) * Modulus + ADD(a, b) = a + b
                      /\ SUB(a, b) - SLTU(a, b) * Modulus = a - b
    BY DEF ComparisonsAgree
  <2>1. a \in Word /\ b \in Word
    BY DEF TypeOK
  <2> QED
    BY <2>1, TwoOrders, CarryAndBorrow
<1> QED
  BY <1>1, AluTypeCorrect, PTL

-----------------------------------------------------------------------------
(* Multiplication *)

\* The high word of a product is in the range of the integers a word stands for.
LEMMA HighRange ==
  ASSUME NEW m \in -SignBit .. SignBit - 1, NEW n \in -(Modulus - 1) .. Modulus - 1
  PROVE  (m * n) \div Modulus \in -SignBit .. SignBit - 1
<1>1. /\ SignBit \in Int /\ Modulus \in Int /\ Modulus > 0 /\ SignBit > 0
      /\ m \in Int /\ n \in Int /\ -SignBit <= m /\ m <= SignBit /\ -Modulus < n /\ n < Modulus
  BY Widths
<1>2. m * n <= SignBit * (Modulus - 1) /\ m * n >= -(SignBit * (Modulus - 1))
  <2>1. CASE n >= 0
    <3>1. m * n <= SignBit * n /\ -(SignBit * n) <= m * n
      BY <1>1, <2>1
    <3>2. SignBit * n <= SignBit * (Modulus - 1)
      BY <1>1, <2>1
    <3> QED
      BY <1>1, <3>1, <3>2
  <2>2. CASE n < 0
    <3>1. m * n <= SignBit * (-n) /\ -(SignBit * (-n)) <= m * n
      BY <1>1, <2>2
    <3>2. SignBit * (-n) <= SignBit * (Modulus - 1)
      BY <1>1, <2>2
    <3> QED
      BY <1>1, <3>1, <3>2
  <2> QED
    BY <1>1, <2>1, <2>2
<1>3. PICK q \in Int, r \in 0 .. Modulus - 1 : q = (m * n) \div Modulus /\ m * n = q * Modulus + r
  <2>1. m * n \in Int /\ Modulus \in Nat
    BY <1>1
  <2> QED
    BY <1>1, <2>1, Division
<1>4. SignBit * (Modulus - 1) = SignBit * Modulus - SignBit
  BY <1>1
<1>5. q < SignBit
  <2>1. q >= SignBit => q * Modulus >= SignBit * Modulus
    BY <1>1
  <2> QED
    BY <1>1, <1>2, <1>3, <1>4, <2>1
<1>6. q >= -SignBit
  <2>1. q <= -SignBit - 1 => q * Modulus <= (-SignBit - 1) * Modulus
    BY <1>1
  <2>2. (-SignBit - 1) * Modulus = -(SignBit * Modulus) - Modulus
    BY <1>1
  <2> QED
    BY <1>1, <1>2, <1>3, <1>4, <2>1, <2>2
<1> QED
  BY <1>1, <1>3, <1>5, <1>6

\* MUL has the low word of the product, however the operands are read.
LEMMA LowWord ==
  ASSUME NEW a \in Word, NEW b \in Word, NEW m \in Int, NEW n \in Int, Same(a, m), Same(b, n)
  PROVE  /\ (m * n) \div Modulus \in Int
         /\ ((m * n) \div Modulus) * Modulus + MUL(a, b) = m * n
<1>1. a \in Int /\ b \in Int /\ Modulus \in Nat /\ Modulus > 0 /\ a * b \in Int /\ m * n \in Int
  BY WordIsInt, Widths
<1>2. MUL(a, b) = (m * n) % Modulus
  <2>1. Same(a * b, m * n)
    BY <1>1, SameProduct
  <2>2. ToWord(a * b) = ToWord(m * n)
    BY <1>1, <2>1, SameWord
  <2> QED
    BY <2>2 DEF MUL, ToWord
<1> QED
  BY <1>1, <1>2, Division

LEMMA ItIsItself == \A a \in Word : Same(a, a)
<1>1. \A a \in Int : a = a + 0 * Modulus
  BY Widths
<1> QED
  BY <1>1, WordIsInt DEF Same

LEMMA WideProducts ==
  ASSUME NEW a \in Word, NEW b \in Word
  PROVE  /\ Signed(MULH(a, b))   * Modulus + MUL(a, b) = Signed(a) * Signed(b)
         /\ Signed(MULHSU(a, b)) * Modulus + MUL(a, b) = Signed(a) * b
         /\ MULHU(a, b) * Modulus + MUL(a, b) = a * b
<1>1. /\ a \in 0 .. Modulus - 1 /\ b \in 0 .. Modulus - 1
      /\ a \in Int /\ b \in Int /\ Signed(a) \in Int /\ Signed(b) \in Int
      /\ Signed(a) \in -SignBit .. SignBit - 1 /\ Signed(b) \in -SignBit .. SignBit - 1
      /\ Same(a, a) /\ Same(b, b) /\ Same(a, Signed(a)) /\ Same(b, Signed(b))
  BY SignedType, WordIsInt, ItIsItself DEF Word
<1>2. Signed(b) \in -(Modulus - 1) .. Modulus - 1 /\ b \in -(Modulus - 1) .. Modulus - 1
  BY <1>1, Widths
<1>3. Signed(MULH(a, b)) * Modulus + MUL(a, b) = Signed(a) * Signed(b)
  <2>1. Signed(MULH(a, b)) = (Signed(a) * Signed(b)) \div Modulus
    BY <1>1, <1>2, HighRange, SignedOfWord DEF MULH
  <2> QED
    BY <1>1, <2>1, LowWord
<1>4. Signed(MULHSU(a, b)) * Modulus + MUL(a, b) = Signed(a) * b
  <2>1. Signed(MULHSU(a, b)) = (Signed(a) * b) \div Modulus
    BY <1>1, <1>2, HighRange, SignedOfWord DEF MULHSU
  <2> QED
    BY <1>1, <2>1, LowWord
<1>5. MULHU(a, b) * Modulus + MUL(a, b) = a * b
  <2>1. (a * b) \div Modulus \in Word
    <3>1. PICK q \in Int, r \in 0 .. Modulus - 1 : q = (a * b) \div Modulus /\ a * b = q * Modulus + r
      <4>1. a * b \in Int /\ Modulus \in Nat /\ Modulus > 0
        BY <1>1, Widths
      <4> QED
        BY <4>1, Division
    <3>2. 0 <= a * b /\ a * b <= a * Modulus /\ a * Modulus <= (Modulus - 1) * Modulus
      BY <1>1, Widths
    <3>3. q < Modulus
      <4>1. q >= Modulus => q * Modulus >= Modulus * Modulus
        BY Widths
      <4>2. (Modulus - 1) * Modulus < Modulus * Modulus
        BY Widths
      <4> QED
        BY <1>1, <3>1, <3>2, <4>1, <4>2, Widths
    <3>4. q >= 0
      <4>1. q <= -1 => q * Modulus <= -Modulus
        BY Widths
      <4> QED
        BY <1>1, <3>1, <3>2, <4>1, Widths
    <3> QED
      BY <3>1, <3>3, <3>4, Widths DEF Word
  <2>2. MULHU(a, b) = (a * b) \div Modulus
    BY <2>1, WordOfSigned DEF MULHU
  <2> QED
    BY <1>1, <2>2, LowWord
<1> QED
  BY <1>3, <1>4, <1>5

\* MUL with MULH, MULHSU or MULHU is the whole product, for every width and operand.
THEOREM ProductsAreWide == Spec => []WideProduct
<1>1. TypeOK => WideProduct
  <2> SUFFICES ASSUME TypeOK, NEW r \in Reg, NEW s \in Reg, NEW a, NEW b, a = x[r], b = x[s]
               PROVE  /\ Signed(MULH(a, b))   * Modulus + MUL(a, b) = Signed(a) * Signed(b)
                      /\ Signed(MULHSU(a, b)) * Modulus + MUL(a, b) = Signed(a) * b
                      /\ MULHU(a, b) * Modulus + MUL(a, b) = a * b
    BY DEF WideProduct
  <2>1. a \in Word /\ b \in Word
    BY DEF TypeOK
  <2> QED
    BY <2>1, WideProducts
<1> QED
  BY <1>1, AluTypeCorrect, PTL

-----------------------------------------------------------------------------
(* Extensions *)

\* A word of W bits is k bits above n others.
LEMMA FieldAtTheTop ==
  ASSUME NEW a \in Word, NEW k \in Nat, NEW n \in Nat, k > 0, k + n = W
  PROVE  /\ Sll(a, n) = (a % Pow2[k]) * Pow2[n]
         /\ Sll(a, n) \in Word
         /\ a % Pow2[k] \in 0 .. Pow2[k] - 1
         /\ Pow2[k] \in Nat /\ Pow2[k - 1] \in Nat /\ Pow2[n] \in Nat /\ Pow2[n] > 0
         /\ Modulus = Pow2[k] * Pow2[n] /\ SignBit = Pow2[k - 1] * Pow2[n]
<1>1. k - 1 \in Nat /\ (k - 1) + n = W - 1
  BY Widths
<1>2. PICK p \in Nat, q \in Nat, h \in Nat :
        p = Pow2[k] /\ q = Pow2[n] /\ h = Pow2[k - 1] /\ p > 0 /\ q > 0
  BY <1>1, Pow2Type
<1>3. Modulus = p * q /\ SignBit = h * q
  BY <1>1, <1>2, Pow2Sum DEF Modulus, SignBit
<1>4. PICK d \in Int, r \in 0 .. p - 1 : a = d * p + r /\ r = a % p
  BY <1>2, Division, WordIsInt
<1>5. r * q \in 0 .. Modulus - 1
  <2>1. 0 <= r * q /\ r * q <= (p - 1) * q /\ (p - 1) * q = p * q - q
    BY <1>2
  <2> QED
    BY <1>2, <1>3, <2>1, Widths
<1>6. Sll(a, n) = r * q
  <2>1. a * q = d * Modulus + r * q
    <3>1. a * q = (d * p) * q + r * q
      BY <1>2, <1>4
    <3>2. (d * p) * q = d * (p * q)
      BY <1>2
    <3> QED
      BY <1>3, <3>1, <3>2
  <2>2. (d * Modulus + r * q) % Modulus = r * q
    <3>1. PICK m \in 0 .. Modulus - 1 : m = r * q
      BY <1>5
    <3>2. Modulus \in Nat /\ Modulus > 0
      BY Widths
    <3>3. (d * Modulus + m) % Modulus = m
      BY <3>2, DivisionIsUnique
    <3> QED
      BY <3>1, <3>3
  <2> QED
    BY <1>2, <2>1, <2>2 DEF Sll, ToWord
<1> QED
  BY <1>2, <1>3, <1>4, <1>5, <1>6 DEF Word

LEMMA UpAndDown ==
  ASSUME NEW a \in Word, NEW k \in Nat, NEW n \in Nat, k > 0, k + n = W
  PROVE  /\ Srl(Sll(a, n), n) = ZeroExtend(a, k)
         /\ Sra(Sll(a, n), n) = SignExtend(a, k)
<1>1. PICK p \in Nat, q \in Nat, h \in Nat, r \in Nat :
        /\ p = Pow2[k] /\ q = Pow2[n] /\ h = Pow2[k - 1] /\ q > 0
        /\ r = a % p /\ Sll(a, n) = r * q /\ Modulus = p * q /\ SignBit = h * q
  BY FieldAtTheTop
<1>2. \A m \in Int : (m * q) \div q = m
  <2>1. SUFFICES ASSUME NEW m \in Int PROVE (m * q) \div q = m
    OBVIOUS
  <2>2. (m * q + 0) \div q = m
    BY <1>1, DivisionIsUnique
  <2>3. m * q + 0 = m * q
    BY <1>1
  <2> QED
    BY <2>2, <2>3
<1>3. Srl(Sll(a, n), n) = ZeroExtend(a, k)
  <2>1. (r * q) \div q = r
    BY <1>2
  <2> QED
    BY <1>1, <2>1 DEF Srl, ZeroExtend
<1>4. Signed(Sll(a, n)) = (IF r >= h THEN r - p ELSE r) * q
  <2>1. CASE r >= h
    <3>1. r * q >= h * q
      BY <1>1, <2>1
    <3>2. r * q - p * q = (r - p) * q
      BY <1>1
    <3> QED
      BY <1>1, <2>1, <3>1, <3>2 DEF Signed
  <2>2. CASE ~(r >= h)
    <3>1. r + 1 <= h
      BY <1>1, <2>2
    <3>2. (r + 1) * q <= h * q /\ (r + 1) * q = r * q + q
      BY <1>1, <3>1
    <3>3. ~(r * q >= h * q)
      BY <1>1, <3>2
    <3> QED
      BY <1>1, <2>2, <3>3 DEF Signed
  <2> QED
    BY <2>1, <2>2
<1>5. PICK m \in Int : m = IF r >= h THEN r - p ELSE r
  OBVIOUS
<1>6. Signed(Sll(a, n)) \div q = m
  BY <1>2, <1>4, <1>5
<1>7. SignExtend(a, k) = ToWord(m)
  BY <1>1, <1>5 DEF SignExtend
<1> QED
  BY <1>1, <1>3, <1>6, <1>7 DEF Sra

\* Shifting up and down again extends a byte or a half-word as the loads do.
THEOREM LoadsExtend == Spec => []ExtensionsAgree
<1>1. TypeOK => ExtensionsAgree
  <2> SUFFICES ASSUME TypeOK, NEW r \in Reg, NEW a, NEW byte, NEW half,
                      a = x[r], byte = W - W \div 4, half = W - W \div 2
               PROVE  /\ Sra(Sll(a, byte), byte) = LoadResult("LB", a)
                      /\ Sra(Sll(a, half), half) = LoadResult("LH", a)
                      /\ Srl(Sll(a, byte), byte) = LoadResult("LBU", a)
                      /\ Srl(Sll(a, half), half) = LoadResult("LHU", a)
    BY DEF ExtensionsAgree
  <2>1. a \in Word
    BY DEF TypeOK
  <2>2. PICK b \in Nat, h \in Nat : /\ b = W \div 4 /\ b > 0 /\ byte \in Nat /\ b + byte = W
                                    /\ h = W \div 2 /\ h > 0 /\ half \in Nat /\ h + half = W
    BY Parts, Widths
  <2>3. /\ Sra(Sll(a, byte), byte) = SignExtend(a, b) /\ Srl(Sll(a, byte), byte) = ZeroExtend(a, b)
        /\ Sra(Sll(a, half), half) = SignExtend(a, h) /\ Srl(Sll(a, half), half) = ZeroExtend(a, h)
    BY <2>1, <2>2, UpAndDown
  <2> QED
    BY <2>2, <2>3 DEF LoadResult
<1> QED
  BY <1>1, AluTypeCorrect, PTL

-----------------------------------------------------------------------------
(* Division *)

\* C++ division: the remainder is smaller than the divisor and has the dividend's sign.
LEMMA RemainderOf ==
  ASSUME NEW n \in Int, NEW d \in Int, d # 0
  PROVE  /\ Quotient(n, d) \in Int /\ Remainder(n, d) \in Int
         /\ Quotient(n, d) * d + Remainder(n, d) = n
         /\ Magnitude(Remainder(n, d)) < Magnitude(d)
         /\ Remainder(n, d) >= 0 <=> n >= 0 \/ Remainder(n, d) = 0
<1>1. PICK a \in Nat, b \in Nat : a = Magnitude(n) /\ b = Magnitude(d) /\ b > 0
  BY MagnitudeType
<1>2. PICK q \in Int, r \in 0 .. b - 1 : q = a \div b /\ a = q * b + r
  <2>1. a \in Int /\ b > 0
    BY <1>1
  <2>2. a \div b \in Int /\ a % b \in 0 .. b - 1 /\ a = (a \div b) * b + (a % b)
    BY <2>1, Division
  <2> QED
    BY <2>2
<1>3. Quotient(n, d) = IF (n < 0) = (d < 0) THEN q ELSE -q
  BY <1>1, <1>2 DEF Quotient
<1>4. Remainder(n, d) = n - d * Quotient(n, d)
  BY DEF Remainder
<1>5. Remainder(n, d) = IF n < 0 THEN -r ELSE r
  <2>0. PICK p \in Int : /\ p = q * b /\ a = p + r
                         /\ b * q = p /\ b * (-q) = -p /\ (-b) * q = -p /\ (-b) * (-q) = p
    BY <1>2
  <2>1. CASE n < 0 /\ d < 0
    <3>1. n = -a /\ d = -b /\ Quotient(n, d) = q
      BY <1>1, <1>3, <2>1 DEF Magnitude
    <3> QED
      BY <1>4, <2>0, <2>1, <3>1
  <2>2. CASE n < 0 /\ d > 0
    <3>1. n = -a /\ d = b /\ Quotient(n, d) = -q
      BY <1>1, <1>3, <2>2 DEF Magnitude
    <3> QED
      BY <1>4, <2>0, <2>2, <3>1
  <2>3. CASE n >= 0 /\ d < 0
    <3>1. n = a /\ d = -b /\ Quotient(n, d) = -q
      BY <1>1, <1>3, <2>3 DEF Magnitude
    <3> QED
      BY <1>4, <2>0, <2>3, <3>1
  <2>4. CASE n >= 0 /\ d > 0
    <3>1. n = a /\ d = b /\ Quotient(n, d) = q
      BY <1>1, <1>3, <2>4 DEF Magnitude
    <3> QED
      BY <1>4, <2>0, <2>4, <3>1
  <2> QED
    BY <2>1, <2>2, <2>3, <2>4
<1>6. Quotient(n, d) \in Int /\ Remainder(n, d) \in Int
  BY DivisionTypes
<1>7. Quotient(n, d) * d + Remainder(n, d) = n
  BY <1>4, <1>6
<1>8. Magnitude(Remainder(n, d)) < b
  BY <1>2, <1>5 DEF Magnitude
<1>9. Remainder(n, d) >= 0 <=> n >= 0 \/ Remainder(n, d) = 0
  BY <1>2, <1>5
<1> QED
  BY <1>1, <1>6, <1>7, <1>8, <1>9

LEMMA SameBack ==
  ASSUME NEW m \in Int, NEW n \in Int, Same(m, n)
  PROVE  Same(n, m)
<1>1. PICK k \in Int : m = n + k * Modulus
  BY DEF Same
<1>2. n = m + (0 - k) * Modulus /\ 0 - k \in Int
  BY <1>1, Widths
<1> QED
  BY <1>2 DEF Same

\* Words that stand for a quotient k, a divisor m and a remainder t give back the
\* dividend by MUL and ADD.
LEMMA PutBack ==
  ASSUME NEW a \in Word, NEW b \in Word, NEW q \in Word, NEW r \in Word,
         NEW k \in Int, NEW m \in Int, NEW t \in Int,
         Same(q, k), Same(b, m), Same(r, t), Same(a, k * m + t)
  PROVE  ADD(MUL(q, b), r) = a
<1>1. a \in Int /\ b \in Int /\ q \in Int /\ r \in Int /\ q * b \in Int /\ k * m \in Int /\ k * m + t \in Int
  BY WordIsInt
<1>2. MUL(q, b) \in Int /\ Same(MUL(q, b), q * b)
  BY <1>1, ToWordType, WordIsInt, ToWordSame DEF MUL
<1>3. Same(q * b, k * m)
  BY <1>1, SameProduct
<1>4. Same(MUL(q, b), k * m)
  BY <1>1, <1>2, <1>3, SameTrans
<1>5. MUL(q, b) + r \in Int /\ Same(MUL(q, b) + r, k * m + t)
  <2>1. PICK u \in Int, v \in Int : u = MUL(q, b) /\ v = k * m
    BY <1>1, <1>2
  <2>2. Same(u, v)
    BY <1>4, <2>1
  <2>3. Same(u + r, v + t)
    BY <1>1, <2>2, SameSum
  <2>4. u + r \in Int
    BY <1>1
  <2> QED
    BY <2>1, <2>3, <2>4
<1>6. Same(k * m + t, a)
  BY <1>1, SameBack
<1>7. Same(MUL(q, b) + r, a)
  BY <1>1, <1>5, <1>6, SameTrans
<1> QED
  BY <1>5, <1>7, ToWordUnique DEF ADD

LEMMA UnsignedDivision ==
  ASSUME NEW a \in Word, NEW b \in Word
  PROVE  /\ ADD(MUL(DIVU(a, b), b), REMU(a, b)) = a
         /\ b # 0 => REMU(a, b) < b
<1>1. a \in Int /\ b \in Int /\ b \in Nat /\ Same(a, a) /\ Same(b, b)
  BY WordIsInt, ItIsItself
<1>2. DIVU(a, b) \in Word /\ REMU(a, b) \in Word
  BY ArithmeticTypes
<1>3. DIVU(a, b) \in Int /\ REMU(a, b) \in Int
      /\ Same(DIVU(a, b), DIVU(a, b)) /\ Same(REMU(a, b), REMU(a, b))
  BY <1>2, WordIsInt, ItIsItself
<1>4. DIVU(a, b) * b + REMU(a, b) = a /\ (b # 0 => REMU(a, b) < b)
  <2>1. CASE b = 0
    BY <1>1, <1>3, <2>1 DEF REMU
  <2>2. CASE b # 0
    <3>1. b > 0 /\ DIVU(a, b) = a \div b /\ REMU(a, b) = a % b
      BY <1>1, <2>2 DEF DIVU, REMU
    <3>2. a % b \in 0 .. b - 1 /\ a = (a \div b) * b + (a % b)
      BY <1>1, <3>1, Division
    <3> QED
      BY <1>1, <3>1, <3>2
  <2> QED
    BY <2>1, <2>2
<1> QED
  BY <1>1, <1>2, <1>3, <1>4, PutBack

LEMMA SignedDivision ==
  ASSUME NEW a \in Word, NEW b \in Word
  PROVE  /\ ADD(MUL(DIV(a, b), b), REM(a, b)) = a
         /\ b # 0 => /\ Magnitude(Signed(REM(a, b))) < Magnitude(Signed(b))
                     /\ Signed(REM(a, b)) * Signed(a) >= 0
<1>1. PICK n \in Int, d \in Int : n = Signed(a) /\ d = Signed(b)
  BY SignedType
<1>2. /\ n \in -SignBit .. SignBit - 1 /\ d \in -SignBit .. SignBit - 1
      /\ Same(a, n) /\ Same(b, d) /\ SignBit \in Int /\ SignBit > 1 /\ Modulus = 2 * SignBit
  BY <1>1, SignedType, Widths
<1>3. DIV(a, b) \in Word /\ REM(a, b) \in Word /\ a \in Int /\ b \in Int
  BY ArithmeticTypes, WordIsInt
<1>4. CASE b = 0
  <2>1. REM(a, b) = a /\ d = 0
    BY <1>1, <1>2, <1>4 DEF REM, Signed
  <2>2. PICK q \in Int : q = DIV(a, b) /\ Same(DIV(a, b), q)
    BY <1>3, WordIsInt, ItIsItself
  <2>3. q * d + n = n
    BY <2>1
  <2>4. Same(a, q * d + n)
    BY <1>2, <2>3
  <2> QED
    BY <1>2, <1>3, <1>4, <2>1, <2>2, <2>4, PutBack
<1>5. CASE b # 0 /\ Overflows(a, b)
  <2>1. n = -SignBit /\ d = -1 /\ DIV(a, b) = a /\ REM(a, b) = 0
    BY <1>1, <1>5 DEF Overflows, DIV, REM
  <2>2. a = SignBit
    BY <1>1, <1>2, <1>3, <2>1, WordIsInt DEF Signed
  <2>3. n * d + 0 = a
    BY <1>2, <2>1, <2>2
  <2>4. Same(0, 0) /\ Same(a, a) /\ 0 \in Word
    BY BitsAreWords, ItIsItself
  <2>5. ADD(MUL(a, b), 0) = a
    BY <1>2, <2>3, <2>4, PutBack
  <2>6. Signed(0) = 0 /\ Magnitude(0) = 0 /\ Magnitude(d) = 1 /\ 0 * n = 0
    <3>1. Signed(0) = 0
      BY <1>2 DEF Signed
    <3>2. Magnitude(0) = 0 /\ Magnitude(d) = 1
      <4>1. d + 1 = 0
        BY <2>1
      <4> QED
        BY <4>1 DEF Magnitude
    <3>3. 0 * n = 0
      OBVIOUS
    <3> QED
      BY <3>1, <3>2, <3>3
  <2> QED
    BY <1>1, <2>1, <2>5, <2>6
<1>6. CASE b # 0 /\ ~Overflows(a, b)
  <2>1. d # 0
    BY <1>1, <1>6, NonZero
  <2>2. PICK q \in Int, r \in Int :
          /\ q = Quotient(n, d) /\ r = Remainder(n, d)
          /\ q * d + r = n /\ Magnitude(r) < Magnitude(d) /\ (r >= 0 <=> n >= 0 \/ r = 0)
    BY <2>1, RemainderOf
  <2>3. DIV(a, b) = ToWord(q) /\ REM(a, b) = ToWord(r)
    BY <1>1, <1>6, <2>2 DEF DIV, REM
  <2>4. Same(DIV(a, b), q) /\ Same(REM(a, b), r)
    BY <2>3, ToWordSame
  <2>5. ADD(MUL(DIV(a, b), b), REM(a, b)) = a
    <3>1. Same(a, q * d + r)
      BY <1>2, <2>2
    <3> QED
      BY <1>2, <1>3, <2>4, <3>1, PutBack
  <2>6. Signed(REM(a, b)) = r
    <3>1. r \in -SignBit .. SignBit - 1
      BY <1>2, <2>2 DEF Magnitude
    <3> QED
      BY <2>3, <3>1, SignedOfWord
  <2>7. r * n >= 0
    <3>1. CASE n >= 0
      BY <2>2, <3>1
    <3>2. CASE n < 0
      BY <2>2, <3>2
    <3> QED
      BY <3>1, <3>2
  <2> QED
    BY <1>1, <2>2, <2>5, <2>6, <2>7
<1> QED
  BY <1>4, <1>5, <1>6

\* Quotient and remainder belong together, for every width and all operands.
THEOREM DivisionsAreExact == Spec => []DivisionIdentity
<1>1. TypeOK => DivisionIdentity
  <2> SUFFICES ASSUME TypeOK, NEW r \in Reg, NEW s \in Reg, NEW a, NEW b, a = x[r], b = x[s]
               PROVE  /\ ADD(MUL(DIV(a, b), b), REM(a, b)) = a
                      /\ ADD(MUL(DIVU(a, b), b), REMU(a, b)) = a
                      /\ b # 0 => /\ REMU(a, b) < b
                                  /\ Magnitude(Signed(REM(a, b))) < Magnitude(Signed(b))
                                  /\ Signed(REM(a, b)) * Signed(a) >= 0
    BY DEF DivisionIdentity
  <2>1. a \in Word /\ b \in Word
    BY DEF TypeOK
  <2> QED
    BY <2>1, UnsignedDivision, SignedDivision
<1> QED
  BY <1>1, AluTypeCorrect, PTL
=============================================================================
