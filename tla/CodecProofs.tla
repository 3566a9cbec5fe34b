---------------------------- MODULE CodecProofs ----------------------------
(***************************************************************************)
(* Theorems about Codec, for every line, every operand that a line may have *)
(* and every halfword: a word is put together from fields, and read back    *)
(* field by field.                                                          *)
(***************************************************************************)
EXTENDS Codec, BinaryProofs, TLAPS

----------------------------------------------------------------------------
(* Fields of words                                                          *)

LEMMA Pow2Values ==
  /\ Pow2[1] = 2 /\ Pow2[2] = 4 /\ Pow2[3] = 8 /\ Pow2[4] = 16 /\ Pow2[5] = 32 /\ Pow2[6] = 64
  /\ Pow2[7] = 128 /\ Pow2[8] = 256 /\ Pow2[9] = 512 /\ Pow2[10] = 1024 /\ Pow2[11] = 2048
  /\ Pow2[12] = 4096
<1>1. /\ Pow2[0] = 1 /\ Pow2[0 + 1] = 2 * Pow2[0] /\ Pow2[1 + 1] = 2 * Pow2[1]
      /\ Pow2[2 + 1] = 2 * Pow2[2] /\ Pow2[3 + 1] = 2 * Pow2[3] /\ Pow2[4 + 1] = 2 * Pow2[4]
      /\ Pow2[5 + 1] = 2 * Pow2[5] /\ Pow2[6 + 1] = 2 * Pow2[6] /\ Pow2[7 + 1] = 2 * Pow2[7]
      /\ Pow2[8 + 1] = 2 * Pow2[8] /\ Pow2[9 + 1] = 2 * Pow2[9] /\ Pow2[10 + 1] = 2 * Pow2[10]
      /\ Pow2[11 + 1] = 2 * Pow2[11]
  BY Pow2Next
<1>2. /\ Pow2[1] = 2 /\ Pow2[2] = 4 /\ Pow2[3] = 8 /\ Pow2[4] = 16 /\ Pow2[5] = 32 /\ Pow2[6] = 64
      /\ Pow2[7] = 128 /\ Pow2[8] = 256 /\ Pow2[9] = 512 /\ Pow2[10] = 1024 /\ Pow2[11] = 2048
      /\ Pow2[12] = 4096
  BY <1>1
<1> QED
  BY <1>2

LEMMA Pow2Of20 == Pow2[20] = 1024 * 1024
<1>1. Pow2[10 + 10] = Pow2[10] * Pow2[10]
  BY Pow2Sum
<1>2. 10 + 10 = 20 /\ Pow2[10] = 1024
  BY Pow2Values
<1> QED
  BY <1>1, <1>2

\* Numbers of n bits.
Unsigned(n) == 0 .. Pow2[n] - 1

LEMMA PlaceIsShift ==
  ASSUME NEW n \in Nat, n <= 12, NEW v \in Unsigned(n), NEW at \in Int
  PROVE  /\ Place(v, at) = {k + at : k \in Bits(v, n)}
         /\ Place(v, at) \subseteq at .. at + n - 1
<1>1. Bits(v, 12) = Bits(v, n)
  BY ShortBits DEF Unsigned
<1>2. Bits(v, n) \subseteq 0 .. n - 1
  BY DEF Bits
<1> QED
  BY <1>1, <1>2 DEF Place

\* The bits of w from at to top are those of the field v.
Has(w, at, top, v) == w \cap (at..top) = Place(v, at)

\* A field is read back as it was placed.
LEMMA BitsOfPlace ==
  ASSUME NEW w, NEW n \in Nat, n <= 12, NEW v \in Unsigned(n), NEW at \in Int, NEW top \in Int,
         at + n = top + 1, Has(w, at, top, v)
  PROVE  Move(w, at, top, 0) = Bits(v, n)
<1>1. PICK b : b = Bits(v, n) /\ b \subseteq Int
  <2>1. Bits(v, n) \subseteq Int
    BY DEF Bits
  <2> QED
    BY <2>1
<1>2. Move(w, at, top, 0) = {k - at + 0 : k \in {j + at : j \in b}}
  BY <1>1, PlaceIsShift DEF Move, Has
<1>3. \A k \in b : (k + at) - at + 0 = k
  BY <1>1
<1>4. {k - at + 0 : k \in {j + at : j \in b}} = {(j + at) - at + 0 : j \in b}
  OBVIOUS
<1>5. {(j + at) - at + 0 : j \in b} = b
  BY <1>3
<1> QED
  BY <1>1, <1>2, <1>4, <1>5

LEMMA FieldOfPlace ==
  ASSUME NEW w, NEW n \in Nat, n <= 12, NEW v \in Unsigned(n), NEW at \in Int, NEW top \in Int,
         at + n = top + 1, Has(w, at, top, v)
  PROVE  Field(w, at, top) = v
<1>1. Move(w, at, top, 0) = Bits(v, n)
  BY BitsOfPlace
<1>2. top - at + 1 = n
  OBVIOUS
<1> QED
  BY <1>1, <1>2, NumberOfBits DEF Field, Unsigned

\* The bits of w from at to top are the bits x..y of imm.
Holds(w, at, top, imm, x, y) ==
  /\ at \in Int /\ top \in Int /\ x \in Int /\ y \in Int /\ top = at + y - x
  /\ w \cap (at..top) = Move(imm, x, y, at)

\* Bits that were moved are moved back.
LEMMA MoveBack ==
  ASSUME NEW w, NEW at, NEW top, NEW imm, NEW x, NEW y, Holds(w, at, top, imm, x, y)
  PROVE  Move(w, at, top, x) = imm \cap (x..y)
<1>1. Move(w, at, top, x) = {k - at + x : k \in {j - x + at : j \in imm \cap (x..y)}}
  BY DEF Move, Holds
<1>2. \A k \in imm \cap (x..y) : (k - x + at) - at + x = k
  BY DEF Holds
<1> QED
  BY <1>1, <1>2

LEMMA MoveRange ==
  ASSUME NEW w, NEW x \in Int, NEW y \in Int, NEW at \in Int
  PROVE  Move(w, x, y, at) \subseteq at .. at + y - x
BY DEF Move

----------------------------------------------------------------------------
(* Immediates                                                               *)

LEMMA LineBits ==
  ASSUME NEW v \in Int, NEW k \in Bit
  PROVE  k \in ToBits(v) <=> (k < 31 /\ (v \div Pow2[k]) % 2 = 1) \/ (k = 31 /\ v < 0)
BY DEF ToBits, Bits, Bit

\* Extending the sign of the lowest bits gives back a number that is in range.
LEMMA SignRestored ==
  ASSUME NEW m \in 0..30, NEW v \in Int, -Pow2[m] <= v, v < Pow2[m]
  PROVE  SignFrom(ToBits(v) \cap (0..m), m) = ToBits(v)
<1>1. \A k \in m..31 : k \in ToBits(v) <=> v < 0
  <2>1. SUFFICES ASSUME NEW k \in m..31 PROVE k \in ToBits(v) <=> v < 0
    OBVIOUS
  <2>2. k \in Bit /\ k \in Nat /\ m \in Nat /\ m <= k
    BY DEF Bit
  <2> QED
    BY <2>2, LineBits, SignBits
<1>2. ToBits(v) \subseteq 0..31
  BY DEF ToBits, Bits
<1> QED
  BY <1>1, <1>2 DEF SignFrom

LEMMA NumberRestored ==
  ASSUME NEW v \in Int, -Pow2[31] <= v, v < Pow2[31]
  PROVE  ToInt(ToBits(v)) = v
<1>1. CASE v >= 0
  <2>1. ToBits(v) = Bits(v, 31) /\ 31 \notin Bits(v, 31)
    BY <1>1 DEF ToBits, Bits
  <2>2. v \in 0 .. Pow2[31] - 1
    BY <1>1, Pow2Type
  <2> QED
    BY <2>1, <2>2, NumberOfBits DEF ToInt, ToNat
<1>2. CASE v < 0
  <2>1. -1 - v \in Int /\ -1 - v \in 0 .. Pow2[31] - 1
    BY <1>2, Pow2Type
  <2>2. \A k \in 0..30 : ((-1 - v) \div Pow2[k]) % 2 = 1 <=> ~((v \div Pow2[k]) % 2 = 1)
    BY Complement
  <2>3. Bit \ ToBits(v) = Bits(-1 - v, 31)
    BY <1>2, <2>2 DEF Bit, ToBits, Bits
  <2>4. ToNat(Bit \ ToBits(v)) = -1 - v
    BY <2>1, <2>3, NumberOfBits DEF ToNat
  <2>5. 31 \in ToBits(v)
    BY <1>2 DEF ToBits
  <2>6. -1 - (-1 - v) = v
    OBVIOUS
  <2> QED
    BY <2>4, <2>5, <2>6 DEF ToInt
<1> QED
  BY <1>1, <1>2

\* Every immediate that a format takes is far from the limits of a word.
LEMMA WordRestored ==
  ASSUME NEW v \in Int, -Pow2[20] <= v, v < Pow2[20]
  PROVE  ToInt(ToBits(v)) = v
<1>1. 20 \in Nat /\ 31 \in Nat /\ 20 <= 31
  OBVIOUS
<1>2. PICK p \in Nat, q \in Nat : p = Pow2[20] /\ q = Pow2[31] /\ p <= q
  BY <1>1, Pow2Grows, Pow2Type
<1>3. -Pow2[31] <= v /\ v < Pow2[31]
  BY <1>2
<1> QED
  BY <1>3, NumberRestored

----------------------------------------------------------------------------
(* The fields every format has, and what they leave of the word             *)

LEMMA PlaceRanges ==
  ASSUME NEW at \in Int
  PROVE  /\ \A v \in Unsigned(3) : Place(v, at) \subseteq at .. at + 2
         /\ \A v \in Unsigned(5) : Place(v, at) \subseteq at .. at + 4
         /\ \A v \in Unsigned(7) : Place(v, at) \subseteq at .. at + 6
         /\ \A v \in Unsigned(12) : Place(v, at) \subseteq at .. at + 11
<1>1. \A v \in Unsigned(3) : Place(v, at) \subseteq at .. at + 2
  <2>1. 3 \in Nat /\ 3 <= 12 /\ at + 3 - 1 = at + 2
    OBVIOUS
  <2> QED
    BY <2>1, PlaceIsShift
<1>2. \A v \in Unsigned(5) : Place(v, at) \subseteq at .. at + 4
  <2>1. 5 \in Nat /\ 5 <= 12 /\ at + 5 - 1 = at + 4
    OBVIOUS
  <2> QED
    BY <2>1, PlaceIsShift
<1>3. \A v \in Unsigned(7) : Place(v, at) \subseteq at .. at + 6
  <2>1. 7 \in Nat /\ 7 <= 12 /\ at + 7 - 1 = at + 6
    OBVIOUS
  <2> QED
    BY <2>1, PlaceIsShift
<1>4. \A v \in Unsigned(12) : Place(v, at) \subseteq at .. at + 11
  <2>1. 12 \in Nat /\ 12 <= 12 /\ at + 12 - 1 = at + 11
    OBVIOUS
  <2> QED
    BY <2>1, PlaceIsShift
<1> QED
  BY <1>1, <1>2, <1>3, <1>4

\* All that FieldOfPlace asks for, in one fact about w, at, top, n and v.
IsField(w, at, top, n, v) ==
  /\ n \in Nat /\ n <= 12 /\ v \in Unsigned(n)
  /\ at \in Int /\ top \in Int /\ at + n = top + 1
  /\ Has(w, at, top, v)

LEMMA IsFieldRead ==
  ASSUME NEW w, NEW at, NEW top, NEW n, NEW v, IsField(w, at, top, n, v)
  PROVE  Field(w, at, top) = v /\ Move(w, at, top, 0) = Bits(v, n)
BY FieldOfPlace, BitsOfPlace DEF IsField

LEMMA FieldsOfPlaces ==
  ASSUME NEW w, NEW v
  PROVE  /\ v \in Unsigned(7) /\ Has(w, 0, 6, v) => Field(w, 0, 6) = v
         /\ v \in Unsigned(5) /\ Has(w, 7, 11, v) => rd(w) = v
         /\ v \in Unsigned(3) /\ Has(w, 12, 14, v) => funct3(w) = v
         /\ v \in Unsigned(5) /\ Has(w, 15, 19, v) => rs1(w) = v
         /\ v \in Unsigned(5) /\ Has(w, 20, 24, v) => rs2(w) = v
         /\ v \in Unsigned(7) /\ Has(w, 25, 31, v) => funct7(w) = v
         /\ v \in Unsigned(12) /\ Has(w, 20, 31, v) => Field(w, 20, 31) = v
<1>1. v \in Unsigned(7) /\ Has(w, 0, 6, v) => Field(w, 0, 6) = v
  <2>1. SUFFICES ASSUME v \in Unsigned(7), Has(w, 0, 6, v) PROVE Field(w, 0, 6) = v
    OBVIOUS
  <2>2. 7 \in Nat /\ 7 <= 12 /\ 0 \in Int /\ 6 \in Int /\ 0 + 7 = 6 + 1
    OBVIOUS
  <2>3. IsField(w, 0, 6, 7, v)
    BY <2>1, <2>2 DEF IsField
  <2> QED
    BY <2>3, IsFieldRead
<1>2. v \in Unsigned(5) /\ Has(w, 7, 11, v) => rd(w) = v
  <2>1. SUFFICES ASSUME v \in Unsigned(5), Has(w, 7, 11, v) PROVE Field(w, 7, 11) = v
    BY DEF rd
  <2>2. 5 \in Nat /\ 5 <= 12 /\ 7 \in Int /\ 11 \in Int /\ 7 + 5 = 11 + 1
    OBVIOUS
  <2>3. IsField(w, 7, 11, 5, v)
    BY <2>1, <2>2 DEF IsField
  <2> QED
    BY <2>3, IsFieldRead
<1>3. v \in Unsigned(3) /\ Has(w, 12, 14, v) => funct3(w) = v
  <2>1. SUFFICES ASSUME v \in Unsigned(3), Has(w, 12, 14, v) PROVE Field(w, 12, 14) = v
    BY DEF funct3
  <2>2. 3 \in Nat /\ 3 <= 12 /\ 12 \in Int /\ 14 \in Int /\ 12 + 3 = 14 + 1
    OBVIOUS
  <2>3. IsField(w, 12, 14, 3, v)
    BY <2>1, <2>2 DEF IsField
  <2> QED
    BY <2>3, IsFieldRead
<1>4. v \in Unsigned(5) /\ Has(w, 15, 19, v) => rs1(w) = v
  <2>1. SUFFICES ASSUME v \in Unsigned(5), Has(w, 15, 19, v) PROVE Field(w, 15, 19) = v
    BY DEF rs1
  <2>2. 5 \in Nat /\ 5 <= 12 /\ 15 \in Int /\ 19 \in Int /\ 15 + 5 = 19 + 1
    OBVIOUS
  <2>3. IsField(w, 15, 19, 5, v)
    BY <2>1, <2>2 DEF IsField
  <2> QED
    BY <2>3, IsFieldRead
<1>5. v \in Unsigned(5) /\ Has(w, 20, 24, v) => rs2(w) = v
  <2>1. SUFFICES ASSUME v \in Unsigned(5), Has(w, 20, 24, v) PROVE Field(w, 20, 24) = v
    BY DEF rs2
  <2>2. 5 \in Nat /\ 5 <= 12 /\ 20 \in Int /\ 24 \in Int /\ 20 + 5 = 24 + 1
    OBVIOUS
  <2>3. IsField(w, 20, 24, 5, v)
    BY <2>1, <2>2 DEF IsField
  <2> QED
    BY <2>3, IsFieldRead
<1>6. v \in Unsigned(7) /\ Has(w, 25, 31, v) => funct7(w) = v
  <2>1. SUFFICES ASSUME v \in Unsigned(7), Has(w, 25, 31, v) PROVE Field(w, 25, 31) = v
    BY DEF funct7
  <2>2. 7 \in Nat /\ 7 <= 12 /\ 25 \in Int /\ 31 \in Int /\ 25 + 7 = 31 + 1
    OBVIOUS
  <2>3. IsField(w, 25, 31, 7, v)
    BY <2>1, <2>2 DEF IsField
  <2> QED
    BY <2>3, IsFieldRead
<1>7. v \in Unsigned(12) /\ Has(w, 20, 31, v) => Field(w, 20, 31) = v
  <2>1. SUFFICES ASSUME v \in Unsigned(12), Has(w, 20, 31, v) PROVE Field(w, 20, 31) = v
    OBVIOUS
  <2>2. 12 \in Nat /\ 12 <= 12 /\ 20 \in Int /\ 31 \in Int /\ 20 + 12 = 31 + 1
    OBVIOUS
  <2>3. IsField(w, 20, 31, 12, v)
    BY <2>1, <2>2 DEF IsField
  <2> QED
    BY <2>3, IsFieldRead
<1> QED
  BY <1>1, <1>2, <1>3, <1>4, <1>5, <1>6, <1>7

\* A part of a word that has an interval to itself.
LEMMA Part ==
  ASSUME NEW w, NEW p, NEW s, p \subseteq w, \A k \in w : k \in p <=> k \in s
  PROVE  w \cap s = p
OBVIOUS

\* Words with registers and function fields: the formats R, I, S, B and SYSTEM's.
Built(w, p25, p20, a, f, p7, opcode) ==
  /\ p25 \subseteq 25..31 /\ p20 \subseteq 20..24 /\ p7 \subseteq 7..11
  /\ a \in Unsigned(5) /\ f \in Unsigned(3) /\ opcode \in Unsigned(7)
  /\ w = p25 \cup p20 \cup Place(a, 15) \cup Place(f, 12) \cup p7 \cup Place(opcode, 0)

LEMMA Fields ==
  ASSUME NEW w, NEW p25, NEW p20, NEW a, NEW f, NEW p7, NEW opcode,
         Built(w, p25, p20, a, f, p7, opcode)
  PROVE  /\ w \subseteq Bit
         /\ rs1(w) = a /\ funct3(w) = f /\ Field(w, 0, 6) = opcode
         /\ w \cap (25..31) = p25 /\ w \cap (20..24) = p20 /\ w \cap (7..11) = p7
         /\ w \cap (20..31) = p25 \cup p20
         /\ \A v \in Unsigned(5) : p20 = Place(v, 20) => rs2(w) = v
         /\ \A v \in Unsigned(5) : p7 = Place(v, 7) => rd(w) = v
         /\ \A v \in Unsigned(7) : p25 = Place(v, 25) => funct7(w) = v
<1> USE DEF Built
<1>1. PICK p15 \in SUBSET (15..19), p12 \in SUBSET (12..14), p0 \in SUBSET (0..6) :
        p15 = Place(a, 15) /\ p12 = Place(f, 12) /\ p0 = Place(opcode, 0)
  <2>1. Place(a, 15) \subseteq 15..15 + 4
    BY PlaceRanges
  <2>2. Place(f, 12) \subseteq 12..12 + 2
    BY PlaceRanges
  <2>3. Place(opcode, 0) \subseteq 0..0 + 6
    BY PlaceRanges
  <2> QED
    BY <2>1, <2>2, <2>3
<1>2. w = p25 \cup p20 \cup p15 \cup p12 \cup p7 \cup p0
  BY <1>1
<1>3. /\ w \subseteq Bit
      /\ w \cap (25..31) = p25 /\ w \cap (20..24) = p20 /\ w \cap (15..19) = p15
      /\ w \cap (12..14) = p12 /\ w \cap (7..11) = p7 /\ w \cap (0..6) = p0
      /\ w \cap (20..31) = p25 \cup p20
  <2>1. w \subseteq Bit
    <3>1. \A k \in w : k \in 0..31
      BY <1>2
    <3> QED
      BY <3>1 DEF Bit
  <2>2. /\ p25 \subseteq w /\ p20 \subseteq w /\ p15 \subseteq w /\ p12 \subseteq w /\ p7 \subseteq w
        /\ p0 \subseteq w /\ p25 \cup p20 \subseteq w
    BY <1>2
  <2>3. \A k \in w : k \in p25 <=> k \in 25..31
    BY <1>2
  <2>4. \A k \in w : k \in p20 <=> k \in 20..24
    BY <1>2
  <2>5. \A k \in w : k \in p15 <=> k \in 15..19
    BY <1>2
  <2>6. \A k \in w : k \in p12 <=> k \in 12..14
    BY <1>2
  <2>7. \A k \in w : k \in p7 <=> k \in 7..11
    BY <1>2
  <2>8. \A k \in w : k \in p0 <=> k \in 0..6
    BY <1>2
  <2>9. \A k \in w : k \in p25 \cup p20 <=> k \in 20..31
    BY <1>2
  <2> QED
    BY <2>1, <2>2, <2>3, <2>4, <2>5, <2>6, <2>7, <2>8, <2>9, Part
<1>4. rs1(w) = a /\ funct3(w) = f /\ Field(w, 0, 6) = opcode
  BY <1>1, <1>3, FieldsOfPlaces DEF Has
<1>5. /\ \A v \in Unsigned(5) : p20 = Place(v, 20) => rs2(w) = v
      /\ \A v \in Unsigned(5) : p7 = Place(v, 7) => rd(w) = v
      /\ \A v \in Unsigned(7) : p25 = Place(v, 25) => funct7(w) = v
  BY <1>3, FieldsOfPlaces DEF Has
<1> QED
  BY <1>3, <1>4, <1>5

----------------------------------------------------------------------------
(* Mnemonics                                                                *)

\* The dispatchers' case labels are those the assembler's tables give, and no
\* two instructions of a dispatcher have the same.
LEMMA RLabels == \A op \in DOMAIN RMnemonics : Labelled(RDescriptions, RMnemonics[op]) = {op}
BY DEF Labelled, RDescriptions, RMnemonics

LEMMA AmoLabels ==
  /\ \A op \in DOMAIN AmoMnemonics : Labelled(AtomicDescriptions, <<2, AmoMnemonics[op]>>) = {op}
  /\ Labelled(AtomicDescriptions, <<2, 2>>) = {"lr"}
BY DEF Labelled, AtomicDescriptions, AmoMnemonics

LEMMA BLabels == \A op \in DOMAIN BMnemonics : Labelled(BDescriptions, BMnemonics[op]) = {op}
BY DEF Labelled, BDescriptions, BMnemonics

LEMMA ILabels ==
  \A op \in DOMAIN IMnemonics :
    /\ Labelled(ArithmeticDescriptions, IMnemonics[op]) = {op}
    /\ \A bit30 : Labelled(ShiftDescriptions, <<IMnemonics[op], bit30>>) = {}
BY DEF Labelled, ArithmeticDescriptions, ShiftDescriptions, IMnemonics

LEMMA ShiftLabels ==
  \A op \in DOMAIN ShiftMnemonics :
    /\ Labelled(ArithmeticDescriptions, ShiftMnemonics[op][1]) = {}
    /\ Labelled(ShiftDescriptions,
                <<ShiftMnemonics[op][1], IF ShiftMnemonics[op][2] = 32 THEN 1 ELSE 0>>) = {op}
BY DEF Labelled, ArithmeticDescriptions, ShiftDescriptions, ShiftMnemonics

LEMMA LoadLabels ==
  \A op \in DOMAIN LoadMnemonics :
    \/ op = "jalr" /\ LoadMnemonics[op] = <<0, 103>>
    \/ op # "jalr" /\ LoadMnemonics[op][2] = 3
                   /\ Labelled(LoadDescriptions, LoadMnemonics[op][1]) = {op}
BY DEF Labelled, LoadDescriptions, LoadMnemonics

LEMMA SLabels == \A op \in DOMAIN SMnemonics : Labelled(SDescriptions, SMnemonics[op]) = {op}
BY DEF Labelled, SDescriptions, SMnemonics

LEMMA CsrLabels ==
  /\ \A op \in DOMAIN CsrRegMnemonics :
       CsrRegMnemonics[op] # 0 /\ Labelled(CsrDescriptions, CsrRegMnemonics[op]) = {op}
  /\ \A op \in DOMAIN CsrImmMnemonics :
       CsrImmMnemonics[op] # 0 /\ Labelled(CsrDescriptions, CsrImmMnemonics[op]) = {op}
BY DEF Labelled, CsrDescriptions, CsrRegMnemonics, CsrImmMnemonics

LEMMA SystemLabels ==
  \A op \in DOMAIN ZeroOperandMnemonics :
    Labelled(SystemDescriptions, ZeroOperandMnemonics[op]) = {op}
BY DEF Labelled, SystemDescriptions, ZeroOperandMnemonics

\* The codes fit the fields they are put in.
LEMMA SmallNumbers ==
  ASSUME NEW n \in Int, 0 <= n
  PROVE  /\ n < 8 => n \in Unsigned(3)
         /\ n < 32 => n \in Unsigned(5)
         /\ n < 128 => n \in Unsigned(7)
         /\ n < 4096 => n \in Unsigned(12)
BY Pow2Values DEF Unsigned

LEMMA Opcodes ==
  /\ 51 \in Unsigned(7) /\ 47 \in Unsigned(7) /\ 99 \in Unsigned(7) /\ 19 \in Unsigned(7)
  /\ 3 \in Unsigned(7) /\ 103 \in Unsigned(7) /\ 111 \in Unsigned(7) /\ 35 \in Unsigned(7)
  /\ 115 \in Unsigned(7) /\ 55 \in Unsigned(7) /\ 23 \in Unsigned(7)
  /\ 0 \in Unsigned(3) /\ 2 \in Unsigned(3)
  /\ 0 \in Unsigned(5) /\ 8 \in Unsigned(7) /\ 9 \in Unsigned(7)
BY SmallNumbers

LEMMA RegistersFit ==
  ASSUME NEW r, validateRegister(r)
  PROVE  r \in Unsigned(5)
BY SmallNumbers DEF validateRegister

LEMMA RCodes ==
  /\ \A op \in DOMAIN RMnemonics :
       RMnemonics[op][1] \in Unsigned(3) /\ RMnemonics[op][2] \in Unsigned(7)
  /\ \A op \in DOMAIN RMnemonics : RMnemonics[op] = <<RMnemonics[op][1], RMnemonics[op][2]>>
<1>1. \A op \in DOMAIN RMnemonics :
        /\ RMnemonics[op][1] \in Int /\ 0 <= RMnemonics[op][1] /\ RMnemonics[op][1] < 8
        /\ RMnemonics[op][2] \in Int /\ 0 <= RMnemonics[op][2] /\ RMnemonics[op][2] < 128
  BY DEF RMnemonics
<1>2. \A op \in DOMAIN RMnemonics : RMnemonics[op] = <<RMnemonics[op][1], RMnemonics[op][2]>>
  BY DEF RMnemonics
<1> QED
  BY <1>1, <1>2, SmallNumbers

LEMMA AmoCodes ==
  \A op \in DOMAIN AmoMnemonics :
    AmoMnemonics[op] * 4 \in Unsigned(7) /\ (AmoMnemonics[op] * 4) \div 4 = AmoMnemonics[op]
<1>1. \A op \in DOMAIN AmoMnemonics :
        AmoMnemonics[op] \in Int /\ 0 <= AmoMnemonics[op] /\ AmoMnemonics[op] < 32
  BY DEF AmoMnemonics
<1>2. \A n \in Int : 0 <= n /\ n < 32 => n * 4 \in Unsigned(7) /\ (n * 4) \div 4 = n
  BY SmallNumbers
<1> QED
  BY <1>1, <1>2

LEMMA OtherCodes ==
  /\ \A op \in DOMAIN BMnemonics : BMnemonics[op] \in Unsigned(3)
  /\ \A op \in DOMAIN IMnemonics : IMnemonics[op] \in Unsigned(3)
  /\ \A op \in DOMAIN ShiftMnemonics :
       ShiftMnemonics[op][1] \in Unsigned(3) /\ ShiftMnemonics[op][2] \in {0, 32}
  /\ \A op \in DOMAIN LoadMnemonics : LoadMnemonics[op][1] \in Unsigned(3)
  /\ \A op \in DOMAIN SMnemonics : SMnemonics[op] \in Unsigned(3)
  /\ \A op \in DOMAIN CsrRegMnemonics : CsrRegMnemonics[op] \in Unsigned(3)
  /\ \A op \in DOMAIN CsrImmMnemonics : CsrImmMnemonics[op] \in Unsigned(3)
<1>1. /\ \A op \in DOMAIN BMnemonics :
           BMnemonics[op] \in Int /\ 0 <= BMnemonics[op] /\ BMnemonics[op] < 8
      /\ \A op \in DOMAIN IMnemonics :
           IMnemonics[op] \in Int /\ 0 <= IMnemonics[op] /\ IMnemonics[op] < 8
      /\ \A op \in DOMAIN SMnemonics :
           SMnemonics[op] \in Int /\ 0 <= SMnemonics[op] /\ SMnemonics[op] < 8
  BY DEF BMnemonics, IMnemonics, SMnemonics
<1>2. /\ \A op \in DOMAIN CsrRegMnemonics :
           /\ CsrRegMnemonics[op] \in Int
           /\ 0 <= CsrRegMnemonics[op] /\ CsrRegMnemonics[op] < 8
      /\ \A op \in DOMAIN CsrImmMnemonics :
           /\ CsrImmMnemonics[op] \in Int
           /\ 0 <= CsrImmMnemonics[op] /\ CsrImmMnemonics[op] < 8
  BY DEF CsrRegMnemonics, CsrImmMnemonics
<1>3. /\ \A op \in DOMAIN ShiftMnemonics :
           /\ ShiftMnemonics[op][1] \in Int
           /\ 0 <= ShiftMnemonics[op][1] /\ ShiftMnemonics[op][1] < 8
           /\ ShiftMnemonics[op][2] \in {0, 32}
      /\ \A op \in DOMAIN LoadMnemonics :
           /\ LoadMnemonics[op][1] \in Int
           /\ 0 <= LoadMnemonics[op][1] /\ LoadMnemonics[op][1] < 8
  BY DEF ShiftMnemonics, LoadMnemonics
<1> QED
  BY <1>1, <1>2, <1>3, SmallNumbers

----------------------------------------------------------------------------
(* The dispatchers                                                          *)

\* The one instruction a dispatcher finds is the one that is executed.
LEMMA Dispatch ==
  ASSUME NEW w, NEW i
  PROVE  /\ Field(w, 0, 6) = 51 /\ RType(w) = {i} => Decode(w) = i
         /\ Field(w, 0, 6) = 47 /\ Atomic(w) = {i} => Decode(w) = i
         /\ Field(w, 0, 6) = 99 /\ BType(w) = {i} => Decode(w) = i
         /\ Field(w, 0, 6) = 19 /\ Arithmetic(w) = {i} => Decode(w) = i
         /\ Field(w, 0, 6) = 3 /\ Load(w) = {i} => Decode(w) = i
         /\ Field(w, 0, 6) = 103 /\ Jalr(w) = {i} => Decode(w) = i
         /\ Field(w, 0, 6) = 111 /\ JType(w) = {i} => Decode(w) = i
         /\ Field(w, 0, 6) = 35 /\ SType(w) = {i} => Decode(w) = i
         /\ Field(w, 0, 6) = 115 /\ System(w) = {i} => Decode(w) = i
         /\ Field(w, 0, 6) = 55 /\ UType(w, "lui") = {i} => Decode(w) = i
         /\ Field(w, 0, 6) = 23 /\ UType(w, "auipc") = {i} => Decode(w) = i
<1>1. {i} # {} /\ (CHOOSE j \in {i} : TRUE) = i
  OBVIOUS
<1> QED
  BY <1>1 DEF Decode

----------------------------------------------------------------------------
(* What each encode function puts together is taken apart again             *)

LEMMA RFields ==
  ASSUME NEW funct7_, NEW b, NEW a, NEW f, NEW d, NEW opcode, NEW w,
         funct7_ \in Unsigned(7), b \in Unsigned(5), a \in Unsigned(5), f \in Unsigned(3),
         d \in Unsigned(5), opcode \in Unsigned(7),
         w = encodeRType(funct7_, b, a, f, d, opcode)
  PROVE  /\ w \subseteq Bit
         /\ Field(w, 0, 6) = opcode /\ rd(w) = d /\ funct3(w) = f /\ rs1(w) = a /\ rs2(w) = b
         /\ funct7(w) = funct7_
         /\ w \cap (25..31) = Place(funct7_, 25) /\ w \cap (20..24) = Place(b, 20)
<1>1. PICK p25 \in SUBSET (25..31), p20 \in SUBSET (20..24), p7 \in SUBSET (7..11) :
        p25 = Place(funct7_, 25) /\ p20 = Place(b, 20) /\ p7 = Place(d, 7)
  <2>1. Place(funct7_, 25) \subseteq 25..25 + 6
    BY PlaceRanges
  <2>2. Place(b, 20) \subseteq 20..20 + 4
    BY PlaceRanges
  <2>3. Place(d, 7) \subseteq 7..7 + 4
    BY PlaceRanges
  <2> QED
    BY <2>1, <2>2, <2>3
<1>2. Built(w, p25, p20, a, f, p7, opcode)
  BY <1>1 DEF encodeRType, Built
<1> QED
  BY <1>1, <1>2, Fields

\* A line's immediate that fits its format, and what is read back of it.
LEMMA IFields ==
  ASSUME NEW v \in Int, -2048 <= v, v <= 2047, NEW a, NEW f, NEW d, NEW opcode, NEW w,
         a \in Unsigned(5), f \in Unsigned(3), d \in Unsigned(5), opcode \in Unsigned(7),
         w = encodeIType(ToBits(v), a, f, d, opcode)
  PROVE  /\ w \subseteq Bit
         /\ Field(w, 0, 6) = opcode /\ rd(w) = d /\ funct3(w) = f /\ rs1(w) = a
         /\ ToInt(getImmI(w)) = v
<1>1. PICK imm : imm = ToBits(v)
  OBVIOUS
<1>2. PICK m \in SUBSET (20..31) : m = Move(imm, 0, 11, 20)
  <2>1. Move(imm, 0, 11, 20) \subseteq 20..20 + 11 - 0
    BY MoveRange
  <2> QED
    BY <2>1
<1> DEFINE p25 == m \cap (25..31)
           p20 == m \cap (20..24)
<1>3. PICK p7 \in SUBSET (7..11) : p7 = Place(d, 7)
  <2>1. Place(d, 7) \subseteq 7..7 + 4
    BY PlaceRanges
  <2> QED
    BY <2>1
<1>4. /\ w \subseteq Bit /\ w \cap (20..31) = Move(imm, 0, 11, 20)
      /\ Field(w, 0, 6) = opcode /\ rd(w) = d /\ funct3(w) = f /\ rs1(w) = a
  <2>1. m = p25 \cup p20
    BY <1>2, <1>3
  <2>2. p25 \subseteq 25..31 /\ p20 \subseteq 20..24
    OBVIOUS
  <2> HIDE DEF p25, p20
  <2>3. Built(w, p25, p20, a, f, p7, opcode)
    BY <1>1, <1>2, <1>3, <2>1, <2>2 DEF Built, encodeIType
  <2> QED
    BY <1>2, <1>3, <2>1, <2>3, Fields
<1>5. ToInt(getImmI(w)) = v
  <2>1. Move(w, 20, 31, 0) = imm \cap (0..11)
    <3>1. Holds(w, 20, 31, imm, 0, 11)
      BY <1>4 DEF Holds
    <3> QED
      BY <3>1, MoveBack
  <2>2. getImmI(w) = SignFrom(ToBits(v) \cap (0..11), 11)
    BY <1>1, <2>1 DEF getImmI
  <2>3. Pow2[11] = 2048 /\ 11 \in 0..30
    BY Pow2Values
  <2>4. getImmI(w) = ToBits(v)
    BY <2>2, <2>3, SignRestored
  <2>5. -Pow2[20] <= v /\ v < Pow2[20]
    BY Pow2Of20
  <2> QED
    BY <2>4, <2>5, WordRestored
<1> QED
  BY <1>4, <1>5

\* The bit that a branch and a jump leave out.
LEMMA EvenNumbers ==
  ASSUME NEW v \in Int, v % 2 = 0
  PROVE  0 \notin ToBits(v)
<1>1. Pow2[0] = 1
  BY Pow2Next
<1>2. 0 \in ToBits(v) => (v \div Pow2[0]) % 2 = 1
  BY LineBits DEF Bit
<1>3. v \div 1 = v
  OBVIOUS
<1> QED
  BY <1>1, <1>2, <1>3

LEMMA SFields ==
  ASSUME NEW v \in Int, -2048 <= v, v <= 2047, NEW a, NEW b, NEW f, NEW opcode, NEW w,
         a \in Unsigned(5), b \in Unsigned(5), f \in Unsigned(3), opcode \in Unsigned(7),
         w = encodeSType(ToBits(v), a, b, f, opcode)
  PROVE  /\ w \subseteq Bit
         /\ Field(w, 0, 6) = opcode /\ funct3(w) = f /\ rs1(w) = a /\ rs2(w) = b
         /\ ToInt(getImmS(w)) = v
<1>1. PICK imm : imm = ToBits(v)
  OBVIOUS
<1>2. PICK p25 \in SUBSET (25..31), p20 \in SUBSET (20..24), p7 \in SUBSET (7..11) :
        p25 = Move(imm, 5, 11, 25) /\ p20 = Place(b, 20) /\ p7 = Move(imm, 0, 4, 7)
  <2>1. Move(imm, 5, 11, 25) \subseteq 25..25 + 11 - 5
    BY MoveRange
  <2>2. Place(b, 20) \subseteq 20..20 + 4
    BY PlaceRanges
  <2>3. Move(imm, 0, 4, 7) \subseteq 7..7 + 4 - 0
    BY MoveRange
  <2> QED
    BY <2>1, <2>2, <2>3
<1>3. Built(w, p25, p20, a, f, p7, opcode)
  BY <1>1, <1>2 DEF encodeSType, Built
<1>4. /\ w \subseteq Bit /\ w \cap (25..31) = p25 /\ w \cap (7..11) = p7
      /\ Field(w, 0, 6) = opcode /\ funct3(w) = f /\ rs1(w) = a /\ rs2(w) = b
  BY <1>2, <1>3, Fields
<1>5. ToInt(getImmS(w)) = v
  <2>1. Move(w, 25, 31, 5) = imm \cap (5..11)
    <3>1. Holds(w, 25, 31, imm, 5, 11)
      BY <1>2, <1>4 DEF Holds
    <3> QED
      BY <3>1, MoveBack
  <2>2. Move(w, 7, 11, 0) = imm \cap (0..4)
    <3>1. Holds(w, 7, 11, imm, 0, 4)
      BY <1>2, <1>4 DEF Holds
    <3> QED
      BY <3>1, MoveBack
  <2>3. Move(w, 25, 31, 5) \cup Move(w, 7, 11, 0) = imm \cap (0..11)
    BY <2>1, <2>2
  <2>4. getImmS(w) = SignFrom(ToBits(v) \cap (0..11), 11)
    BY <1>1, <2>3 DEF getImmS
  <2>5. Pow2[11] = 2048 /\ 11 \in 0..30
    BY Pow2Values
  <2>6. getImmS(w) = ToBits(v)
    BY <2>4, <2>5, SignRestored
  <2>7. -Pow2[20] <= v /\ v < Pow2[20]
    BY Pow2Of20
  <2> QED
    BY <2>6, <2>7, WordRestored
<1> QED
  BY <1>4, <1>5

LEMMA TwoParts ==
  ASSUME NEW w, NEW m, NEW n, NEW s, NEW t, NEW both, w \cap both = m \cup n,
         m \subseteq s, n \subseteq t, s \cap t = {}, s \subseteq both, t \subseteq both
  PROVE  w \cap s = m /\ w \cap t = n
OBVIOUS

LEMMA BFields ==
  ASSUME NEW v \in Int, -4096 <= v, v <= 4094, v % 2 = 0,
         NEW a, NEW b, NEW f, NEW opcode, NEW w,
         a \in Unsigned(5), b \in Unsigned(5), f \in Unsigned(3), opcode \in Unsigned(7),
         w = encodeBType(ToBits(v), b, a, f, opcode)
  PROVE  /\ w \subseteq Bit
         /\ Field(w, 0, 6) = opcode /\ funct3(w) = f /\ rs1(w) = a /\ rs2(w) = b
         /\ ToInt(getImmB(w)) = v
<1>1. PICK imm : imm = ToBits(v)
  OBVIOUS
<1>2. PICK m31 \in SUBSET (31..31), m25 \in SUBSET (25..30), m8 \in SUBSET (8..11),
           m7 \in SUBSET (7..7), p20 \in SUBSET (20..24) :
        /\ m31 = Move(imm, 12, 12, 31) /\ m25 = Move(imm, 5, 10, 25)
        /\ m8 = Move(imm, 1, 4, 8) /\ m7 = Move(imm, 11, 11, 7) /\ p20 = Place(b, 20)
  <2>1. Move(imm, 12, 12, 31) \subseteq 31..31 + 12 - 12
    BY MoveRange
  <2>2. Move(imm, 5, 10, 25) \subseteq 25..25 + 10 - 5
    BY MoveRange
  <2>3. Move(imm, 1, 4, 8) \subseteq 8..8 + 4 - 1
    BY MoveRange
  <2>4. Move(imm, 11, 11, 7) \subseteq 7..7 + 11 - 11
    BY MoveRange
  <2>5. Place(b, 20) \subseteq 20..20 + 4
    BY PlaceRanges
  <2> QED
    BY <2>1, <2>2, <2>3, <2>4, <2>5
<1> DEFINE p25 == m31 \cup m25
           p7 == m8 \cup m7
<1>3. Built(w, p25, p20, a, f, p7, opcode)
  BY <1>1, <1>2 DEF encodeBType, Built
<1>4. /\ w \subseteq Bit /\ w \cap (25..31) = p25 /\ w \cap (7..11) = p7
      /\ Field(w, 0, 6) = opcode /\ funct3(w) = f /\ rs1(w) = a /\ rs2(w) = b
  <2> HIDE DEF p25, p7
  <2> QED
    BY <1>2, <1>3, Fields
<1>5. /\ w \cap (31..31) = m31 /\ w \cap (25..30) = m25
      /\ w \cap (8..11) = m8 /\ w \cap (7..7) = m7
  <2>1. w \cap (25..31) = m31 \cup m25 /\ w \cap (7..11) = m8 \cup m7
    BY <1>4
  <2>2. /\ m31 \subseteq 31..31 /\ m25 \subseteq 25..30 /\ m8 \subseteq 8..11 /\ m7 \subseteq 7..7
        /\ (31..31) \cap (25..30) = {} /\ 31..31 \subseteq 25..31 /\ 25..30 \subseteq 25..31
        /\ (8..11) \cap (7..7) = {} /\ 8..11 \subseteq 7..11 /\ 7..7 \subseteq 7..11
    OBVIOUS
  <2> QED
    BY <2>1, <2>2, TwoParts
<1>6. ToInt(getImmB(w)) = v
  <2>1. Move(w, 31, 31, 12) = imm \cap (12..12)
    <3>1. Holds(w, 31, 31, imm, 12, 12)
      BY <1>2, <1>5 DEF Holds
    <3> QED
      BY <3>1, MoveBack
  <2>2. Move(w, 7, 7, 11) = imm \cap (11..11)
    <3>1. Holds(w, 7, 7, imm, 11, 11)
      BY <1>2, <1>5 DEF Holds
    <3> QED
      BY <3>1, MoveBack
  <2>3. Move(w, 25, 30, 5) = imm \cap (5..10)
    <3>1. Holds(w, 25, 30, imm, 5, 10)
      BY <1>2, <1>5 DEF Holds
    <3> QED
      BY <3>1, MoveBack
  <2>4. Move(w, 8, 11, 1) = imm \cap (1..4)
    <3>1. Holds(w, 8, 11, imm, 1, 4)
      BY <1>2, <1>5 DEF Holds
    <3> QED
      BY <3>1, MoveBack
  <2> DEFINE parts == Move(w, 31, 31, 12) \cup Move(w, 7, 7, 11)
                        \cup Move(w, 25, 30, 5) \cup Move(w, 8, 11, 1)
  <2>6. getImmB(w) = SignFrom(ToBits(v) \cap (0..12), 12)
    <3>1. getImmB(w) = SignFrom(parts, 12)
      BY DEF getImmB
    <3>2. 0 \notin imm
      BY <1>1, EvenNumbers
    <3>3. parts = imm \cap (0..12)
      BY <2>1, <2>2, <2>3, <2>4, <3>2
    <3> HIDE DEF parts
    <3> QED
      BY <1>1, <3>1, <3>3
  <2>7. Pow2[12] = 4096 /\ 12 \in 0..30
    BY Pow2Values
  <2>8. getImmB(w) = ToBits(v)
    BY <2>6, <2>7, SignRestored
  <2>9. -Pow2[20] <= v /\ v < Pow2[20]
    BY Pow2Of20
  <2> QED
    BY <2>8, <2>9, WordRestored
<1> QED
  BY <1>4, <1>6

\* A word of two fields below bit 12 and of what is above them.
BuiltLow(w, high, d, opcode) ==
  /\ high \subseteq 12..31 /\ d \in Unsigned(5) /\ opcode \in Unsigned(7)
  /\ w = high \cup Place(d, 7) \cup Place(opcode, 0)

LEMMA LowFields ==
  ASSUME NEW w, NEW high, NEW d, NEW opcode, BuiltLow(w, high, d, opcode)
  PROVE  /\ w \subseteq Bit /\ w \cap (12..31) = high
         /\ Field(w, 0, 6) = opcode /\ rd(w) = d
<1> USE DEF BuiltLow
<1>1. PICK p7 \in SUBSET (7..11), p0 \in SUBSET (0..6) : p7 = Place(d, 7) /\ p0 = Place(opcode, 0)
  <2>1. Place(d, 7) \subseteq 7..7 + 4
    BY PlaceRanges
  <2>2. Place(opcode, 0) \subseteq 0..0 + 6
    BY PlaceRanges
  <2> QED
    BY <2>1, <2>2
<1>2. w = high \cup p7 \cup p0
  BY <1>1
<1>3. w \subseteq Bit
  <2>1. \A k \in w : k \in 0..31
    BY <1>2
  <2> QED
    BY <2>1 DEF Bit
<1>4. w \cap (12..31) = high /\ w \cap (7..11) = p7 /\ w \cap (0..6) = p0
  <2>1. high \subseteq w /\ p7 \subseteq w /\ p0 \subseteq w
    BY <1>2
  <2>2. \A k \in w : k \in high <=> k \in 12..31
    BY <1>2
  <2>3. \A k \in w : k \in p7 <=> k \in 7..11
    BY <1>2
  <2>4. \A k \in w : k \in p0 <=> k \in 0..6
    BY <1>2
  <2> QED
    BY <2>1, <2>2, <2>3, <2>4, Part
<1> QED
  BY <1>1, <1>3, <1>4, FieldsOfPlaces DEF Has

LEMMA JFields ==
  ASSUME NEW v \in Int, -Pow2[20] <= v, v < Pow2[20], v % 2 = 0, NEW d, NEW opcode, NEW w,
         d \in Unsigned(5), opcode \in Unsigned(7), w = encodeJType(ToBits(v), d, opcode)
  PROVE  /\ w \subseteq Bit
         /\ Field(w, 0, 6) = opcode /\ rd(w) = d
         /\ ToInt(getImmJ(w)) = v
<1>1. PICK imm : imm = ToBits(v)
  OBVIOUS
<1>2. PICK m31 \in SUBSET (31..31), m21 \in SUBSET (21..30), m20 \in SUBSET (20..20),
           m12 \in SUBSET (12..19) :
        /\ m31 = Move(imm, 20, 20, 31) /\ m21 = Move(imm, 1, 10, 21)
        /\ m20 = Move(imm, 11, 11, 20) /\ m12 = Move(imm, 12, 19, 12)
  <2>1. Move(imm, 20, 20, 31) \subseteq 31..31 + 20 - 20
    BY MoveRange
  <2>2. Move(imm, 1, 10, 21) \subseteq 21..21 + 10 - 1
    BY MoveRange
  <2>3. Move(imm, 11, 11, 20) \subseteq 20..20 + 11 - 11
    BY MoveRange
  <2>4. Move(imm, 12, 19, 12) \subseteq 12..12 + 19 - 12
    BY MoveRange
  <2> QED
    BY <2>1, <2>2, <2>3, <2>4
<1> DEFINE m21_31 == m31 \cup m21
           m12_20 == m20 \cup m12
           high == m21_31 \cup m12_20
<1>3. w = high \cup Place(d, 7) \cup Place(opcode, 0)
  BY <1>1, <1>2 DEF encodeJType
<1>4. /\ w \subseteq Bit /\ w \cap (12..31) = high
      /\ Field(w, 0, 6) = opcode /\ rd(w) = d
  <2>1. high \subseteq 12..31
    OBVIOUS
  <2> HIDE DEF high
  <2>2. BuiltLow(w, high, d, opcode)
    BY <1>3, <2>1 DEF BuiltLow
  <2> QED
    BY <2>2, LowFields
<1>5. /\ w \cap (31..31) = m31 /\ w \cap (21..30) = m21
      /\ w \cap (20..20) = m20 /\ w \cap (12..19) = m12
  <2>1. w \cap (21..31) = m21_31 /\ w \cap (12..20) = m12_20
    <3>1. w \cap (12..31) = m21_31 \cup m12_20
      BY <1>4
    <3>2. /\ m21_31 \subseteq 21..31 /\ m12_20 \subseteq 12..20
          /\ (21..31) \cap (12..20) = {} /\ 21..31 \subseteq 12..31 /\ 12..20 \subseteq 12..31
      OBVIOUS
    <3> HIDE DEF m21_31, m12_20
    <3> QED
      BY <3>1, <3>2, TwoParts
  <2>2. /\ m31 \subseteq 31..31 /\ m21 \subseteq 21..30 /\ m20 \subseteq 20..20 /\ m12 \subseteq 12..19
        /\ (31..31) \cap (21..30) = {} /\ 31..31 \subseteq 21..31 /\ 21..30 \subseteq 21..31
        /\ (20..20) \cap (12..19) = {} /\ 20..20 \subseteq 12..20 /\ 12..19 \subseteq 12..20
    OBVIOUS
  <2> QED
    BY <2>1, <2>2, TwoParts
<1>6. ToInt(getImmJ(w)) = v
  <2>1. Move(w, 31, 31, 20) = imm \cap (20..20)
    <3>1. Holds(w, 31, 31, imm, 20, 20)
      BY <1>2, <1>5 DEF Holds
    <3> QED
      BY <3>1, MoveBack
  <2>2. Move(w, 12, 19, 12) = imm \cap (12..19)
    <3>1. Holds(w, 12, 19, imm, 12, 19)
      BY <1>2, <1>5 DEF Holds
    <3> QED
      BY <3>1, MoveBack
  <2>3. Move(w, 20, 20, 11) = imm \cap (11..11)
    <3>1. Holds(w, 20, 20, imm, 11, 11)
      BY <1>2, <1>5 DEF Holds
    <3> QED
      BY <3>1, MoveBack
  <2>4. Move(w, 21, 30, 1) = imm \cap (1..10)
    <3>1. Holds(w, 21, 30, imm, 1, 10)
      BY <1>2, <1>5 DEF Holds
    <3> QED
      BY <3>1, MoveBack
  <2> DEFINE parts == Move(w, 31, 31, 20) \cup Move(w, 12, 19, 12)
                        \cup Move(w, 20, 20, 11) \cup Move(w, 21, 30, 1)
  <2>5. getImmJ(w) = SignFrom(ToBits(v) \cap (0..20), 20)
    <3>1. getImmJ(w) = SignFrom(parts, 20)
      BY DEF getImmJ
    <3>2. 0 \notin imm
      BY <1>1, EvenNumbers
    <3>3. parts = imm \cap (0..20)
      BY <2>1, <2>2, <2>3, <2>4, <3>2
    <3> HIDE DEF parts
    <3> QED
      BY <1>1, <3>1, <3>3
  <2>6. -Pow2[20] <= v /\ v < Pow2[20] /\ 20 \in 0..30
    OBVIOUS
  <2>7. getImmJ(w) = ToBits(v)
    BY <2>5, <2>6, SignRestored
  <2> QED
    BY <2>6, <2>7, WordRestored
<1> QED
  BY <1>4, <1>6

LEMMA UFields ==
  ASSUME NEW v \in Int, NEW d, NEW opcode, NEW w, d \in Unsigned(5), opcode \in Unsigned(7),
         w = encodeUType(Move(ToBits(v), 0, 19, 12), d, opcode)
  PROVE  /\ w \subseteq Bit
         /\ Field(w, 0, 6) = opcode /\ rd(w) = d /\ Field(w, 12, 31) = v % Pow2[20]
<1>1. PICK imm : imm = ToBits(v)
  OBVIOUS
<1>2. PICK m \in SUBSET (12..31) : m = Move(imm, 0, 19, 12)
  <2>1. Move(imm, 0, 19, 12) \subseteq 12..12 + 19 - 0
    BY MoveRange
  <2> QED
    BY <2>1
<1> BuiltLow(w, m, d, opcode)
  BY <1>1, <1>2 DEF encodeUType, BuiltLow
<1>3. /\ w \subseteq Bit /\ w \cap (12..31) = m
      /\ Field(w, 0, 6) = opcode /\ rd(w) = d
  BY LowFields
<1>4. Move(w, 12, 31, 0) = imm \cap (0..19)
  <2>1. Holds(w, 12, 31, imm, 0, 19)
    BY <1>2, <1>3 DEF Holds
  <2> QED
    BY <2>1, MoveBack
<1>5. imm \cap (0..19) = Bits(v, 20)
  <2>1. \A k \in 0..19 : k \in imm <=> (v \div Pow2[k]) % 2 = 1
    BY <1>1, LineBits DEF Bit
  <2>2. 20 - 1 = 19
    OBVIOUS
  <2> QED
    BY <2>1, <2>2 DEF Bits
<1>6. Field(w, 12, 31) = v % Pow2[20]
  <2>1. Field(w, 12, 31) = Number(Bits(v, 20), 31 - 12 + 1)
    BY <1>4, <1>5 DEF Field
  <2>2. 31 - 12 + 1 = 20 /\ 20 \in Nat
    OBVIOUS
  <2> QED
    BY <2>1, <2>2, NumberOfLowBits
<1> QED
  BY <1>3, <1>6

\* A field that is read without its sign, as shift amounts and CSR numbers are.
LEMMA ShortNumber ==
  ASSUME NEW m \in Nat, m <= 31, NEW n \in Unsigned(m)
  PROVE  ToNat(Bits(n, m)) = n
<1>1. Bits(n, 31) = Bits(n, m)
  BY ShortBits DEF Unsigned
<1>2. n \in 0 .. Pow2[31] - 1
  <2>1. PICK p \in Nat, q \in Nat : p = Pow2[m] /\ q = Pow2[31] /\ p <= q
    BY Pow2Grows, Pow2Type
  <2> QED
    BY <2>1 DEF Unsigned
<1> QED
  BY <1>1, <1>2, NumberOfBits DEF ToNat

LEMMA LowImmediate ==
  ASSUME NEW w, NEW y \in Int, 0 <= y, y <= 11
  PROVE  Move(getImmI(w), 0, y, 0) = Move(w, 20, 20 + y, 0)
<1>1. PICK imm : imm = Move(w, 20, 31, 0) /\ imm \subseteq Int
  <2>1. Move(w, 20, 31, 0) \subseteq Int
    BY DEF Move
  <2> QED
    BY <2>1
<1>2. getImmI(w) \cap (0..y) = imm \cap (0..y)
  BY <1>1 DEF getImmI, SignFrom
<1>3. Move(getImmI(w), 0, y, 0) = {k - 0 + 0 : k \in imm \cap (0..y)}
  BY <1>2 DEF Move
<1>4. {k - 0 + 0 : k \in imm \cap (0..y)} = imm \cap (0..y)
  BY <1>1
<1>5. imm \cap (0..y) = Move(w, 20, 20 + y, 0)
  BY <1>1 DEF Move
<1> QED
  BY <1>3, <1>4, <1>5

LEMMA CsrFields ==
  ASSUME NEW n, NEW a, NEW f, NEW d, NEW w,
         n \in Unsigned(12), a \in Unsigned(5), f \in Unsigned(3), d \in Unsigned(5),
         w = encodeSystemType(n, a, f, d)
  PROVE  /\ w \subseteq Bit
         /\ Field(w, 0, 6) = 115 /\ rd(w) = d /\ funct3(w) = f /\ rs1(w) = a
         /\ ToNat(Move(getImmI(w), 0, 11, 0)) = n
<1>1. PICK m \in SUBSET (20..31) : m = Place(n, 20)
  <2>1. Place(n, 20) \subseteq 20..20 + 11
    BY PlaceRanges
  <2> QED
    BY <2>1
<1> DEFINE p25 == m \cap (25..31)
           p20 == m \cap (20..24)
<1>2. PICK p7 \in SUBSET (7..11) : p7 = Place(d, 7)
  <2>1. Place(d, 7) \subseteq 7..7 + 4
    BY PlaceRanges
  <2> QED
    BY <2>1
<1>3. /\ w \subseteq Bit /\ w \cap (20..31) = Place(n, 20)
      /\ Field(w, 0, 6) = 115 /\ rd(w) = d /\ funct3(w) = f /\ rs1(w) = a
  <2>1. m = p25 \cup p20
    BY <1>1
  <2>2. p25 \subseteq 25..31 /\ p20 \subseteq 20..24
    OBVIOUS
  <2> HIDE DEF p25, p20
  <2>3. Built(w, p25, p20, a, f, p7, 115)
    BY <1>1, <1>2, <2>1, <2>2, Opcodes DEF Built, encodeSystemType
  <2> QED
    BY <1>1, <1>2, <2>1, <2>3, Fields
<1>4. ToNat(Move(getImmI(w), 0, 11, 0)) = n
  <2>1. IsField(w, 20, 31, 12, n)
    BY <1>3 DEF IsField, Has
  <2>2. Move(w, 20, 31, 0) = Bits(n, 12)
    BY <2>1, IsFieldRead
  <2>3. Move(getImmI(w), 0, 11, 0) = Move(w, 20, 20 + 11, 0)
    BY LowImmediate
  <2>4. 20 + 11 = 31 /\ 12 \in Nat /\ 12 <= 31
    OBVIOUS
  <2> QED
    BY <2>2, <2>3, <2>4, ShortNumber
<1> QED
  BY <1>3, <1>4

LEMMA CodeBits ==
  /\ \A at \in Int : Place(0, at) = {}
  /\ Place(32, 25) = {30}
  /\ Place(770, 20) = {21, 28, 29} /\ Place(258, 20) = {21, 28} /\ Place(1, 20) = {20}
  /\ Place(24, 25) = {28, 29} /\ Place(8, 25) = {28}
  /\ Place(115, 0) = {0, 1, 4, 5, 6}
<1>1. \A k \in 0 .. 12 - 1 : k \in {0, 1, 2, 3, 4, 5, 6, 7, 8, 9, 10, 11}
  OBVIOUS
<1> DEFINE Value(k) == CASE k = 0 -> 1 [] k = 1 -> 2 [] k = 2 -> 4 [] k = 3 -> 8
                         [] k = 4 -> 16 [] k = 5 -> 32 [] k = 6 -> 64 [] k = 7 -> 128
                         [] k = 8 -> 256 [] k = 9 -> 512 [] k = 10 -> 1024 [] OTHER -> 2048
<1>2. \A k \in 0 .. 12 - 1 : Pow2[k] = Value(k)
  BY <1>1, Pow2Values, Pow2Next
<1>3. \A n : Bits(n, 12) = {k \in 0 .. 12 - 1 : (n \div Value(k)) % 2 = 1}
  BY <1>2 DEF Bits
<1>4. Bits(0, 12) = {}
  BY <1>1, <1>3
<1>5. Bits(32, 12) = {5}
  BY <1>1, <1>3
<1>6. Bits(770, 12) = {1, 8, 9}
  BY <1>1, <1>3
<1>7. Bits(258, 12) = {1, 8}
  BY <1>1, <1>3
<1>8. Bits(1, 12) = {0}
  BY <1>1, <1>3
<1>9. Bits(24, 12) = {3, 4}
  BY <1>1, <1>3
<1>10. Bits(8, 12) = {3}
  BY <1>1, <1>3
<1>11. Bits(115, 12) = {0, 1, 4, 5, 6}
  BY <1>1, <1>3
<1> QED
  BY <1>4, <1>5, <1>6, <1>7, <1>8, <1>9, <1>10, <1>11 DEF Place

LEMMA ShiftFields ==
  ASSUME NEW n, NEW a, NEW f, NEW d, NEW mark, NEW w,
         n \in Unsigned(5), a \in Unsigned(5), f \in Unsigned(3), d \in Unsigned(5),
         mark \in {0, 32}, w = encodeIShiftType(n, a, f, d, mark, 19)
  PROVE  /\ w \subseteq Bit
         /\ Field(w, 0, 6) = 19 /\ rd(w) = d /\ funct3(w) = f /\ rs1(w) = a
         /\ Field(w, 30, 30) = IF mark = 32 THEN 1 ELSE 0
         /\ ToNat(Move(getImmI(w), 0, 4, 0)) = n
<1>1. mark \in Unsigned(7) /\ w = encodeRType(mark, n, a, f, d, 19)
  BY SmallNumbers DEF encodeIShiftType
<1>2. /\ w \subseteq Bit
      /\ Field(w, 0, 6) = 19 /\ rd(w) = d /\ funct3(w) = f /\ rs1(w) = a
      /\ w \cap (25..31) = Place(mark, 25) /\ w \cap (20..24) = Place(n, 20)
  BY <1>1, RFields, Opcodes
<1>3. Field(w, 30, 30) = IF mark = 32 THEN 1 ELSE 0
  <2>1. 30 \in w <=> mark = 32
    <3>1. 30 \in w <=> 30 \in Place(mark, 25)
      BY <1>2
    <3>2. mark = 0 => Place(mark, 25) = {}
      BY CodeBits
    <3>3. mark = 32 => Place(mark, 25) = {30}
      BY CodeBits
    <3> QED
      BY <3>1, <3>2, <3>3
  <2>2. 0 \in Move(w, 30, 30, 0) <=> 30 \in w
    BY DEF Move
  <2>3. PICK b : b = Move(w, 30, 30, 0)
    OBVIOUS
  <2>4. Field(w, 30, 30) = Number(b, 0 + 1)
    BY <2>3 DEF Field
  <2>5. Number(b, 0) = 0 /\ Number(b, 0 + 1) = Number(b, 0) + (IF 0 \in b THEN Pow2[0] ELSE 0)
    BY NumberSteps
  <2> QED
    BY <2>1, <2>2, <2>3, <2>4, <2>5, Pow2Next
<1>4. ToNat(Move(getImmI(w), 0, 4, 0)) = n
  <2>2. IsField(w, 20, 24, 5, n)
    BY <1>2 DEF IsField, Has
  <2>3. Move(w, 20, 24, 0) = Bits(n, 5)
    BY <2>2, IsFieldRead
  <2>4. Move(getImmI(w), 0, 4, 0) = Move(w, 20, 20 + 4, 0)
    BY LowImmediate
  <2>5. 20 + 4 = 24 /\ 5 \in Nat /\ 5 <= 31
    OBVIOUS
  <2> QED
    BY <2>3, <2>4, <2>5, ShortNumber
<1> QED
  BY <1>2, <1>3, <1>4

LEMMA ZeroOperandFields ==
  ASSUME NEW n \in {0, 1, 770, 258}, NEW w, w = Place(115, 0) \cup Place(n, 20)
  PROVE  /\ w \subseteq Bit
         /\ Field(w, 0, 6) = 115 /\ funct3(w) = 0 /\ funct7(w) # 9 /\ Field(w, 20, 31) = n
<1>1. n \in Unsigned(12)
  BY SmallNumbers
<1>2. PICK m \in SUBSET (20..31) : m = Place(n, 20)
  <2>1. Place(n, 20) \subseteq 20..20 + 11
    BY <1>1, PlaceRanges
  <2> QED
    BY <2>1
<1>3. BuiltLow(w, m, 0, 115)
  <2>1. m \subseteq 12..31
    BY <1>2
  <2> QED
    BY <1>2, <2>1, CodeBits, Opcodes DEF BuiltLow
<1>4. w \subseteq Bit /\ w \cap (12..31) = m /\ Field(w, 0, 6) = 115
  BY <1>3, LowFields
<1>5. funct3(w) = 0
  <2>1. Has(w, 12, 14, 0)
    BY <1>2, <1>4, CodeBits DEF Has
  <2> QED
    BY <2>1, FieldsOfPlaces, Opcodes
<1>6. w \cap (20..31) = Place(n, 20)
  BY <1>2, <1>4
<1>7. Field(w, 20, 31) = n
  BY <1>1, <1>6, FieldsOfPlaces DEF Has
<1>8. funct7(w) # 9
  <2>1. PICK code \in {0, 24, 8} : w \cap (25..31) = Place(code, 25)
    <3>1. w \cap (25..31) = Place(n, 20) \cap (25..31)
      BY <1>6
    <3>2. CASE n = 0 \/ n = 1
      <4>1. Place(n, 20) \cap (25..31) = Place(0, 25)
        BY <3>2, CodeBits
      <4> QED
        BY <3>1, <4>1
    <3>3. CASE n = 770
      <4>1. Place(n, 20) \cap (25..31) = Place(24, 25)
        BY <3>3, CodeBits
      <4> QED
        BY <3>1, <4>1
    <3>4. CASE n = 258
      <4>1. Place(n, 20) \cap (25..31) = Place(8, 25)
        BY <3>4, CodeBits
      <4> QED
        BY <3>1, <4>1
    <3> QED
      BY <3>2, <3>3, <3>4
  <2>2. code \in Unsigned(7)
    BY SmallNumbers
  <2>3. Has(w, 25, 31, code)
    BY <2>1 DEF Has
  <2>4. funct7(w) = code
    BY <2>2, <2>3, FieldsOfPlaces
  <2> QED
    BY <2>4
<1> QED
  BY <1>4, <1>5, <1>7, <1>8

----------------------------------------------------------------------------
(* Each assemble function's word is executed as the line it was made of     *)

LEMMA ValidRegisters ==
  ASSUME NEW i, validateRegisters(i)
  PROVE  i.rd \in Unsigned(5) /\ i.rs1 \in Unsigned(5) /\ i.rs2 \in Unsigned(5)
BY RegistersFit DEF validateRegisters

LEMMA RWritten ==
  ASSUME NEW op \in DOMAIN RMnemonics, NEW d, NEW a, NEW b, NEW i, i = Instr(op, d, a, b, 0),
         NEW w, w = assembleRType(i), w # Refused
  PROVE  w \subseteq Bit /\ Decode(w) = i
<1>1. i.op = op /\ i.rd = d /\ i.rs1 = a /\ i.rs2 = b
  BY DEF Instr
<1>2. PICK f3, f7 : f3 = RMnemonics[op][1] /\ f7 = RMnemonics[op][2]
  OBVIOUS
<1>3. validateRegisters(i) /\ w = encodeRType(f7, b, a, f3, d, 51)
  BY <1>1, <1>2 DEF assembleRType
<1>4. /\ d \in Unsigned(5) /\ a \in Unsigned(5) /\ b \in Unsigned(5)
      /\ f3 \in Unsigned(3) /\ f7 \in Unsigned(7)
  BY <1>1, <1>2, <1>3, ValidRegisters, RCodes
<1>5. /\ w \subseteq Bit /\ Field(w, 0, 6) = 51
      /\ rd(w) = d /\ rs1(w) = a /\ rs2(w) = b /\ funct3(w) = f3 /\ funct7(w) = f7
  BY <1>3, <1>4, RFields, Opcodes
<1>6. Labelled(RDescriptions, <<funct3(w), funct7(w)>>) = {op}
  BY <1>2, <1>5, RLabels, RCodes
<1>7. RType(w) = {i}
  BY <1>5, <1>6 DEF RType
<1> QED
  BY <1>5, <1>7, Dispatch

LEMMA AmoWritten ==
  ASSUME NEW op \in DOMAIN AmoMnemonics, NEW d, NEW a, NEW b, NEW i, i = Instr(op, d, a, b, 0),
         NEW w, w = assembleAMOType(i), w # Refused
  PROVE  w \subseteq Bit /\ Decode(w) = i
<1>1. i.op = op /\ i.rd = d /\ i.rs1 = a /\ i.rs2 = b
  BY DEF Instr
<1>2. PICK f7 : f7 = AmoMnemonics[op] * 4
  OBVIOUS
<1>3. validateRegisters(i) /\ w = encodeRType(f7, b, a, 2, d, 47)
  BY <1>1, <1>2 DEF assembleAMOType
<1>4. /\ d \in Unsigned(5) /\ a \in Unsigned(5) /\ b \in Unsigned(5) /\ f7 \in Unsigned(7)
      /\ f7 \div 4 = AmoMnemonics[op]
  BY <1>1, <1>2, <1>3, ValidRegisters, AmoCodes
<1>5. /\ w \subseteq Bit /\ Field(w, 0, 6) = 47
      /\ rd(w) = d /\ rs1(w) = a /\ rs2(w) = b /\ funct3(w) = 2 /\ funct7(w) = f7
  BY <1>3, <1>4, RFields, Opcodes
<1>6. Labelled(AtomicDescriptions, <<funct3(w), funct7(w) \div 4>>) = {op}
  BY <1>4, <1>5, AmoLabels
<1>7. op # "lr"
  BY DEF AmoMnemonics
<1>8. Atomic(w) = {i}
  BY <1>5, <1>6, <1>7 DEF Atomic
<1> QED
  BY <1>5, <1>8, Dispatch

LEMMA LrWritten ==
  ASSUME NEW d, NEW a, NEW i, i = Instr("lr", d, a, 0, 0),
         NEW w, w = assembleLRType(i), w # Refused
  PROVE  w \subseteq Bit /\ Decode(w) = i
<1>1. i.rd = d /\ i.rs1 = a
  BY DEF Instr
<1>2. validateRegisters(i) /\ w = encodeRType(8, 0, a, 2, d, 47)
  BY <1>1 DEF assembleLRType
<1>3. d \in Unsigned(5) /\ a \in Unsigned(5)
  BY <1>1, <1>2, ValidRegisters
<1>4. /\ w \subseteq Bit /\ Field(w, 0, 6) = 47
      /\ rd(w) = d /\ rs1(w) = a /\ funct3(w) = 2 /\ funct7(w) = 8
  BY <1>2, <1>3, RFields, Opcodes
<1>5. Labelled(AtomicDescriptions, <<funct3(w), funct7(w) \div 4>>) = {"lr"}
  <2>1. 8 \div 4 = 2
    OBVIOUS
  <2> QED
    BY <1>4, <2>1, AmoLabels
<1>6. Atomic(w) = {i}
  BY <1>4, <1>5 DEF Atomic
<1> QED
  BY <1>4, <1>6, Dispatch

LEMMA BWritten ==
  ASSUME NEW op \in DOMAIN BMnemonics, NEW a, NEW b, NEW n \in Int, NEW i, i = Instr(op, 0, a, b, n),
         NEW w, w = assembleBType(i), w # Refused
  PROVE  w \subseteq Bit /\ Decode(w) = i
<1>1. i.op = op /\ i.rs1 = a /\ i.rs2 = b /\ i.imm = n
  BY DEF Instr
<1>2. PICK f : f = BMnemonics[op]
  OBVIOUS
<1>3. /\ validateRegisters(i) /\ n % 2 = 0 /\ -4096 <= n /\ n <= 4094
      /\ w = encodeBType(ToBits(n), b, a, f, 99)
  BY <1>1, <1>2 DEF assembleBType
<1>4. a \in Unsigned(5) /\ b \in Unsigned(5) /\ f \in Unsigned(3)
  BY <1>1, <1>2, <1>3, ValidRegisters, OtherCodes
<1>5. /\ w \subseteq Bit /\ Field(w, 0, 6) = 99
      /\ rs1(w) = a /\ rs2(w) = b /\ funct3(w) = f /\ ToInt(getImmB(w)) = n
  BY <1>3, <1>4, BFields, Opcodes
<1>6. BType(w) = {i}
  BY <1>2, <1>5, BLabels DEF BType
<1> QED
  BY <1>5, <1>6, Dispatch

LEMMA SWritten ==
  ASSUME NEW op \in DOMAIN SMnemonics, NEW a, NEW b, NEW n \in Int, NEW i, i = Instr(op, 0, a, b, n),
         NEW w, w = assembleSType(i), w # Refused
  PROVE  w \subseteq Bit /\ Decode(w) = i
<1>1. i.op = op /\ i.rs1 = a /\ i.rs2 = b /\ i.imm = n
  BY DEF Instr
<1>2. PICK f : f = SMnemonics[op]
  OBVIOUS
<1>3. /\ validateRegisters(i) /\ -2048 <= n /\ n <= 2047
      /\ w = encodeSType(ToBits(n), a, b, f, 35)
  BY <1>1, <1>2 DEF assembleSType
<1>4. a \in Unsigned(5) /\ b \in Unsigned(5) /\ f \in Unsigned(3)
  BY <1>1, <1>2, <1>3, ValidRegisters, OtherCodes
<1>5. /\ w \subseteq Bit /\ Field(w, 0, 6) = 35
      /\ rs1(w) = a /\ rs2(w) = b /\ funct3(w) = f /\ ToInt(getImmS(w)) = n
  BY <1>3, <1>4, SFields, Opcodes
<1>6. SType(w) = {i}
  BY <1>2, <1>5, SLabels DEF SType
<1> QED
  BY <1>5, <1>6, Dispatch

LEMMA JWritten ==
  ASSUME NEW d, NEW n \in Int, NEW i, i = Instr("jal", d, 0, 0, n),
         NEW w, w = assembleJType(i), w # Refused
  PROVE  w \subseteq Bit /\ Decode(w) = i
<1>1. i.rd = d /\ i.imm = n
  BY DEF Instr
<1>2. /\ validateRegisters(i) /\ n % 2 = 0 /\ -Pow2[20] <= n /\ n < Pow2[20]
      /\ w = encodeJType(ToBits(n), d, 111)
  BY <1>1, Pow2Of20, SMT DEF assembleJType
<1>3. d \in Unsigned(5)
  BY <1>1, <1>2, ValidRegisters
<1>4. /\ w \subseteq Bit /\ Field(w, 0, 6) = 111
      /\ rd(w) = d /\ ToInt(getImmJ(w)) = n
  BY <1>2, <1>3, JFields, Opcodes
<1>5. JType(w) = {i}
  BY <1>4 DEF JType
<1> QED
  BY <1>4, <1>5, Dispatch

\* lui and auipc: of the immediate 20 bits are kept.
LEMMA UWritten ==
  ASSUME NEW op \in DOMAIN UMnemonics, NEW d, NEW n \in Int, NEW i, i = Instr(op, d, 0, 0, n),
         NEW w, w = assembleUType(i), w # Refused
  PROVE  w \subseteq Bit /\ Decode(w) = Instr(op, d, 0, 0, n % Pow2[20])
<1>1. i.op = op /\ i.rd = d /\ i.imm = n
  BY DEF Instr
<1>2. PICK opcode : opcode = UMnemonics[op]
  OBVIOUS
<1>3. (op = "lui" /\ opcode = 55) \/ (op = "auipc" /\ opcode = 23)
  BY <1>2 DEF UMnemonics
<1>4. validateRegisters(i) /\ w = encodeUType(Move(ToBits(n), 0, 19, 12), d, opcode)
  BY <1>1, <1>2 DEF assembleUType
<1>5. d \in Unsigned(5) /\ opcode \in Unsigned(7)
  BY <1>1, <1>3, <1>4, ValidRegisters, Opcodes
<1>6. /\ w \subseteq Bit /\ Field(w, 0, 6) = opcode
      /\ rd(w) = d /\ Field(w, 12, 31) = n % Pow2[20]
  BY <1>4, <1>5, UFields
<1>7. UType(w, op) = {Instr(op, d, 0, 0, n % Pow2[20])}
  BY <1>6 DEF UType
<1> QED
  BY <1>3, <1>6, <1>7, Dispatch

LEMMA IWritten ==
  ASSUME NEW op \in DOMAIN IMnemonics, NEW d, NEW a, NEW n \in Int, NEW i, i = Instr(op, d, a, 0, n),
         NEW w, w = assembleIType(i), w # Refused
  PROVE  w \subseteq Bit /\ Decode(w) = i
<1>1. i.op = op /\ i.rd = d /\ i.rs1 = a /\ i.imm = n
  BY DEF Instr
<1>2. PICK f : f = IMnemonics[op]
  OBVIOUS
<1>3. /\ validateRegisters(i) /\ -2048 <= n /\ n <= 2047
      /\ w = encodeIType(ToBits(n), a, f, d, 19)
  BY <1>1, <1>2 DEF assembleIType
<1>4. d \in Unsigned(5) /\ a \in Unsigned(5) /\ f \in Unsigned(3)
  BY <1>1, <1>2, <1>3, ValidRegisters, OtherCodes
<1>5. /\ w \subseteq Bit /\ Field(w, 0, 6) = 19
      /\ rd(w) = d /\ rs1(w) = a /\ funct3(w) = f /\ ToInt(getImmI(w)) = n
  BY <1>3, <1>4, IFields, Opcodes
<1>6. /\ Labelled(ArithmeticDescriptions, funct3(w)) = {op}
      /\ Labelled(ShiftDescriptions, <<funct3(w), Field(w, 30, 30)>>) = {}
  BY <1>2, <1>5, ILabels
<1>7. Arithmetic(w) = {i}
  BY <1>5, <1>6 DEF Arithmetic
<1> QED
  BY <1>5, <1>7, Dispatch

LEMMA ShiftWritten ==
  ASSUME NEW op \in DOMAIN ShiftMnemonics, NEW d, NEW a, NEW n \in Int,
         NEW i, i = Instr(op, d, a, 0, n),
         NEW w, w = assembleIShiftType(i), w # Refused
  PROVE  w \subseteq Bit /\ Decode(w) = i
<1>1. i.op = op /\ i.rd = d /\ i.rs1 = a /\ i.imm = n
  BY DEF Instr
<1>2. PICK f, mark : f = ShiftMnemonics[op][1] /\ mark = ShiftMnemonics[op][2]
  OBVIOUS
<1>3. validateRegisters(i) /\ validateRegister(n) /\ w = encodeIShiftType(n, a, f, d, mark, 19)
  BY <1>1, <1>2 DEF assembleIShiftType, validateRegister
<1>4. /\ d \in Unsigned(5) /\ a \in Unsigned(5) /\ n \in Unsigned(5) /\ f \in Unsigned(3)
      /\ mark \in {0, 32}
  BY <1>1, <1>2, <1>3, ValidRegisters, RegistersFit, OtherCodes
<1>5. /\ w \subseteq Bit /\ Field(w, 0, 6) = 19
      /\ rd(w) = d /\ rs1(w) = a /\ funct3(w) = f
      /\ Field(w, 30, 30) = (IF mark = 32 THEN 1 ELSE 0)
      /\ ToNat(Move(getImmI(w), 0, 4, 0)) = n
  BY <1>3, <1>4, ShiftFields
<1>6. /\ Labelled(ArithmeticDescriptions, funct3(w)) = {}
      /\ Labelled(ShiftDescriptions, <<funct3(w), Field(w, 30, 30)>>) = {op}
  BY <1>2, <1>5, ShiftLabels
<1>7. Arithmetic(w) = {i}
  BY <1>5, <1>6 DEF Arithmetic
<1> QED
  BY <1>5, <1>7, Dispatch

LEMMA LoadWritten ==
  ASSUME NEW op \in DOMAIN LoadMnemonics, NEW d, NEW a, NEW n \in Int,
         NEW i, i = Instr(op, d, a, 0, n),
         NEW w, w = assembleILoadType(i), w # Refused
  PROVE  w \subseteq Bit /\ Decode(w) = i
<1>1. i.op = op /\ i.rd = d /\ i.rs1 = a /\ i.imm = n
  BY DEF Instr
<1>2. PICK f, opcode : f = LoadMnemonics[op][1] /\ opcode = LoadMnemonics[op][2]
  OBVIOUS
<1>3. /\ validateRegisters(i) /\ -2048 <= n /\ n <= 2047
      /\ w = encodeIType(ToBits(n), a, f, d, opcode)
  BY <1>1, <1>2 DEF assembleILoadType
<1>4. \/ op = "jalr" /\ opcode = 103
      \/ opcode = 3 /\ Labelled(LoadDescriptions, f) = {op}
  BY <1>2, LoadLabels
<1>5. d \in Unsigned(5) /\ a \in Unsigned(5) /\ f \in Unsigned(3) /\ opcode \in Unsigned(7)
  BY <1>1, <1>2, <1>3, <1>4, ValidRegisters, OtherCodes, Opcodes
<1>6. /\ w \subseteq Bit /\ Field(w, 0, 6) = opcode
      /\ rd(w) = d /\ rs1(w) = a /\ funct3(w) = f /\ ToInt(getImmI(w)) = n
  BY <1>3, <1>5, IFields
<1>7. CASE op = "jalr" /\ opcode = 103
  <2>1. Jalr(w) = {i}
    BY <1>6, <1>7 DEF Jalr
  <2> QED
    BY <1>6, <1>7, <2>1, Dispatch
<1>8. CASE opcode = 3 /\ Labelled(LoadDescriptions, f) = {op}
  <2>1. Load(w) = {i}
    BY <1>6, <1>8 DEF Load
  <2> QED
    BY <1>6, <1>8, <2>1, Dispatch
<1> QED
  BY <1>4, <1>7, <1>8

LEMMA CsrWritten ==
  ASSUME NEW op, NEW d \in Unsigned(5), NEW a \in Unsigned(5), NEW n \in Unsigned(12),
         NEW f \in Unsigned(3), f # 0, Labelled(CsrDescriptions, f) = {op},
         NEW w, w = encodeSystemType(n, a, f, d)
  PROVE  w \subseteq Bit /\ Decode(w) = Instr(op, d, a, 0, n)
<1>1. /\ w \subseteq Bit /\ Field(w, 0, 6) = 115
      /\ rd(w) = d /\ rs1(w) = a /\ funct3(w) = f /\ ToNat(Move(getImmI(w), 0, 11, 0)) = n
  BY CsrFields
<1>2. System(w) = {Instr(op, d, a, 0, n)}
  BY <1>1 DEF System
<1> QED
  BY <1>1, <1>2, Dispatch

LEMMA CsrRegWritten ==
  ASSUME NEW op \in DOMAIN CsrRegMnemonics, NEW d, NEW a, NEW n \in Int,
         NEW i, i = Instr(op, d, a, 0, n),
         NEW w, w = assembleCsrReg(i), w # Refused
  PROVE  w \subseteq Bit /\ Decode(w) = i
<1>1. i.op = op /\ i.rd = d /\ i.rs1 = a /\ i.imm = n
  BY DEF Instr
<1>2. PICK f : f = CsrRegMnemonics[op]
  OBVIOUS
<1>3. /\ validateRegisters(i) /\ 0 <= n /\ n < 4096
      /\ w = encodeSystemType(n, a, f, d)
  BY <1>1, <1>2 DEF assembleCsrReg, resolves
<1>4. d \in Unsigned(5) /\ a \in Unsigned(5) /\ n \in Unsigned(12) /\ f \in Unsigned(3)
  BY <1>1, <1>2, <1>3, ValidRegisters, SmallNumbers, OtherCodes
<1>5. f # 0 /\ Labelled(CsrDescriptions, f) = {op}
  BY <1>2, CsrLabels
<1> QED
  BY <1>3, <1>4, <1>5, CsrWritten

LEMMA CsrImmWritten ==
  ASSUME NEW op \in DOMAIN CsrImmMnemonics, NEW d, NEW a, NEW n \in Int,
         NEW i, i = Instr(op, d, a, 0, n),
         NEW w, w = assembleCsrImm(i), w # Refused
  PROVE  w \subseteq Bit /\ Decode(w) = i
<1>1. i.op = op /\ i.rd = d /\ i.rs1 = a /\ i.imm = n
  BY DEF Instr
<1>2. PICK f : f = CsrImmMnemonics[op]
  OBVIOUS
<1>3. /\ validateRegister(d) /\ validateRegister(a) /\ 0 <= n /\ n < 4096
      /\ w = encodeSystemType(n, a, f, d)
  BY <1>1, <1>2 DEF assembleCsrImm, resolves, validateRegister
<1>4. d \in Unsigned(5) /\ a \in Unsigned(5) /\ n \in Unsigned(12) /\ f \in Unsigned(3)
  BY <1>2, <1>3, RegistersFit, SmallNumbers, OtherCodes
<1>5. f # 0 /\ Labelled(CsrDescriptions, f) = {op}
  BY <1>2, CsrLabels
<1> QED
  BY <1>3, <1>4, <1>5, CsrWritten

LEMMA ZeroOperandWritten ==
  ASSUME NEW op \in DOMAIN ZeroOperandMnemonics, NEW i, i = Instr(op, 0, 0, 0, 0),
         NEW w, w = assembleZeroOperandSystemInstr(i)
  PROVE  w \subseteq Bit /\ Decode(w) = i
<1>1. i.op = op
  BY DEF Instr
<1>2. PICK n : n = ZeroOperandMnemonics[op]
  OBVIOUS
<1>3. n \in {0, 1, 770, 258} /\ w = Place(115, 0) \cup Place(n, 20)
  BY <1>1, <1>2 DEF assembleZeroOperandSystemInstr, ZeroOperandMnemonics
<1>4. /\ w \subseteq Bit /\ Field(w, 0, 6) = 115 /\ funct3(w) = 0 /\ funct7(w) # 9
      /\ Field(w, 20, 31) = n
  BY <1>3, ZeroOperandFields
<1>5. System(w) = {i}
  BY <1>2, <1>4, SystemLabels DEF System
<1> QED
  BY <1>4, <1>5, Dispatch

\* sfence.vma: its registers are not looked at.
LEMMA SfenceWritten ==
  ASSUME NEW a, NEW b, NEW i, i = Instr("sfence_vma", 0, a, b, 0),
         NEW w, w = assembleSfenceVma(i), w # Refused
  PROVE  w \subseteq Bit /\ Decode(w) = Instr("sfence_vma", 0, 0, 0, 0)
<1>1. i.rs1 = a /\ i.rs2 = b
  BY DEF Instr
<1>2. validateRegisters(i) /\ w = encodeRType(9, b, a, 0, 0, 115)
  BY <1>1 DEF assembleSfenceVma
<1>3. a \in Unsigned(5) /\ b \in Unsigned(5)
  BY <1>1, <1>2, ValidRegisters
<1>4. /\ w \subseteq Bit /\ Field(w, 0, 6) = 115 /\ funct3(w) = 0 /\ funct7(w) = 9
  BY <1>2, <1>3, RFields, Opcodes
<1>5. System(w) = {Instr("sfence_vma", 0, 0, 0, 0)}
  BY <1>4 DEF System
<1> QED
  BY <1>4, <1>5, Dispatch

----------------------------------------------------------------------------
(* Lines                                                                    *)

\* No mnemonic has two entries in instructionMap.
LEMMA AssembleOf ==
  ASSUME NEW i
  PROVE  /\ i.op \in DOMAIN RMnemonics => Assemble(i) = assembleRType(i)
         /\ i.op \in DOMAIN AmoMnemonics => Assemble(i) = assembleAMOType(i)
         /\ i.op = "lr" => Assemble(i) = assembleLRType(i)
         /\ i.op \in DOMAIN BMnemonics => Assemble(i) = assembleBType(i)
         /\ i.op = "jal" => Assemble(i) = assembleJType(i)
         /\ i.op \in DOMAIN UMnemonics => Assemble(i) = assembleUType(i)
         /\ i.op \in DOMAIN IMnemonics => Assemble(i) = assembleIType(i)
         /\ i.op \in DOMAIN ShiftMnemonics => Assemble(i) = assembleIShiftType(i)
         /\ i.op \in DOMAIN LoadMnemonics => Assemble(i) = assembleILoadType(i)
         /\ i.op \in DOMAIN SMnemonics => Assemble(i) = assembleSType(i)
         /\ i.op \in DOMAIN CsrRegMnemonics => Assemble(i) = assembleCsrReg(i)
         /\ i.op \in DOMAIN CsrImmMnemonics => Assemble(i) = assembleCsrImm(i)
         /\ i.op \in DOMAIN ZeroOperandMnemonics => Assemble(i) = assembleZeroOperandSystemInstr(i)
         /\ i.op = "sfence_vma" => Assemble(i) = assembleSfenceVma(i)
<1>1. i.op \in DOMAIN RMnemonics => Assemble(i) = assembleRType(i)
  <2>1. SUFFICES ASSUME i.op \in DOMAIN RMnemonics PROVE Assemble(i) = assembleRType(i)
    OBVIOUS
  <2>2. /\ i.op \notin DOMAIN AmoMnemonics /\ i.op # "lr"
        /\ i.op \notin DOMAIN BMnemonics /\ i.op # "jal"
        /\ i.op \notin DOMAIN UMnemonics /\ i.op \notin DOMAIN IMnemonics
        /\ i.op \notin DOMAIN ShiftMnemonics /\ i.op \notin DOMAIN LoadMnemonics
        /\ i.op \notin DOMAIN SMnemonics /\ i.op \notin DOMAIN CsrRegMnemonics
        /\ i.op \notin DOMAIN CsrImmMnemonics
        /\ i.op \notin DOMAIN ZeroOperandMnemonics /\ i.op # "sfence_vma"
    BY <2>1 DEF AmoMnemonics, BMnemonics, UMnemonics, IMnemonics, ShiftMnemonics,
      LoadMnemonics, SMnemonics, CsrRegMnemonics, CsrImmMnemonics,
      ZeroOperandMnemonics, RMnemonics
  <2> QED
    BY <2>1, <2>2 DEF Assemble
<1>2. i.op \in DOMAIN AmoMnemonics => Assemble(i) = assembleAMOType(i)
  <2>1. SUFFICES ASSUME i.op \in DOMAIN AmoMnemonics PROVE Assemble(i) = assembleAMOType(i)
    OBVIOUS
  <2>2. /\ i.op \notin DOMAIN RMnemonics /\ i.op # "lr"
        /\ i.op \notin DOMAIN BMnemonics /\ i.op # "jal"
        /\ i.op \notin DOMAIN UMnemonics /\ i.op \notin DOMAIN IMnemonics
        /\ i.op \notin DOMAIN ShiftMnemonics /\ i.op \notin DOMAIN LoadMnemonics
        /\ i.op \notin DOMAIN SMnemonics /\ i.op \notin DOMAIN CsrRegMnemonics
        /\ i.op \notin DOMAIN CsrImmMnemonics
        /\ i.op \notin DOMAIN ZeroOperandMnemonics /\ i.op # "sfence_vma"
    BY <2>1 DEF RMnemonics, BMnemonics, UMnemonics, IMnemonics, ShiftMnemonics,
      LoadMnemonics, SMnemonics, CsrRegMnemonics, CsrImmMnemonics,
      ZeroOperandMnemonics, AmoMnemonics
  <2> QED
    BY <2>1, <2>2 DEF Assemble
<1>3. i.op = "lr" => Assemble(i) = assembleLRType(i)
  <2>1. SUFFICES ASSUME i.op = "lr" PROVE Assemble(i) = assembleLRType(i)
    OBVIOUS
  <2>2. /\ i.op \notin DOMAIN RMnemonics /\ i.op \notin DOMAIN AmoMnemonics
        /\ i.op \notin DOMAIN BMnemonics /\ i.op # "jal"
        /\ i.op \notin DOMAIN UMnemonics /\ i.op \notin DOMAIN IMnemonics
        /\ i.op \notin DOMAIN ShiftMnemonics /\ i.op \notin DOMAIN LoadMnemonics
        /\ i.op \notin DOMAIN SMnemonics /\ i.op \notin DOMAIN CsrRegMnemonics
        /\ i.op \notin DOMAIN CsrImmMnemonics
        /\ i.op \notin DOMAIN ZeroOperandMnemonics /\ i.op # "sfence_vma"
    BY <2>1 DEF RMnemonics, AmoMnemonics, BMnemonics, UMnemonics, IMnemonics,
      ShiftMnemonics, LoadMnemonics, SMnemonics, CsrRegMnemonics,
      CsrImmMnemonics, ZeroOperandMnemonics
  <2> QED
    BY <2>1, <2>2 DEF Assemble
<1>4. i.op \in DOMAIN BMnemonics => Assemble(i) = assembleBType(i)
  <2>1. SUFFICES ASSUME i.op \in DOMAIN BMnemonics PROVE Assemble(i) = assembleBType(i)
    OBVIOUS
  <2>2. /\ i.op \notin DOMAIN RMnemonics /\ i.op \notin DOMAIN AmoMnemonics
        /\ i.op # "lr" /\ i.op # "jal" /\ i.op \notin DOMAIN UMnemonics
        /\ i.op \notin DOMAIN IMnemonics /\ i.op \notin DOMAIN ShiftMnemonics
        /\ i.op \notin DOMAIN LoadMnemonics /\ i.op \notin DOMAIN SMnemonics
        /\ i.op \notin DOMAIN CsrRegMnemonics /\ i.op \notin DOMAIN CsrImmMnemonics
        /\ i.op \notin DOMAIN ZeroOperandMnemonics /\ i.op # "sfence_vma"
    BY <2>1 DEF RMnemonics, AmoMnemonics, UMnemonics, IMnemonics, ShiftMnemonics,
      LoadMnemonics, SMnemonics, CsrRegMnemonics, CsrImmMnemonics,
      ZeroOperandMnemonics, BMnemonics
  <2> QED
    BY <2>1, <2>2 DEF Assemble
<1>5. i.op = "jal" => Assemble(i) = assembleJType(i)
  <2>1. SUFFICES ASSUME i.op = "jal" PROVE Assemble(i) = assembleJType(i)
    OBVIOUS
  <2>2. /\ i.op \notin DOMAIN RMnemonics /\ i.op \notin DOMAIN AmoMnemonics
        /\ i.op # "lr" /\ i.op \notin DOMAIN BMnemonics
        /\ i.op \notin DOMAIN UMnemonics /\ i.op \notin DOMAIN IMnemonics
        /\ i.op \notin DOMAIN ShiftMnemonics /\ i.op \notin DOMAIN LoadMnemonics
        /\ i.op \notin DOMAIN SMnemonics /\ i.op \notin DOMAIN CsrRegMnemonics
        /\ i.op \notin DOMAIN CsrImmMnemonics
        /\ i.op \notin DOMAIN ZeroOperandMnemonics /\ i.op # "sfence_vma"
    BY <2>1 DEF RMnemonics, AmoMnemonics, BMnemonics, UMnemonics, IMnemonics,
      ShiftMnemonics, LoadMnemonics, SMnemonics, CsrRegMnemonics,
      CsrImmMnemonics, ZeroOperandMnemonics
  <2> QED
    BY <2>1, <2>2 DEF Assemble
<1>6. i.op \in DOMAIN UMnemonics => Assemble(i) = assembleUType(i)
  <2>1. SUFFICES ASSUME i.op \in DOMAIN UMnemonics PROVE Assemble(i) = assembleUType(i)
    OBVIOUS
  <2>2. /\ i.op \notin DOMAIN RMnemonics /\ i.op \notin DOMAIN AmoMnemonics
        /\ i.op # "lr" /\ i.op \notin DOMAIN BMnemonics /\ i.op # "jal"
        /\ i.op \notin DOMAIN IMnemonics /\ i.op \notin DOMAIN ShiftMnemonics
        /\ i.op \notin DOMAIN LoadMnemonics /\ i.op \notin DOMAIN SMnemonics
        /\ i.op \notin DOMAIN CsrRegMnemonics /\ i.op \notin DOMAIN CsrImmMnemonics
        /\ i.op \notin DOMAIN ZeroOperandMnemonics /\ i.op # "sfence_vma"
    BY <2>1 DEF RMnemonics, AmoMnemonics, BMnemonics, IMnemonics, ShiftMnemonics,
      LoadMnemonics, SMnemonics, CsrRegMnemonics, CsrImmMnemonics,
      ZeroOperandMnemonics, UMnemonics
  <2> QED
    BY <2>1, <2>2 DEF Assemble
<1>7. i.op \in DOMAIN IMnemonics => Assemble(i) = assembleIType(i)
  <2>1. SUFFICES ASSUME i.op \in DOMAIN IMnemonics PROVE Assemble(i) = assembleIType(i)
    OBVIOUS
  <2>2. /\ i.op \notin DOMAIN RMnemonics /\ i.op \notin DOMAIN AmoMnemonics
        /\ i.op # "lr" /\ i.op \notin DOMAIN BMnemonics /\ i.op # "jal"
        /\ i.op \notin DOMAIN UMnemonics /\ i.op \notin DOMAIN ShiftMnemonics
        /\ i.op \notin DOMAIN LoadMnemonics /\ i.op \notin DOMAIN SMnemonics
        /\ i.op \notin DOMAIN CsrRegMnemonics /\ i.op \notin DOMAIN CsrImmMnemonics
        /\ i.op \notin DOMAIN ZeroOperandMnemonics /\ i.op # "sfence_vma"
    BY <2>1 DEF RMnemonics, AmoMnemonics, BMnemonics, UMnemonics, ShiftMnemonics,
      LoadMnemonics, SMnemonics, CsrRegMnemonics, CsrImmMnemonics,
      ZeroOperandMnemonics, IMnemonics
  <2> QED
    BY <2>1, <2>2 DEF Assemble
<1>8. i.op \in DOMAIN ShiftMnemonics => Assemble(i) = assembleIShiftType(i)
  <2>1. SUFFICES ASSUME i.op \in DOMAIN ShiftMnemonics PROVE Assemble(i) = assembleIShiftType(i)
    OBVIOUS
  <2>2. /\ i.op \notin DOMAIN RMnemonics /\ i.op \notin DOMAIN AmoMnemonics
        /\ i.op # "lr" /\ i.op \notin DOMAIN BMnemonics /\ i.op # "jal"
        /\ i.op \notin DOMAIN UMnemonics /\ i.op \notin DOMAIN IMnemonics
        /\ i.op \notin DOMAIN LoadMnemonics /\ i.op \notin DOMAIN SMnemonics
        /\ i.op \notin DOMAIN CsrRegMnemonics /\ i.op \notin DOMAIN CsrImmMnemonics
        /\ i.op \notin DOMAIN ZeroOperandMnemonics /\ i.op # "sfence_vma"
    BY <2>1 DEF RMnemonics, AmoMnemonics, BMnemonics, UMnemonics, IMnemonics,
      LoadMnemonics, SMnemonics, CsrRegMnemonics, CsrImmMnemonics,
      ZeroOperandMnemonics, ShiftMnemonics
  <2> QED
    BY <2>1, <2>2 DEF Assemble
<1>9. i.op \in DOMAIN LoadMnemonics => Assemble(i) = assembleILoadType(i)
  <2>1. SUFFICES ASSUME i.op \in DOMAIN LoadMnemonics PROVE Assemble(i) = assembleILoadType(i)
    OBVIOUS
  <2>2. /\ i.op \notin DOMAIN RMnemonics /\ i.op \notin DOMAIN AmoMnemonics
        /\ i.op # "lr" /\ i.op \notin DOMAIN BMnemonics /\ i.op # "jal"
        /\ i.op \notin DOMAIN UMnemonics /\ i.op \notin DOMAIN IMnemonics
        /\ i.op \notin DOMAIN ShiftMnemonics /\ i.op \notin DOMAIN SMnemonics
        /\ i.op \notin DOMAIN CsrRegMnemonics /\ i.op \notin DOMAIN CsrImmMnemonics
        /\ i.op \notin DOMAIN ZeroOperandMnemonics /\ i.op # "sfence_vma"
    BY <2>1 DEF RMnemonics, AmoMnemonics, BMnemonics, UMnemonics, IMnemonics,
      ShiftMnemonics, SMnemonics, CsrRegMnemonics, CsrImmMnemonics,
      ZeroOperandMnemonics, LoadMnemonics
  <2> QED
    BY <2>1, <2>2 DEF Assemble
<1>10. i.op \in DOMAIN SMnemonics => Assemble(i) = assembleSType(i)
  <2>1. SUFFICES ASSUME i.op \in DOMAIN SMnemonics PROVE Assemble(i) = assembleSType(i)
    OBVIOUS
  <2>2. /\ i.op \notin DOMAIN RMnemonics /\ i.op \notin DOMAIN AmoMnemonics
        /\ i.op # "lr" /\ i.op \notin DOMAIN BMnemonics /\ i.op # "jal"
        /\ i.op \notin DOMAIN UMnemonics /\ i.op \notin DOMAIN IMnemonics
        /\ i.op \notin DOMAIN ShiftMnemonics /\ i.op \notin DOMAIN LoadMnemonics
        /\ i.op \notin DOMAIN CsrRegMnemonics /\ i.op \notin DOMAIN CsrImmMnemonics
        /\ i.op \notin DOMAIN ZeroOperandMnemonics /\ i.op # "sfence_vma"
    BY <2>1 DEF RMnemonics, AmoMnemonics, BMnemonics, UMnemonics, IMnemonics,
      ShiftMnemonics, LoadMnemonics, CsrRegMnemonics, CsrImmMnemonics,
      ZeroOperandMnemonics, SMnemonics
  <2> QED
    BY <2>1, <2>2 DEF Assemble
<1>11. i.op \in DOMAIN CsrRegMnemonics => Assemble(i) = assembleCsrReg(i)
  <2>1. SUFFICES ASSUME i.op \in DOMAIN CsrRegMnemonics PROVE Assemble(i) = assembleCsrReg(i)
    OBVIOUS
  <2>2. /\ i.op \notin DOMAIN RMnemonics /\ i.op \notin DOMAIN AmoMnemonics
        /\ i.op # "lr" /\ i.op \notin DOMAIN BMnemonics /\ i.op # "jal"
        /\ i.op \notin DOMAIN UMnemonics /\ i.op \notin DOMAIN IMnemonics
        /\ i.op \notin DOMAIN ShiftMnemonics /\ i.op \notin DOMAIN LoadMnemonics
        /\ i.op \notin DOMAIN SMnemonics /\ i.op \notin DOMAIN CsrImmMnemonics
        /\ i.op \notin DOMAIN ZeroOperandMnemonics /\ i.op # "sfence_vma"
    BY <2>1 DEF RMnemonics, AmoMnemonics, BMnemonics, UMnemonics, IMnemonics,
      ShiftMnemonics, LoadMnemonics, SMnemonics, CsrImmMnemonics,
      ZeroOperandMnemonics, CsrRegMnemonics
  <2> QED
    BY <2>1, <2>2 DEF Assemble
<1>12. i.op \in DOMAIN CsrImmMnemonics => Assemble(i) = assembleCsrImm(i)
  <2>1. SUFFICES ASSUME i.op \in DOMAIN CsrImmMnemonics PROVE Assemble(i) = assembleCsrImm(i)
    OBVIOUS
  <2>2. /\ i.op \notin DOMAIN RMnemonics /\ i.op \notin DOMAIN AmoMnemonics
        /\ i.op # "lr" /\ i.op \notin DOMAIN BMnemonics /\ i.op # "jal"
        /\ i.op \notin DOMAIN UMnemonics /\ i.op \notin DOMAIN IMnemonics
        /\ i.op \notin DOMAIN ShiftMnemonics /\ i.op \notin DOMAIN LoadMnemonics
        /\ i.op \notin DOMAIN SMnemonics /\ i.op \notin DOMAIN CsrRegMnemonics
        /\ i.op \notin DOMAIN ZeroOperandMnemonics /\ i.op # "sfence_vma"
    BY <2>1 DEF RMnemonics, AmoMnemonics, BMnemonics, UMnemonics, IMnemonics,
      ShiftMnemonics, LoadMnemonics, SMnemonics, CsrRegMnemonics,
      ZeroOperandMnemonics, CsrImmMnemonics
  <2> QED
    BY <2>1, <2>2 DEF Assemble
<1>13. i.op \in DOMAIN ZeroOperandMnemonics => Assemble(i) = assembleZeroOperandSystemInstr(i)
  <2>1. SUFFICES ASSUME i.op \in DOMAIN ZeroOperandMnemonics
                 PROVE  Assemble(i) = assembleZeroOperandSystemInstr(i)
    OBVIOUS
  <2>2. /\ i.op \notin DOMAIN RMnemonics /\ i.op \notin DOMAIN AmoMnemonics
        /\ i.op # "lr" /\ i.op \notin DOMAIN BMnemonics /\ i.op # "jal"
        /\ i.op \notin DOMAIN UMnemonics /\ i.op \notin DOMAIN IMnemonics
        /\ i.op \notin DOMAIN ShiftMnemonics /\ i.op \notin DOMAIN LoadMnemonics
        /\ i.op \notin DOMAIN SMnemonics /\ i.op \notin DOMAIN CsrRegMnemonics
        /\ i.op \notin DOMAIN CsrImmMnemonics /\ i.op # "sfence_vma"
    BY <2>1 DEF RMnemonics, AmoMnemonics, BMnemonics, UMnemonics, IMnemonics,
      ShiftMnemonics, LoadMnemonics, SMnemonics, CsrRegMnemonics,
      CsrImmMnemonics, ZeroOperandMnemonics
  <2> QED
    BY <2>1, <2>2 DEF Assemble
<1>14. i.op = "sfence_vma" => Assemble(i) = assembleSfenceVma(i)
  <2>1. SUFFICES ASSUME i.op = "sfence_vma" PROVE Assemble(i) = assembleSfenceVma(i)
    OBVIOUS
  <2>2. /\ i.op \notin DOMAIN RMnemonics /\ i.op \notin DOMAIN AmoMnemonics
        /\ i.op # "lr" /\ i.op \notin DOMAIN BMnemonics /\ i.op # "jal"
        /\ i.op \notin DOMAIN UMnemonics /\ i.op \notin DOMAIN IMnemonics
        /\ i.op \notin DOMAIN ShiftMnemonics /\ i.op \notin DOMAIN LoadMnemonics
        /\ i.op \notin DOMAIN SMnemonics /\ i.op \notin DOMAIN CsrRegMnemonics
        /\ i.op \notin DOMAIN CsrImmMnemonics
        /\ i.op \notin DOMAIN ZeroOperandMnemonics
    BY <2>1 DEF RMnemonics, AmoMnemonics, BMnemonics, UMnemonics, IMnemonics,
      ShiftMnemonics, LoadMnemonics, SMnemonics, CsrRegMnemonics,
      CsrImmMnemonics, ZeroOperandMnemonics
  <2> QED
    BY <2>1, <2>2 DEF Assemble
<1> QED
  BY <1>1, <1>2, <1>3, <1>4, <1>5, <1>6, <1>7, <1>8, <1>9, <1>10, <1>11, <1>12, <1>13, <1>14

\* What is written is what is executed, unless it is refused.
Faithful(i) == Assemble(i) = Refused \/ (Assemble(i) \subseteq Bit /\ Decode(Assemble(i)) = Meaning(i))

\* Of the lines, only those of lui, auipc and sfence.vma lose anything.
LEMMA MeaningOf ==
  ASSUME NEW op, NEW d, NEW a, NEW b, NEW n
  PROVE  /\ op \notin {"lui", "auipc", "sfence_vma"} =>
              Meaning(Instr(op, d, a, b, n)) = Instr(op, d, a, b, n)
         /\ op \in {"lui", "auipc"} =>
              Meaning(Instr(op, d, a, b, n)) = Instr(op, d, a, b, n % Pow2[20])
         /\ Meaning(Instr("sfence_vma", d, a, b, n)) = Instr("sfence_vma", d, 0, 0, n)
<1>1. DOMAIN UMnemonics = {"lui", "auipc"}
  BY DEF UMnemonics
<1>2. op \notin {"lui", "auipc", "sfence_vma"} =>
        Meaning(Instr(op, d, a, b, n)) = Instr(op, d, a, b, n)
  BY <1>1 DEF Meaning, Instr
<1>3. op \in {"lui", "auipc"} =>
        Meaning(Instr(op, d, a, b, n)) = Instr(op, d, a, b, n % Pow2[20])
  BY <1>1 DEF Meaning, Instr
<1>4. Meaning(Instr("sfence_vma", d, a, b, n)) = Instr("sfence_vma", d, 0, 0, n)
  BY <1>1 DEF Meaning, Instr
<1> QED
  BY <1>2, <1>3, <1>4

LEMMA RegisterLines ==
  /\ \A op \in DOMAIN RMnemonics : \A d, a, b : Faithful(Instr(op, d, a, b, 0))
  /\ \A op \in DOMAIN AmoMnemonics : \A d, a, b : Faithful(Instr(op, d, a, b, 0))
  /\ \A d, a : Faithful(Instr("lr", d, a, 0, 0))
<1>1. ASSUME NEW op \in DOMAIN RMnemonics, NEW d, NEW a, NEW b
      PROVE  Faithful(Instr(op, d, a, b, 0))
  <2> DEFINE i == Instr(op, d, a, b, 0)
  <2>1. i = Instr(op, d, a, b, 0) /\ i.op = op
    BY DEF Instr
  <2> HIDE DEF i
  <2>2. Assemble(i) = assembleRType(i)
    BY <2>1, AssembleOf
  <2>3. Meaning(i) = i
    <3>1. op \notin {"lui", "auipc", "sfence_vma"}
      BY DEF RMnemonics
    <3> QED
      BY <2>1, <3>1, MeaningOf
  <2> QED
    BY <2>1, <2>2, <2>3, RWritten DEF Faithful
<1>2. ASSUME NEW op \in DOMAIN AmoMnemonics, NEW d, NEW a, NEW b
      PROVE  Faithful(Instr(op, d, a, b, 0))
  <2> DEFINE i == Instr(op, d, a, b, 0)
  <2>1. i = Instr(op, d, a, b, 0) /\ i.op = op
    BY DEF Instr
  <2> HIDE DEF i
  <2>2. Assemble(i) = assembleAMOType(i)
    BY <2>1, AssembleOf
  <2>3. Meaning(i) = i
    <3>1. op \notin {"lui", "auipc", "sfence_vma"}
      BY DEF AmoMnemonics
    <3> QED
      BY <2>1, <3>1, MeaningOf
  <2> QED
    BY <2>1, <2>2, <2>3, AmoWritten DEF Faithful
<1>3. ASSUME NEW d, NEW a PROVE Faithful(Instr("lr", d, a, 0, 0))
  <2> DEFINE i == Instr("lr", d, a, 0, 0)
  <2>1. i = Instr("lr", d, a, 0, 0) /\ i.op = "lr"
    BY DEF Instr
  <2> HIDE DEF i
  <2>2. Assemble(i) = assembleLRType(i)
    BY <2>1, AssembleOf
  <2>3. Meaning(i) = i
    BY <2>1, MeaningOf
  <2> QED
    BY <2>1, <2>2, <2>3, LrWritten DEF Faithful
<1> QED
  BY <1>1, <1>2, <1>3

LEMMA OffsetLines ==
  /\ \A op \in DOMAIN BMnemonics : \A a, b : \A n \in Int : Faithful(Instr(op, 0, a, b, n))
  /\ \A op \in DOMAIN SMnemonics : \A a, b : \A n \in Int : Faithful(Instr(op, 0, a, b, n))
  /\ \A d : \A n \in Int : Faithful(Instr("jal", d, 0, 0, n))
  /\ \A op \in DOMAIN UMnemonics : \A d : \A n \in Int : Faithful(Instr(op, d, 0, 0, n))
<1>1. ASSUME NEW op \in DOMAIN BMnemonics, NEW a, NEW b, NEW n \in Int
      PROVE  Faithful(Instr(op, 0, a, b, n))
  <2> DEFINE i == Instr(op, 0, a, b, n)
  <2>1. i = Instr(op, 0, a, b, n) /\ i.op = op
    BY DEF Instr
  <2> HIDE DEF i
  <2>2. Assemble(i) = assembleBType(i)
    BY <2>1, AssembleOf
  <2>3. Meaning(i) = i
    <3>1. op \notin {"lui", "auipc", "sfence_vma"}
      BY DEF BMnemonics
    <3> QED
      BY <2>1, <3>1, MeaningOf
  <2> QED
    BY <2>1, <2>2, <2>3, BWritten DEF Faithful
<1>2. ASSUME NEW op \in DOMAIN SMnemonics, NEW a, NEW b, NEW n \in Int
      PROVE  Faithful(Instr(op, 0, a, b, n))
  <2> DEFINE i == Instr(op, 0, a, b, n)
  <2>1. i = Instr(op, 0, a, b, n) /\ i.op = op
    BY DEF Instr
  <2> HIDE DEF i
  <2>2. Assemble(i) = assembleSType(i)
    BY <2>1, AssembleOf
  <2>3. Meaning(i) = i
    <3>1. op \notin {"lui", "auipc", "sfence_vma"}
      BY DEF SMnemonics
    <3> QED
      BY <2>1, <3>1, MeaningOf
  <2> QED
    BY <2>1, <2>2, <2>3, SWritten DEF Faithful
<1>3. ASSUME NEW d, NEW n \in Int PROVE Faithful(Instr("jal", d, 0, 0, n))
  <2> DEFINE i == Instr("jal", d, 0, 0, n)
  <2>1. i = Instr("jal", d, 0, 0, n) /\ i.op = "jal"
    BY DEF Instr
  <2> HIDE DEF i
  <2>2. Assemble(i) = assembleJType(i)
    BY <2>1, AssembleOf
  <2>3. Meaning(i) = i
    BY <2>1, MeaningOf
  <2> QED
    BY <2>1, <2>2, <2>3, JWritten DEF Faithful
<1>4. ASSUME NEW op \in DOMAIN UMnemonics, NEW d, NEW n \in Int
      PROVE  Faithful(Instr(op, d, 0, 0, n))
  <2> DEFINE i == Instr(op, d, 0, 0, n)
  <2>1. i = Instr(op, d, 0, 0, n) /\ i.op = op
    BY DEF Instr
  <2> HIDE DEF i
  <2>2. Assemble(i) = assembleUType(i)
    BY <2>1, AssembleOf
  <2>3. Meaning(i) = Instr(op, d, 0, 0, n % Pow2[20])
    <3>1. op \in {"lui", "auipc"}
      BY DEF UMnemonics
    <3> QED
      BY <2>1, <3>1, MeaningOf
  <2> QED
    BY <2>1, <2>2, <2>3, UWritten DEF Faithful
<1> QED
  BY <1>1, <1>2, <1>3, <1>4

LEMMA ImmediateLines ==
  /\ \A op \in DOMAIN IMnemonics : \A d, a : \A n \in Int : Faithful(Instr(op, d, a, 0, n))
  /\ \A op \in DOMAIN ShiftMnemonics : \A d, a : \A n \in Int : Faithful(Instr(op, d, a, 0, n))
  /\ \A op \in DOMAIN LoadMnemonics : \A d, a : \A n \in Int : Faithful(Instr(op, d, a, 0, n))
  /\ \A op \in DOMAIN CsrRegMnemonics : \A d, a : \A n \in Int : Faithful(Instr(op, d, a, 0, n))
  /\ \A op \in DOMAIN CsrImmMnemonics : \A d, a : \A n \in Int : Faithful(Instr(op, d, a, 0, n))
<1>1. ASSUME NEW op \in DOMAIN IMnemonics, NEW d, NEW a, NEW n \in Int
      PROVE  Faithful(Instr(op, d, a, 0, n))
  <2> DEFINE i == Instr(op, d, a, 0, n)
  <2>1. i = Instr(op, d, a, 0, n) /\ i.op = op
    BY DEF Instr
  <2> HIDE DEF i
  <2>2. Assemble(i) = assembleIType(i)
    BY <2>1, AssembleOf
  <2>3. Meaning(i) = i
    <3>1. op \notin {"lui", "auipc", "sfence_vma"}
      BY DEF IMnemonics
    <3> QED
      BY <2>1, <3>1, MeaningOf
  <2> QED
    BY <2>1, <2>2, <2>3, IWritten DEF Faithful
<1>2. ASSUME NEW op \in DOMAIN ShiftMnemonics, NEW d, NEW a, NEW n \in Int
      PROVE  Faithful(Instr(op, d, a, 0, n))
  <2> DEFINE i == Instr(op, d, a, 0, n)
  <2>1. i = Instr(op, d, a, 0, n) /\ i.op = op
    BY DEF Instr
  <2> HIDE DEF i
  <2>2. Assemble(i) = assembleIShiftType(i)
    BY <2>1, AssembleOf
  <2>3. Meaning(i) = i
    <3>1. op \notin {"lui", "auipc", "sfence_vma"}
      BY DEF ShiftMnemonics
    <3> QED
      BY <2>1, <3>1, MeaningOf
  <2> QED
    BY <2>1, <2>2, <2>3, ShiftWritten DEF Faithful
<1>3. ASSUME NEW op \in DOMAIN LoadMnemonics, NEW d, NEW a, NEW n \in Int
      PROVE  Faithful(Instr(op, d, a, 0, n))
  <2> DEFINE i == Instr(op, d, a, 0, n)
  <2>1. i = Instr(op, d, a, 0, n) /\ i.op = op
    BY DEF Instr
  <2> HIDE DEF i
  <2>2. Assemble(i) = assembleILoadType(i)
    BY <2>1, AssembleOf
  <2>3. Meaning(i) = i
    <3>1. op \notin {"lui", "auipc", "sfence_vma"}
      BY DEF LoadMnemonics
    <3> QED
      BY <2>1, <3>1, MeaningOf
  <2> QED
    BY <2>1, <2>2, <2>3, LoadWritten DEF Faithful
<1>4. ASSUME NEW op \in DOMAIN CsrRegMnemonics, NEW d, NEW a, NEW n \in Int
      PROVE  Faithful(Instr(op, d, a, 0, n))
  <2> DEFINE i == Instr(op, d, a, 0, n)
  <2>1. i = Instr(op, d, a, 0, n) /\ i.op = op
    BY DEF Instr
  <2> HIDE DEF i
  <2>2. Assemble(i) = assembleCsrReg(i)
    BY <2>1, AssembleOf
  <2>3. Meaning(i) = i
    <3>1. op \notin {"lui", "auipc", "sfence_vma"}
      BY DEF CsrRegMnemonics
    <3> QED
      BY <2>1, <3>1, MeaningOf
  <2> QED
    BY <2>1, <2>2, <2>3, CsrRegWritten DEF Faithful
<1>5. ASSUME NEW op \in DOMAIN CsrImmMnemonics, NEW d, NEW a, NEW n \in Int
      PROVE  Faithful(Instr(op, d, a, 0, n))
  <2> DEFINE i == Instr(op, d, a, 0, n)
  <2>1. i = Instr(op, d, a, 0, n) /\ i.op = op
    BY DEF Instr
  <2> HIDE DEF i
  <2>2. Assemble(i) = assembleCsrImm(i)
    BY <2>1, AssembleOf
  <2>3. Meaning(i) = i
    <3>1. op \notin {"lui", "auipc", "sfence_vma"}
      BY DEF CsrImmMnemonics
    <3> QED
      BY <2>1, <3>1, MeaningOf
  <2> QED
    BY <2>1, <2>2, <2>3, CsrImmWritten DEF Faithful
<1> QED
  BY <1>1, <1>2, <1>3, <1>4, <1>5

LEMMA SystemLines ==
  /\ \A op \in DOMAIN ZeroOperandMnemonics : Faithful(Instr(op, 0, 0, 0, 0))
  /\ \A a, b : Faithful(Instr("sfence_vma", 0, a, b, 0))
<1>1. ASSUME NEW op \in DOMAIN ZeroOperandMnemonics PROVE Faithful(Instr(op, 0, 0, 0, 0))
  <2> DEFINE i == Instr(op, 0, 0, 0, 0)
  <2>1. i = Instr(op, 0, 0, 0, 0) /\ i.op = op
    BY DEF Instr
  <2> HIDE DEF i
  <2>2. Assemble(i) = assembleZeroOperandSystemInstr(i)
    BY <2>1, AssembleOf
  <2>3. Meaning(i) = i
    <3>1. op \notin {"lui", "auipc", "sfence_vma"}
      BY DEF ZeroOperandMnemonics
    <3> QED
      BY <2>1, <3>1, MeaningOf
  <2> QED
    BY <2>1, <2>2, <2>3, ZeroOperandWritten DEF Faithful
<1>2. ASSUME NEW a, NEW b PROVE Faithful(Instr("sfence_vma", 0, a, b, 0))
  <2> DEFINE i == Instr("sfence_vma", 0, a, b, 0)
  <2>1. i = Instr("sfence_vma", 0, a, b, 0) /\ i.op = "sfence_vma"
    BY DEF Instr
  <2> HIDE DEF i
  <2>2. Assemble(i) = assembleSfenceVma(i)
    BY <2>1, AssembleOf
  <2>3. Meaning(i) = Instr("sfence_vma", 0, 0, 0, 0)
    BY <2>1, MeaningOf
  <2> QED
    BY <2>1, <2>2, <2>3, SfenceWritten DEF Faithful
<1> QED
  BY <1>1, <1>2

\* Every line that the assembler takes is executed as it was written.
LEMMA LinesFaithful == \A i \in Lines : Faithful(i)
<1>1. Immediate \subseteq Int
  BY OperandAssumption
<1>2. \A op \in RegisterForms : \A d, a, b : Faithful(Instr(op, d, a, b, 0))
  BY RegisterLines DEF RegisterForms
<1>3. \A op \in DOMAIN BMnemonics \cup DOMAIN SMnemonics : \A a, b : \A n \in Immediate :
        Faithful(Instr(op, 0, a, b, n))
  BY <1>1, OffsetLines
<1>4. \A op \in {"jal"} \cup DOMAIN UMnemonics : \A d : \A n \in Immediate :
        Faithful(Instr(op, d, 0, 0, n))
  BY <1>1, OffsetLines
<1>5. \A op \in DOMAIN IMnemonics \cup DOMAIN ShiftMnemonics \cup DOMAIN LoadMnemonics
              \cup DOMAIN CsrRegMnemonics \cup DOMAIN CsrImmMnemonics :
        \A d, a : \A n \in Immediate : Faithful(Instr(op, d, a, 0, n))
  BY <1>1, ImmediateLines
<1> QED
  BY <1>2, <1>3, <1>4, <1>5, RegisterLines, SystemLines DEF Lines

----------------------------------------------------------------------------
(* Types                                                                    *)

Executable(i) ==
  /\ i.op \in Mnemonics \cup {"none", "fence", "fence_i", "wfi"}
  /\ i.rd \in Unsigned(5) /\ i.rs1 \in Unsigned(5) /\ i.rs2 \in Unsigned(5)

LEMMA InstrExecutable ==
  ASSUME NEW op \in Mnemonics \cup {"none", "fence", "fence_i", "wfi"},
         NEW d \in Unsigned(5), NEW a \in Unsigned(5), NEW b \in Unsigned(5), NEW n
  PROVE  Executable(Instr(op, d, a, b, n))
BY DEF Executable, Instr

\* What the dispatchers know the assembler knows too, but for three.
LEMMA DescribedMnemonics ==
  /\ DOMAIN RDescriptions \subseteq Mnemonics
  /\ DOMAIN AtomicDescriptions \subseteq Mnemonics
  /\ DOMAIN BDescriptions \subseteq Mnemonics
  /\ DOMAIN ArithmeticDescriptions \subseteq Mnemonics
  /\ DOMAIN ShiftDescriptions \subseteq Mnemonics
  /\ DOMAIN LoadDescriptions \subseteq Mnemonics
  /\ DOMAIN FenceDescriptions \subseteq {"fence", "fence_i"}
  /\ DOMAIN SDescriptions \subseteq Mnemonics
  /\ DOMAIN SystemDescriptions \subseteq Mnemonics \cup {"wfi"}
  /\ DOMAIN CsrDescriptions \subseteq Mnemonics
  /\ {"jal", "jalr", "sfence_vma", "lui", "auipc"} \subseteq Mnemonics
<1>1. DOMAIN RDescriptions = DOMAIN RMnemonics
  BY DEF RDescriptions, RMnemonics
<1>2. DOMAIN AtomicDescriptions \subseteq DOMAIN AmoMnemonics \cup {"lr"}
  BY DEF AtomicDescriptions, AmoMnemonics
<1>3. /\ DOMAIN BDescriptions = DOMAIN BMnemonics
      /\ DOMAIN ArithmeticDescriptions = DOMAIN IMnemonics
      /\ DOMAIN ShiftDescriptions = DOMAIN ShiftMnemonics
      /\ DOMAIN LoadDescriptions \subseteq DOMAIN LoadMnemonics
      /\ DOMAIN SDescriptions = DOMAIN SMnemonics
  BY DEF BDescriptions, BMnemonics, ArithmeticDescriptions, IMnemonics, ShiftDescriptions,
         ShiftMnemonics, LoadDescriptions, LoadMnemonics, SDescriptions, SMnemonics
<1>4. DOMAIN FenceDescriptions \subseteq {"fence", "fence_i"}
  BY DEF FenceDescriptions
<1>5. DOMAIN SystemDescriptions \subseteq DOMAIN ZeroOperandMnemonics \cup {"wfi"}
  BY DEF SystemDescriptions, ZeroOperandMnemonics
<1>6. DOMAIN CsrDescriptions \subseteq DOMAIN CsrRegMnemonics \cup DOMAIN CsrImmMnemonics
  BY DEF CsrDescriptions, CsrRegMnemonics, CsrImmMnemonics
<1>7. "jalr" \in DOMAIN LoadMnemonics /\ "lui" \in DOMAIN UMnemonics /\ "auipc" \in DOMAIN UMnemonics
  BY DEF LoadMnemonics, UMnemonics
<1> QED
  BY <1>1, <1>2, <1>3, <1>4, <1>5, <1>6, <1>7 DEF Mnemonics

LEMMA RegisterFields ==
  ASSUME NEW w
  PROVE  rd(w) \in Unsigned(5) /\ rs1(w) \in Unsigned(5) /\ rs2(w) \in Unsigned(5)
<1>1. \A x \in Int : Field(w, x, x + 4) \in Unsigned(5)
  <2>1. \A x \in Int : (x + 4) - x + 1 = 5
    OBVIOUS
  <2> QED
    BY <2>1, NumberType DEF Field, Unsigned
<1>2. 7 + 4 = 11 /\ 15 + 4 = 19 /\ 20 + 4 = 24
  OBVIOUS
<1> QED
  BY <1>1, <1>2 DEF rd, rs1, rs2

LEMMA DecodeType == \A w : Executable(Decode(w))
<1> SUFFICES ASSUME NEW w PROVE Executable(Decode(w))
  OBVIOUS
<1> USE RegisterFields, InstrExecutable, DescribedMnemonics, Opcodes
<1>1. \A i \in RType(w) : Executable(i)
  BY DEF RType, Labelled
<1>2. \A i \in Atomic(w) : Executable(i)
  BY DEF Atomic, Labelled
<1>3. \A i \in BType(w) : Executable(i)
  BY DEF BType, Labelled
<1>4. \A i \in Arithmetic(w) : Executable(i)
  BY DEF Arithmetic, Labelled
<1>5. \A i \in Load(w) : Executable(i)
  BY DEF Load, Labelled
<1>6. \A i \in Jalr(w) : Executable(i)
  BY DEF Jalr
<1>7. \A i \in Fence(w) : Executable(i)
  <2>1. DOMAIN FenceDescriptions \subseteq Mnemonics \cup {"none", "fence", "fence_i", "wfi"}
    OBVIOUS
  <2>2. ASSUME NEW op \in DOMAIN FenceDescriptions PROVE Executable(Instr(op, 0, 0, 0, 0))
    BY <2>1
  <2> QED
    BY <2>2 DEF Fence, Labelled
<1>8. \A i \in JType(w) : Executable(i)
  BY DEF JType
<1>9. \A i \in SType(w) : Executable(i)
  BY DEF SType, Labelled
<1>10. \A i \in System(w) : Executable(i)
  BY DEF System, Labelled
<1>11. \A i \in UType(w, "lui") \cup UType(w, "auipc") : Executable(i)
  BY DEF UType
<1>12. Executable(Unrecognised)
  BY DEF Unrecognised
<1>13. Decode(w) \in {Unrecognised} \cup RType(w) \cup Atomic(w) \cup BType(w) \cup Arithmetic(w)
                       \cup Load(w) \cup Jalr(w) \cup Fence(w) \cup JType(w) \cup SType(w)
                       \cup System(w) \cup UType(w, "lui") \cup UType(w, "auipc")
  BY DEF Decode
<1> QED
  BY <1>1, <1>2, <1>3, <1>4, <1>5, <1>6, <1>7, <1>8, <1>9, <1>10, <1>11, <1>12, <1>13

\* The builders stay within the word, whatever the immediate.
LEMMA PlacesInWord ==
  /\ \A v \in Unsigned(7) : Place(v, 0) \subseteq Bit /\ Place(v, 25) \subseteq Bit
  /\ \A v \in Unsigned(5) : Place(v, 7) \subseteq Bit /\ Place(v, 15) \subseteq Bit
                            /\ Place(v, 20) \subseteq Bit
  /\ \A v \in Unsigned(3) : Place(v, 12) \subseteq Bit
<1>1. \A m \in Int, n \in Int : 0 <= m /\ n <= 31 => m..n \subseteq Bit
  BY DEF Bit
<1>2. ASSUME NEW v \in Unsigned(7) PROVE Place(v, 0) \subseteq Bit /\ Place(v, 25) \subseteq Bit
  <2>1. Place(v, 0) \subseteq 0..0 + 6 /\ Place(v, 25) \subseteq 25..25 + 6
    BY PlaceRanges
  <2> QED
    BY <1>1, <2>1
<1>3. ASSUME NEW v \in Unsigned(5)
      PROVE  Place(v, 7) \subseteq Bit /\ Place(v, 15) \subseteq Bit /\ Place(v, 20) \subseteq Bit
  <2>1. /\ Place(v, 7) \subseteq 7..7 + 4 /\ Place(v, 15) \subseteq 15..15 + 4
        /\ Place(v, 20) \subseteq 20..20 + 4
    BY PlaceRanges
  <2> QED
    BY <1>1, <2>1
<1>4. ASSUME NEW v \in Unsigned(3) PROVE Place(v, 12) \subseteq Bit
  <2>1. Place(v, 12) \subseteq 12..12 + 2
    BY PlaceRanges
  <2> QED
    BY <1>1, <2>1
<1> QED
  BY <1>2, <1>3, <1>4

LEMMA MovesInWord ==
  ASSUME NEW imm
  PROVE  /\ Move(imm, 0, 11, 20) \subseteq Bit
         /\ Move(imm, 5, 11, 25) \subseteq Bit /\ Move(imm, 0, 4, 7) \subseteq Bit
         /\ Move(imm, 12, 12, 31) \subseteq Bit /\ Move(imm, 5, 10, 25) \subseteq Bit
         /\ Move(imm, 1, 4, 8) \subseteq Bit /\ Move(imm, 11, 11, 7) \subseteq Bit
         /\ Move(imm, 20, 20, 31) \subseteq Bit /\ Move(imm, 1, 10, 21) \subseteq Bit
         /\ Move(imm, 11, 11, 20) \subseteq Bit /\ Move(imm, 12, 19, 12) \subseteq Bit
         /\ imm \cap (12..31) \subseteq Bit
<1>1. \A x, y, at \in Int : 0 <= at /\ at + y - x <= 31 => Move(imm, x, y, at) \subseteq Bit
  <2>1. SUFFICES ASSUME NEW x \in Int, NEW y \in Int, NEW at \in Int, 0 <= at, at + y - x <= 31
                 PROVE  Move(imm, x, y, at) \subseteq Bit
    OBVIOUS
  <2>2. at .. at + y - x \subseteq Bit
    BY <2>1 DEF Bit
  <2> QED
    BY <2>2, MoveRange
<1>2. imm \cap (12..31) \subseteq Bit
  BY DEF Bit
<1> QED
  BY <1>1, <1>2

LEMMA BuildTypes ==
  /\ \A opcode, f7 \in Unsigned(7) : \A f3 \in Unsigned(3) : \A d, a, b \in Unsigned(5) :
       buildR(opcode, f3, f7, d, a, b) \subseteq Bit
  /\ \A opcode \in Unsigned(7) : \A f3 \in Unsigned(3) : \A d, a \in Unsigned(5) : \A imm :
       buildI(opcode, f3, d, a, imm) \subseteq Bit
  /\ \A opcode \in Unsigned(7) : \A f3 \in Unsigned(3) : \A a, b \in Unsigned(5) : \A imm :
       /\ buildS(opcode, f3, a, b, imm) \subseteq Bit
       /\ buildB(opcode, f3, a, b, imm) \subseteq Bit
  /\ \A opcode \in Unsigned(7) : \A d \in Unsigned(5) : \A imm :
       /\ buildJ(opcode, d, imm) \subseteq Bit
       /\ buildU(opcode, d, imm) \subseteq Bit
<1>1. 0 \in Unsigned(5) /\ 0 \in Unsigned(7)
  BY SmallNumbers
<1>2. ASSUME NEW opcode \in Unsigned(7), NEW f7 \in Unsigned(7), NEW f3 \in Unsigned(3),
             NEW d \in Unsigned(5), NEW a \in Unsigned(5), NEW b \in Unsigned(5)
      PROVE  buildR(opcode, f3, f7, d, a, b) \subseteq Bit
  BY PlacesInWord DEF buildR
<1>3. ASSUME NEW opcode \in Unsigned(7), NEW f3 \in Unsigned(3),
             NEW d \in Unsigned(5), NEW a \in Unsigned(5), NEW imm
      PROVE  buildI(opcode, f3, d, a, imm) \subseteq Bit
  BY <1>1, <1>2, MovesInWord DEF buildI
<1>4. ASSUME NEW opcode \in Unsigned(7), NEW f3 \in Unsigned(3),
             NEW a \in Unsigned(5), NEW b \in Unsigned(5), NEW imm
      PROVE  /\ buildS(opcode, f3, a, b, imm) \subseteq Bit
             /\ buildB(opcode, f3, a, b, imm) \subseteq Bit
  <2>1. buildR(opcode, f3, 0, 0, a, b) \subseteq Bit
    BY <1>1, <1>2
  <2> QED
    BY <2>1, MovesInWord DEF buildS, buildB
<1>5. ASSUME NEW opcode \in Unsigned(7), NEW d \in Unsigned(5), NEW imm
      PROVE  buildJ(opcode, d, imm) \subseteq Bit /\ buildU(opcode, d, imm) \subseteq Bit
  BY PlacesInWord, MovesInWord DEF buildJ, buildU
<1> QED
  BY <1>2, <1>3, <1>4, <1>5

LEMMA CompressedRegisters ==
  ASSUME NEW h
  PROVE  /\ \A x \in Int : getRvcRegister(h, x) \in Unsigned(5)
         /\ Register5(h) \in Unsigned(5) /\ Field(h, 2, 6) \in Unsigned(5)
         /\ Field(h, 10, 11) \in {0, 1, 2, 3} /\ Field(h, 5, 6) \in {0, 1, 2, 3}
<1>1. \A x \in Int : Field(h, x, x + 4) \in Unsigned(5)
  <2>1. \A x \in Int : (x + 4) - x + 1 = 5
    OBVIOUS
  <2> QED
    BY <2>1, NumberType DEF Field, Unsigned
<1>2. \A x \in Int : Field(h, x, x + 2) \in Int /\ 0 <= Field(h, x, x + 2) /\ Field(h, x, x + 2) < 8
  <2>1. \A x \in Int : (x + 2) - x + 1 = 3
    OBVIOUS
  <2> QED
    BY <2>1, NumberType, Pow2Values DEF Field
<1>3. 7 + 4 = 11 /\ 2 + 4 = 6
  OBVIOUS
<1>4. \A x \in Int : getRvcRegister(h, x) \in Unsigned(5)
  BY <1>2, SmallNumbers DEF getRvcRegister
<1>5. \A x \in Int : Field(h, x, x + 1) \in {0, 1, 2, 3}
  <2>1. \A x \in Int : (x + 1) - x + 1 = 2
    OBVIOUS
  <2> QED
    BY <2>1, NumberType, Pow2Values DEF Field
<1>6. 10 + 1 = 11 /\ 5 + 1 = 6
  OBVIOUS
<1> QED
  BY <1>1, <1>3, <1>4, <1>5, <1>6 DEF Register5

LEMMA DecompressType == \A h : decompress(h) \subseteq Bit
<1> SUFFICES ASSUME NEW h PROVE decompress(h) \subseteq Bit
  OBVIOUS
<1>1. /\ 1 \in Unsigned(3) /\ 4 \in Unsigned(3) /\ 5 \in Unsigned(3) /\ 6 \in Unsigned(3)
      /\ 7 \in Unsigned(3) /\ 1 \in Unsigned(5) /\ 2 \in Unsigned(5)
      /\ 0 \in Unsigned(7) /\ 32 \in Unsigned(7)
  BY SmallNumbers
<1>2. /\ getRvcRegister(h, 2) \in Unsigned(5) /\ getRvcRegister(h, 7) \in Unsigned(5)
      /\ Register5(h) \in Unsigned(5) /\ Field(h, 2, 6) \in Unsigned(5)
  BY CompressedRegisters
<1>3. Illegal \subseteq Bit /\ Ebreak \subseteq Bit
  BY DEF Illegal, Ebreak, Bit
<1> USE <1>1, <1>2, <1>3, Opcodes
<1>4. \A imm : \A f3 \in Unsigned(3) : \A a, d \in Unsigned(5) :
        buildI(19, f3, d, a, imm) \subseteq Bit /\ buildI(3, f3, d, a, imm) \subseteq Bit
          /\ buildI(103, f3, d, a, imm) \subseteq Bit
  BY BuildTypes
<1>5. \A imm : \A d \in Unsigned(5) :
        buildJ(111, d, imm) \subseteq Bit /\ buildU(55, d, imm) \subseteq Bit
  BY BuildTypes
<1>6. \A f3 \in Unsigned(3) : \A f7 \in Unsigned(7) : \A d, a, b \in Unsigned(5) :
        buildR(51, f3, f7, d, a, b) \subseteq Bit
  BY BuildTypes
<1>7. \A imm : \A f3 \in Unsigned(3) : \A a, b \in Unsigned(5) :
        buildS(35, f3, a, b, imm) \subseteq Bit /\ buildB(99, f3, a, b, imm) \subseteq Bit
  BY BuildTypes
<1>8. Addi4spn(h) \subseteq Bit
  BY <1>4 DEF Addi4spn
<1>9. Addi(h) \subseteq Bit
  BY <1>4 DEF Addi
<1>10. Li(h) \subseteq Bit
  BY <1>4 DEF Li
<1>11. LuiOrAddi16sp(h) \subseteq Bit
  BY <1>4, <1>5 DEF LuiOrAddi16sp
<1>12. MiscAlu(h) \subseteq Bit
  <2>1. Field(h, 10, 11) \in {0, 1, 2, 3} /\ Field(h, 5, 6) \in {0, 1, 2, 3}
    BY CompressedRegisters
  <2>2. PICK d \in Unsigned(5), b \in Unsigned(5) :
          d = getRvcRegister(h, 7) /\ b = getRvcRegister(h, 2)
    OBVIOUS
  <2>3. \A imm : buildI(19, 5, d, d, imm) \subseteq Bit /\ buildI(19, 7, d, d, imm) \subseteq Bit
    BY <1>4
  <2>4. /\ buildR(51, 0, 32, d, d, b) \subseteq Bit /\ buildR(51, 4, 0, d, d, b) \subseteq Bit
        /\ buildR(51, 6, 0, d, d, b) \subseteq Bit /\ buildR(51, 7, 0, d, d, b) \subseteq Bit
    BY <1>6
  <2>5. MiscAlu(h) \in {buildI(19, 5, d, d, Imm6(h)), buildI(19, 5, d, d, SraiImm(h)),
                        buildI(19, 7, d, d, signExtend(Imm6(h), 6)),
                        buildR(51, 0, 32, d, d, b), buildR(51, 4, 0, d, d, b),
                        buildR(51, 6, 0, d, d, b), buildR(51, 7, 0, d, d, b)}
    BY <2>1, <2>2 DEF MiscAlu
  <2> QED
    BY <2>3, <2>4, <2>5
<1>13. Branch(h, 0) \subseteq Bit /\ Branch(h, 1) \subseteq Bit
  BY <1>7 DEF Branch
<1>14. Slli(h) \subseteq Bit
  BY <1>4 DEF Slli
<1>15. Lwsp(h) \subseteq Bit
  BY <1>4 DEF Lwsp
<1>16. JumpMoveAdd(h) \subseteq Bit
  BY <1>4, <1>6 DEF JumpMoveAdd
<1>17. /\ buildI(3, 2, getRvcRegister(h, 2), getRvcRegister(h, 7), ImmLwSw(h)) \subseteq Bit
       /\ buildS(35, 2, getRvcRegister(h, 7), getRvcRegister(h, 2), ImmLwSw(h)) \subseteq Bit
       /\ buildJ(111, 1, ImmJ(h)) \subseteq Bit /\ buildJ(111, 0, ImmJ(h)) \subseteq Bit
       /\ buildS(35, 2, 2, Field(h, 2, 6), ImmSwsp(h)) \subseteq Bit
  BY <1>4, <1>5, <1>7
<1> QED
  BY <1>8, <1>9, <1>10, <1>11, <1>12, <1>13, <1>14, <1>15, <1>16, <1>17 DEF decompress

----------------------------------------------------------------------------
(* The invariant: a word in stage "text" is its line's, and what was        *)
(* executed of a line is what the line means.                               *)

RestOfTypes ==
  /\ stage \in {"idle", "text", "halfword", "done"}
  /\ half \subseteq 0..15
  /\ word \subseteq Bit
  /\ Executable(executed)

WordOfLine ==
  /\ stage = "text" => line \in Lines /\ word = Assemble(line)
  /\ stage \in {"idle", "halfword"} => line = Unrecognised
  /\ stage = "done" =>
       line = Unrecognised \/ (line \in Lines /\ executed = Meaning(line))

IInv == RestOfTypes /\ WordOfLine

LEMMA HalvesType == \A h \in Halves : h \subseteq 0..15
<1> SUFFICES ASSUME NEW n \in Halfword PROVE ToBits(n) \subseteq 0..15
  BY DEF Halves
<1>1. n \in Int /\ 0 <= n /\ n \in 0 .. Pow2[16] - 1
  <2>1. Pow2[16] \in Nat
    BY Pow2Type
  <2> QED
    BY <2>1, HalfwordAssumption
<1>2. Bits(n, 31) = Bits(n, 16)
  <2>1. 16 \in Nat /\ 31 \in Nat /\ 16 <= 31
    OBVIOUS
  <2> QED
    BY <1>1, <2>1, ShortBits
<1>3. ToBits(n) = Bits(n, 16)
  BY <1>1, <1>2 DEF ToBits
<1> QED
  BY <1>3 DEF Bits

LEMMA InitIInv == Init => IInv
<1> SUFFICES ASSUME Init PROVE IInv
  OBVIOUS
<1>1. Executable(Unrecognised)
  BY InstrExecutable, Opcodes DEF Unrecognised
<1> QED
  BY <1>1 DEF Init, IInv, RestOfTypes, WordOfLine

LEMMA NextIInv == IInv /\ [Next]_vars => IInv'
<1> SUFFICES ASSUME IInv, [Next]_vars PROVE IInv'
  OBVIOUS
<1>1. CASE Compile
  <2>1. PICK i \in Lines : line' = i /\ word' = Assemble(i)
    BY <1>1 DEF Compile
  <2>2. Assemble(i) \subseteq Bit
    BY LinesFaithful DEF Faithful, Refused
  <2>3. RestOfTypes'
    BY <1>1, <2>1, <2>2 DEF Compile, IInv, RestOfTypes
  <2>4. WordOfLine'
    BY <1>1, <2>1 DEF Compile, WordOfLine
  <2> QED
    BY <2>3, <2>4 DEF IInv
<1>2. CASE Fetch
  <2>1. PICK h \in Halves : half' = h /\ word' = decompress(h)
    BY <1>2 DEF Fetch
  <2>2. RestOfTypes'
    BY <1>2, <2>1, HalvesType, DecompressType DEF Fetch, IInv, RestOfTypes
  <2>3. WordOfLine'
    BY <1>2 DEF Fetch, IInv, WordOfLine
  <2> QED
    BY <2>2, <2>3 DEF IInv
<1>3. CASE Execute
  <2>1. RestOfTypes'
    BY <1>3, DecodeType DEF Execute, IInv, RestOfTypes
  <2>2. WordOfLine'
    <3>1. CASE stage = "halfword"
      BY <1>3, <3>1 DEF Execute, IInv, WordOfLine
    <3>2. CASE stage = "text" /\ word # Refused
      <4>1. line \in Lines /\ Decode(word) = Meaning(line)
        BY <3>2, LinesFaithful DEF IInv, WordOfLine, Faithful
      <4> QED
        BY <1>3, <4>1 DEF Execute, WordOfLine
    <3> QED
      BY <1>3, <3>1, <3>2 DEF Execute
  <2> QED
    BY <2>1, <2>2 DEF IInv
<1>4. CASE Proceed
  <2>1. Executable(Unrecognised)
    BY InstrExecutable, Opcodes DEF Unrecognised
  <2> QED
    BY <1>4, <2>1 DEF Proceed, IInv, RestOfTypes, WordOfLine
<1>5. CASE UNCHANGED vars
  BY <1>5 DEF vars, IInv, RestOfTypes, WordOfLine
<1> QED
  BY <1>1, <1>2, <1>3, <1>4, <1>5 DEF Next

LEMMA SpecIInv == Spec => []IInv
<1> QED
  BY InitIInv, NextIInv, PTL DEF Spec

(* Every word has 32 bits, and what a word is taken for is an instruction   *)
(* the dispatchers have a handler for, with registers x0 to x31: no field   *)
(* they read is too wide, whatever is written and whatever is fetched.      *)
THEOREM CodecTypeCorrect == Spec => []TypeOK
<1>1. IInv => TypeOK
  <2>1. \A r \in Unsigned(5) : r \in 0..31
    BY Pow2Values DEF Unsigned
  <2> QED
    BY <2>1 DEF IInv, RestOfTypes, Executable, TypeOK
<1> QED
  BY <1>1, SpecIInv, PTL

(* What is written is what is executed, for every line: getInstruction and  *)
(* the dispatchers of Instruction::execute agree on every mnemonic, every   *)
(* register and every immediate that the assembler does not refuse.         *)
THEOREM LinesAreExecuted == Spec => []WrittenIsExecuted
<1>1. IInv => WrittenIsExecuted
  BY DEF IInv, WordOfLine, WrittenIsExecuted, FromText
<1> QED
  BY <1>1, SpecIInv, PTL

----------------------------------------------------------------------------
(* Halfwords: the immediates they hold, as words and as numbers             *)

\* Words whose bits from m upwards are all the same.
Extended(imm, m) == imm \subseteq Bit /\ m \in 0..30 /\ \A k \in m..31 : k \in imm <=> m \in imm

LEMMA WithoutTop ==
  ASSUME NEW n \in Nat, NEW imm, imm \subseteq 0..n
  PROVE  /\ n \notin imm => imm \cap 0 .. n - 1 = imm
         /\ n \in imm => (imm \cap 0 .. n - 1) \cup {n} = imm
<1>1. \A k \in Int : k \in 0 .. n - 1 <=> k \in 0..n /\ k # n
  OBVIOUS
<1>2. \A k \in imm : k \in Int /\ k \in 0..n
  OBVIOUS
<1>3. ASSUME n \notin imm PROVE imm \cap 0 .. n - 1 = imm
  <2>1. \A k \in imm : k \in 0 .. n - 1
    BY <1>1, <1>2, <1>3
  <2> QED
    BY <2>1
<1>4. ASSUME n \in imm PROVE (imm \cap 0 .. n - 1) \cup {n} = imm
  <2>1. \A k \in imm : k \in 0 .. n - 1 \/ k = n
    BY <1>1, <1>2
  <2> QED
    BY <1>4, <2>1
<1> QED
  BY <1>3, <1>4

LEMMA NaturalNumber == \A b : ToNat(b) \in Int /\ ToNat(b) >= 0
<1> SUFFICES ASSUME NEW b PROVE Number(b, 31) \in Nat
  BY DEF ToNat
<1>1. 31 \in Nat
  OBVIOUS
<1>2. \A n \in Nat : Number(b, n) \in Nat
  BY NumberSteps
<1> QED
  BY <1>1, <1>2

\* The converse of NumberRestored: the word of a word's number is the word.
LEMMA NumberOfWord ==
  ASSUME NEW imm, imm \subseteq Bit
  PROVE  ToInt(imm) \in Int /\ ToBits(ToInt(imm)) = imm
<1>1. PICK p \in Nat : p = Pow2[31] /\ p > 0
  BY Pow2Type
<1>2. CASE 31 \notin imm
  <2>1. PICK v \in Int : v = ToNat(imm) /\ v >= 0
    BY NaturalNumber
  <2>2. Bits(v, 31) = imm \cap 0 .. 31 - 1
    BY <2>1, BitsOfNumber DEF ToNat
  <2>3. imm \cap 0 .. 31 - 1 = imm
    BY <1>2, WithoutTop DEF Bit
  <2>4. ToBits(v) = imm
    BY <2>1, <2>2, <2>3 DEF ToBits
  <2> QED
    BY <1>2, <2>1, <2>4 DEF ToInt
<1>3. CASE 31 \in imm
  <2>1. PICK u \in Int : u = ToNat(Bit \ imm) /\ u >= 0
    BY NaturalNumber
  <2>2. Bits(u, 31) = (Bit \ imm) \cap 0 .. 31 - 1
    BY <2>1, BitsOfNumber DEF ToNat
  <2>3. PICK v \in Int : v = -1 - u /\ v < 0
    BY <2>1
  <2>4. \A k \in 0 .. 31 - 1 : (v \div Pow2[k]) % 2 = 1 <=> ~((u \div Pow2[k]) % 2 = 1)
    <3>1. \A k \in 0 .. 31 - 1 : k \in Nat
      OBVIOUS
    <3> QED
      BY <2>3, <3>1, Complement
  <2>5. Bits(v, 31) = imm \cap 0 .. 31 - 1
    BY <2>2, <2>4 DEF Bits, Bit
  <2>6. (imm \cap 0 .. 31 - 1) \cup {31} = imm
    BY <1>3, WithoutTop DEF Bit
  <2>7. ToBits(v) = imm
    BY <2>3, <2>5, <2>6 DEF ToBits
  <2> QED
    BY <1>3, <2>1, <2>3, <2>7 DEF ToInt
<1> QED
  BY <1>2, <1>3

\* A word extended from bit m is a number of m bits and a sign.
LEMMA NumberOfExtended ==
  ASSUME NEW imm, NEW m, Extended(imm, m)
  PROVE  -Pow2[m] <= ToInt(imm) /\ ToInt(imm) < Pow2[m]
<1>1. PICK p \in Nat : p = Pow2[m] /\ p > 0
  BY Pow2Type DEF Extended
<1>2. m \in Nat /\ 31 \in Nat /\ m <= 31 /\ 31 \in m..31
  BY DEF Extended
<1>3. CASE m \notin imm
  <2>1. imm \cap m .. 31 - 1 = {} /\ 31 \notin imm
    BY <1>2, <1>3 DEF Extended
  <2>2. Number(imm, 31) = Number(imm, m)
    BY <1>2, <2>1, ShortNumberOf
  <2>3. Number(imm, m) \in 0 .. p - 1
    BY <1>1, <1>2, NumberType
  <2>4. ToInt(imm) \in 0 .. p - 1
    BY <2>1, <2>2, <2>3 DEF ToInt, ToNat
  <2> QED
    BY <1>1, <2>4
<1>4. CASE m \in imm
  <2>1. (Bit \ imm) \cap m .. 31 - 1 = {} /\ 31 \in imm
    BY <1>2, <1>4 DEF Extended
  <2>2. Number(Bit \ imm, 31) = Number(Bit \ imm, m)
    BY <1>2, <2>1, ShortNumberOf
  <2>3. Number(Bit \ imm, m) \in 0 .. p - 1
    BY <1>1, <1>2, NumberType
  <2>4. PICK u \in 0 .. p - 1 : ToInt(imm) = -1 - u
    BY <2>1, <2>2, <2>3 DEF ToInt, ToNat
  <2> QED
    BY <1>1, <2>4
<1> QED
  BY <1>3, <1>4

\* A word without its lowest bit is an even number.
LEMMA EvenWord ==
  ASSUME NEW imm, imm \subseteq Bit, 0 \notin imm
  PROVE  ToInt(imm) % 2 = 0
<1>1. PICK v \in Int : v = ToInt(imm) /\ ToBits(v) = imm
  BY NumberOfWord
<1>2. 0 \in Bit /\ 0 < 31 /\ 0 # 31
  BY DEF Bit
<1>3. ~((v \div Pow2[0]) % 2 = 1)
  BY <1>1, <1>2, LineBits
<1>4. v \div 1 = v
  OBVIOUS
<1> QED
  BY <1>1, <1>3, <1>4, Pow2Next

----------------------------------------------------------------------------
(* Halfwords: what the builders of the decompressor put together            *)

\* The word w is executed as i, and i is assembled to w.
Expands(w, i) == Decode(w) = i /\ Assemble(i) = w

LEMMA ValidFields ==
  \A r \in Unsigned(5) : validateRegister(r) /\ r \in Int
<1>1. \A r \in Unsigned(5) : r \in 0..31 /\ r \in Int
  BY Pow2Values DEF Unsigned
<1> QED
  BY <1>1 DEF validateRegister

\* Every opcode is odd, so that no word that is built is Refused.
LEMMA NotRefused ==
  ASSUME NEW opcode \in {51, 99, 19, 3, 103, 111, 35, 55}, NEW w, Place(opcode, 0) \subseteq w
  PROVE  w # Refused
<1>1. (opcode \div Pow2[0]) % 2 = 1
  <2>1. opcode \div 1 = opcode /\ opcode % 2 = 1
    OBVIOUS
  <2> QED
    BY <2>1, Pow2Next
<1>2. 0 \in Bits(opcode, 12)
  BY <1>1 DEF Bits
<1>3. 0 + 0 \in Place(opcode, 0)
  BY <1>2 DEF Place
<1> QED
  BY <1>3 DEF Refused

LEMMA RExpands ==
  ASSUME NEW op \in DOMAIN RMnemonics, NEW f, NEW f7, RMnemonics[op] = <<f, f7>>,
         NEW d \in Unsigned(5), NEW a \in Unsigned(5), NEW b \in Unsigned(5)
  PROVE  Expands(buildR(51, f, f7, d, a, b), Instr(op, d, a, b, 0))
<1> DEFINE i == Instr(op, d, a, b, 0)
           w == buildR(51, f, f7, d, a, b)
<1>1. i.op = op /\ i.rd = d /\ i.rs1 = a /\ i.rs2 = b /\ i = Instr(op, d, a, b, 0)
  BY DEF Instr
<1>2. w = encodeRType(f7, b, a, f, d, 51) /\ Place(51, 0) \subseteq w
  BY DEF buildR, encodeRType
<1> HIDE DEF i, w
<1>3. validateRegisters(i)
  BY <1>1, ValidFields DEF validateRegisters
<1>4. w = assembleRType(i) /\ w # Refused
  BY <1>1, <1>2, <1>3, NotRefused DEF assembleRType
<1>5. Decode(w) = i
  BY <1>1, <1>4, RWritten
<1>6. Assemble(i) = w
  BY <1>1, <1>4, AssembleOf
<1> QED
  BY <1>5, <1>6 DEF Expands, i, w

\* What a number of 12 bits is to the assembler.
LEMMA TwelveBits ==
  ASSUME NEW imm, Extended(imm, 11)
  PROVE  /\ ToInt(imm) \in Int /\ ToBits(ToInt(imm)) = imm
         /\ -2048 <= ToInt(imm) /\ ToInt(imm) <= 2047
<1>1. ToInt(imm) \in Int /\ ToBits(ToInt(imm)) = imm
  BY NumberOfWord DEF Extended
<1>2. -2048 <= ToInt(imm) /\ ToInt(imm) < 2048
  BY NumberOfExtended, Pow2Values
<1> QED
  BY <1>1, <1>2

LEMMA IExpands ==
  ASSUME NEW op \in DOMAIN IMnemonics, NEW f, IMnemonics[op] = f,
         NEW d \in Unsigned(5), NEW a \in Unsigned(5), NEW imm, Extended(imm, 11)
  PROVE  Expands(buildI(19, f, d, a, imm), Instr(op, d, a, 0, ToInt(imm)))
<1> DEFINE i == Instr(op, d, a, 0, ToInt(imm))
           w == buildI(19, f, d, a, imm)
<1>1. /\ i.op = op /\ i.rd = d /\ i.rs1 = a /\ i.rs2 = 0 /\ i.imm = ToInt(imm)
      /\ i = Instr(op, d, a, 0, ToInt(imm))
  BY DEF Instr
<1>2. w = encodeIType(imm, a, f, d, 19) /\ Place(19, 0) \subseteq w
  BY CodeBits DEF buildI, buildR, encodeIType
<1> HIDE DEF i, w
<1>3. validateRegisters(i)
  BY <1>1, ValidFields, Opcodes DEF validateRegisters
<1>4. w = assembleIType(i) /\ w # Refused
  BY <1>1, <1>2, <1>3, TwelveBits, NotRefused DEF assembleIType
<1>5. Decode(w) = i
  BY <1>1, <1>4, TwelveBits, IWritten
<1>6. Assemble(i) = w
  BY <1>1, <1>4, AssembleOf
<1> QED
  BY <1>5, <1>6 DEF Expands, i, w

LEMMA LoadExpands ==
  ASSUME NEW op \in DOMAIN LoadMnemonics, NEW f, NEW opcode \in {3, 103},
         LoadMnemonics[op] = <<f, opcode>>,
         NEW d \in Unsigned(5), NEW a \in Unsigned(5), NEW imm, Extended(imm, 11)
  PROVE  Expands(buildI(opcode, f, d, a, imm), Instr(op, d, a, 0, ToInt(imm)))
<1> DEFINE i == Instr(op, d, a, 0, ToInt(imm))
           w == buildI(opcode, f, d, a, imm)
<1>1. /\ i.op = op /\ i.rd = d /\ i.rs1 = a /\ i.rs2 = 0 /\ i.imm = ToInt(imm)
      /\ i = Instr(op, d, a, 0, ToInt(imm))
  BY DEF Instr
<1>2. w = encodeIType(imm, a, f, d, opcode) /\ Place(opcode, 0) \subseteq w
  BY CodeBits DEF buildI, buildR, encodeIType
<1> HIDE DEF i, w
<1>3. validateRegisters(i)
  BY <1>1, ValidFields, Opcodes DEF validateRegisters
<1>4. w = assembleILoadType(i) /\ w # Refused
  BY <1>1, <1>2, <1>3, TwelveBits, NotRefused DEF assembleILoadType
<1>5. Decode(w) = i
  BY <1>1, <1>4, TwelveBits, LoadWritten
<1>6. Assemble(i) = w
  BY <1>1, <1>4, AssembleOf
<1> QED
  BY <1>5, <1>6 DEF Expands, i, w

LEMMA SExpands ==
  ASSUME NEW op \in DOMAIN SMnemonics, NEW f, SMnemonics[op] = f,
         NEW a \in Unsigned(5), NEW b \in Unsigned(5), NEW imm, Extended(imm, 11)
  PROVE  Expands(buildS(35, f, a, b, imm), Instr(op, 0, a, b, ToInt(imm)))
<1> DEFINE i == Instr(op, 0, a, b, ToInt(imm))
           w == buildS(35, f, a, b, imm)
<1>1. /\ i.op = op /\ i.rd = 0 /\ i.rs1 = a /\ i.rs2 = b /\ i.imm = ToInt(imm)
      /\ i = Instr(op, 0, a, b, ToInt(imm))
  BY DEF Instr
<1>2. w = encodeSType(imm, a, b, f, 35) /\ Place(35, 0) \subseteq w
  BY CodeBits DEF buildS, buildR, encodeSType
<1> HIDE DEF i, w
<1>3. validateRegisters(i)
  BY <1>1, ValidFields, Opcodes DEF validateRegisters
<1>4. w = assembleSType(i) /\ w # Refused
  BY <1>1, <1>2, <1>3, TwelveBits, NotRefused DEF assembleSType
<1>5. Decode(w) = i
  BY <1>1, <1>4, TwelveBits, SWritten
<1>6. Assemble(i) = w
  BY <1>1, <1>4, AssembleOf
<1> QED
  BY <1>5, <1>6 DEF Expands, i, w

LEMMA BExpands ==
  ASSUME NEW op \in DOMAIN BMnemonics, NEW f, BMnemonics[op] = f,
         NEW a \in Unsigned(5), NEW b \in Unsigned(5), NEW imm, Extended(imm, 12), 0 \notin imm
  PROVE  Expands(buildB(99, f, a, b, imm), Instr(op, 0, a, b, ToInt(imm)))
<1> DEFINE i == Instr(op, 0, a, b, ToInt(imm))
           w == buildB(99, f, a, b, imm)
<1>1. /\ i.op = op /\ i.rd = 0 /\ i.rs1 = a /\ i.rs2 = b /\ i.imm = ToInt(imm)
      /\ i = Instr(op, 0, a, b, ToInt(imm))
  BY DEF Instr
<1>2. w = encodeBType(imm, b, a, f, 99) /\ Place(99, 0) \subseteq w
  BY CodeBits DEF buildB, buildR, encodeBType
<1> HIDE DEF i, w
<1>3. validateRegisters(i)
  BY <1>1, ValidFields, Opcodes DEF validateRegisters
<1>4. /\ ToInt(imm) \in Int /\ ToBits(ToInt(imm)) = imm /\ ToInt(imm) % 2 = 0
      /\ -4096 <= ToInt(imm) /\ ToInt(imm) <= 4094
  <2>1. ToInt(imm) \in Int /\ ToBits(ToInt(imm)) = imm /\ ToInt(imm) % 2 = 0
    BY NumberOfWord, EvenWord DEF Extended
  <2>2. -4096 <= ToInt(imm) /\ ToInt(imm) < 4096
    BY NumberOfExtended, Pow2Values
  <2> QED
    BY <2>1, <2>2
<1>5. w = assembleBType(i) /\ w # Refused
  BY <1>1, <1>2, <1>3, <1>4, NotRefused DEF assembleBType
<1>6. Decode(w) = i
  BY <1>1, <1>4, <1>5, BWritten
<1>7. Assemble(i) = w
  BY <1>1, <1>5, AssembleOf
<1> QED
  BY <1>6, <1>7 DEF Expands, i, w

LEMMA JExpands ==
  ASSUME NEW d \in Unsigned(5), NEW imm, Extended(imm, 20), 0 \notin imm
  PROVE  Expands(buildJ(111, d, imm), Instr("jal", d, 0, 0, ToInt(imm)))
<1> DEFINE i == Instr("jal", d, 0, 0, ToInt(imm))
           w == buildJ(111, d, imm)
<1>1. /\ i.op = "jal" /\ i.rd = d /\ i.rs1 = 0 /\ i.rs2 = 0 /\ i.imm = ToInt(imm)
      /\ i = Instr("jal", d, 0, 0, ToInt(imm))
  BY DEF Instr
<1>2. w = encodeJType(imm, d, 111) /\ Place(111, 0) \subseteq w
  BY DEF buildJ, encodeJType
<1> HIDE DEF i, w
<1>3. validateRegisters(i)
  BY <1>1, ValidFields, Opcodes DEF validateRegisters
<1>4. /\ ToInt(imm) \in Int /\ ToBits(ToInt(imm)) = imm /\ ToInt(imm) % 2 = 0
      /\ -Pow2[20] <= ToInt(imm) /\ ToInt(imm) < Pow2[20]
  BY NumberOfWord, EvenWord, NumberOfExtended DEF Extended
<1>5. -1048576 <= ToInt(imm) /\ ToInt(imm) <= 1048574
  BY <1>4, Pow2Of20, SMT
<1>6. w = assembleJType(i)
  BY <1>1, <1>2, <1>3, <1>4, <1>5, SMT DEF assembleJType
<1>7. w # Refused
  BY <1>2, NotRefused
<1>8. Decode(w) = i
  BY <1>1, <1>4, <1>6, <1>7, JWritten
<1>9. Assemble(i) = w
  BY <1>1, <1>6, AssembleOf
<1> QED
  BY <1>8, <1>9 DEF Expands, i, w

LEMMA UExpands ==
  ASSUME NEW d \in Unsigned(5), NEW imm, imm \subseteq Bit
  PROVE  Expands(buildU(55, d, {k + 12 : k \in imm}), Instr("lui", d, 0, 0, Number(imm, 20)))
<1>1. PICK n \in Int : n = Number(imm, 20) /\ n \in 0 .. Pow2[20] - 1
  <2>1. 20 \in Nat
    OBVIOUS
  <2>2. Number(imm, 20) \in 0 .. Pow2[20] - 1
    BY <2>1, NumberType
  <2> QED
    BY <2>2
<1> DEFINE i == Instr("lui", d, 0, 0, n)
           w == buildU(55, d, {k + 12 : k \in imm})
<1>2. /\ i.op = "lui" /\ i.rd = d /\ i.rs1 = 0 /\ i.rs2 = 0 /\ i.imm = n
      /\ i = Instr("lui", d, 0, 0, n)
  BY DEF Instr
<1>3. PICK m : m = Move(ToBits(n), 0, 19, 12) /\ m = {k + 12 : k \in imm \cap (0..19)}
  <2>1. \A k \in 0..19 : k \in ToBits(n) <=> k \in imm
    <3>1. SUFFICES ASSUME NEW k \in 0..19 PROVE k \in ToBits(n) <=> k \in imm
      OBVIOUS
    <3>2. k \in Bit /\ k < 31 /\ k \in 0 .. 20 - 1 /\ 20 \in Nat
      BY DEF Bit
    <3>3. (n \div Pow2[k]) % 2 = 1 <=> k \in imm
      BY <1>1, <3>2, BitOfNumber
    <3> QED
      BY <3>2, <3>3, LineBits
  <2>2. ToBits(n) \cap (0..19) = imm \cap (0..19)
    BY <2>1
  <2>3. Move(ToBits(n), 0, 19, 12) = {k - 0 + 12 : k \in imm \cap (0..19)}
    BY <2>2 DEF Move
  <2>4. \A k \in imm \cap (0..19) : k - 0 + 12 = k + 12
    OBVIOUS
  <2> QED
    BY <2>3, <2>4
<1>4. m \cap (12..31) = {k + 12 : k \in imm} \cap (12..31)
  <2>1. \A k \in imm : k + 12 \in 12..31 <=> k \in 0..19
    BY DEF Bit
  <2> QED
    BY <1>3, <2>1
<1>5. w = encodeUType(m, d, 55) /\ Place(55, 0) \subseteq w
  BY <1>4 DEF buildU, encodeUType
<1> HIDE DEF i, w
<1>6. validateRegisters(i) /\ UMnemonics[i.op] = 55 /\ i.op \in DOMAIN UMnemonics
  BY <1>2, ValidFields, Opcodes DEF validateRegisters, UMnemonics
<1>7. w = assembleUType(i) /\ w # Refused
  BY <1>2, <1>3, <1>5, <1>6, NotRefused DEF assembleUType
<1>8. Decode(w) = Instr("lui", d, 0, 0, n % Pow2[20])
  BY <1>2, <1>6, <1>7, UWritten
<1>9. n % Pow2[20] = n
  BY <1>1, Pow2Type
<1>10. Assemble(i) = w
  BY <1>6, <1>7, AssembleOf
<1> QED
  BY <1>1, <1>2, <1>8, <1>9, <1>10 DEF Expands, w

\* Shifts by less than 32.
Marked(imm, mark) == IF mark = 32 THEN imm \cup {10} ELSE imm

LEMMA AmountBits ==
  ASSUME NEW imm, imm \subseteq 0..4
  PROVE  imm \cap 0 .. 5 - 1 = imm /\ imm \cap (0..11) = imm
<1>1. \A k \in imm : k \in 0..4
  OBVIOUS
<1>2. \A k \in 0..4 : k \in 0 .. 5 - 1 /\ k \in 0..11
  OBVIOUS
<1>3. \A k \in imm : k \in 0 .. 5 - 1 /\ k \in 0..11
  BY <1>1, <1>2
<1> HIDE <1>1, <1>2
<1>4. imm \cap 0 .. 5 - 1 = imm
  BY <1>3
<1>5. imm \cap (0..11) = imm
  BY <1>3
<1> QED
  BY <1>4, <1>5

LEMMA ShiftExpands ==
  ASSUME NEW op \in DOMAIN ShiftMnemonics, NEW f, NEW mark \in {0, 32},
         ShiftMnemonics[op] = <<f, mark>>,
         NEW d \in Unsigned(5), NEW a \in Unsigned(5), NEW imm, imm \subseteq 0..4
  PROVE  Expands(buildI(19, f, d, a, Marked(imm, mark)), Instr(op, d, a, 0, Number(imm, 5)))
<1>1. PICK n \in Int : n = Number(imm, 5) /\ n \in 0..31 /\ n \in Unsigned(5)
  <2>1. 5 \in Nat
    OBVIOUS
  <2>2. Number(imm, 5) \in 0 .. Pow2[5] - 1
    BY <2>1, NumberType
  <2> QED
    BY <2>2, Pow2Values DEF Unsigned
<1> DEFINE i == Instr(op, d, a, 0, n)
           w == buildI(19, f, d, a, Marked(imm, mark))
<1>2. /\ i.op = op /\ i.rd = d /\ i.rs1 = a /\ i.rs2 = 0 /\ i.imm = n
      /\ i = Instr(op, d, a, 0, n)
  BY DEF Instr
<1>3. Place(n, 20) = {k + 20 : k \in imm}
  <2>1. Bits(n, 5) = imm \cap 0 .. 5 - 1
    BY <1>1, BitsOfNumber
  <2>2. imm \cap 0 .. 5 - 1 = imm
    BY AmountBits
  <2>3. 5 \in Nat /\ 5 <= 12 /\ 20 \in Int
    OBVIOUS
  <2> QED
    BY <1>1, <2>1, <2>2, <2>3, PlaceIsShift
<1>4. Move(Marked(imm, mark), 0, 11, 20) = Place(mark, 25) \cup Place(n, 20)
  <2>1. CASE mark = 0
    <3>1. Marked(imm, mark) \cap (0..11) = imm
      <4>1. Marked(imm, mark) = imm
        BY <2>1 DEF Marked
      <4> QED
        BY <4>1, AmountBits
    <3>2. \A k \in imm : k - 0 + 20 = k + 20
      OBVIOUS
    <3>3. Place(mark, 25) = {}
      BY <2>1, CodeBits
    <3> QED
      BY <1>3, <3>1, <3>2, <3>3 DEF Move
  <2>2. CASE mark = 32
    <3>1. Marked(imm, mark) \cap (0..11) = imm \cup {10}
      <4>1. Marked(imm, mark) = imm \cup {10} /\ 10 \in 0..11
        BY <2>2 DEF Marked
      <4>2. imm \cap 0..11 = imm
        BY <4>1, AmountBits
      <4> QED
        BY <4>1, <4>2
    <3>2. \A k \in imm : k - 0 + 20 = k + 20
      OBVIOUS
    <3>3. Place(mark, 25) = {30} /\ 10 - 0 + 20 = 30
      BY <2>2, CodeBits
    <3> QED
      BY <1>3, <3>1, <3>2, <3>3 DEF Move
  <2> QED
    BY <2>1, <2>2
<1>5. w = encodeRType(mark, n, a, f, d, 19) /\ Place(19, 0) \subseteq w
  <2>1. Place(0, 25) = {} /\ Place(0, 20) = {}
    BY CodeBits
  <2> QED
    BY <1>4, <2>1 DEF buildI, buildR, encodeRType
<1> HIDE DEF i, w
<1>6. validateRegisters(i)
  BY <1>2, ValidFields, Opcodes DEF validateRegisters
<1>7. w = assembleIShiftType(i) /\ w # Refused
  BY <1>1, <1>2, <1>5, <1>6, NotRefused DEF assembleIShiftType, encodeIShiftType
<1>8. Decode(w) = i
  BY <1>2, <1>7, ShiftWritten
<1>9. Assemble(i) = w
  BY <1>2, <1>7, AssembleOf
<1> QED
  BY <1>1, <1>8, <1>9 DEF Expands, i, w

\* Shifts by any amount are executed as shifts.
LEMMA ShiftExecuted ==
  ASSUME NEW f, NEW d \in Unsigned(5), NEW a \in Unsigned(5), NEW imm, imm \subseteq 0..10,
         f = 5 \/ (f = 1 /\ 10 \notin imm)
  PROVE  Decode(buildI(19, f, d, a, imm)).op \in DOMAIN ShiftMnemonics
<1>1. PICK w : w = buildI(19, f, d, a, imm)
  OBVIOUS
<1>2. w = encodeIType(imm, a, f, d, 19)
  BY <1>1, CodeBits DEF buildI, buildR, encodeIType
<1>3. Extended(imm, 11)
  BY DEF Extended, Bit
<1>4. f \in Unsigned(3)
  BY SmallNumbers
<1>5. w = encodeIType(ToBits(ToInt(imm)), a, f, d, 19)
  BY <1>2, <1>3, TwelveBits
<1>6. Field(w, 0, 6) = 19 /\ funct3(w) = f
  BY <1>3, <1>4, <1>5, TwelveBits, IFields, Opcodes
<1>7. Field(w, 30, 30) \in {0, 1} /\ (10 \notin imm => Field(w, 30, 30) = 0)
  <2>1. PICK b : b = Move(w, 30, 30, 0)
    OBVIOUS
  <2>2. Field(w, 30, 30) = Number(b, 0 + 1)
    BY <2>1 DEF Field
  <2>3. Number(b, 0) = 0 /\ Number(b, 0 + 1) = Number(b, 0) + (IF 0 \in b THEN Pow2[0] ELSE 0)
    BY NumberSteps
  <2>4. Field(w, 30, 30) = IF 0 \in b THEN 1 ELSE 0
    BY <2>2, <2>3, Pow2Next
  <2>5. 0 \in b => 30 \in w
    BY <2>1 DEF Move
  <2>6. /\ Place(a, 15) \subseteq 15..15 + 4 /\ Place(f, 12) \subseteq 12..12 + 2
        /\ Place(d, 7) \subseteq 7..7 + 4 /\ Place(19, 0) \subseteq 0..0 + 6
    BY <1>4, PlaceRanges, Opcodes
  <2>7. 30 \in w => 30 \in Move(imm, 0, 11, 20)
    BY <1>2, <2>6 DEF encodeIType
  <2>8. 30 \in Move(imm, 0, 11, 20) => 10 \in imm
    BY DEF Move
  <2> QED
    BY <2>4, <2>5, <2>7, <2>8
<1>8. /\ Labelled(ArithmeticDescriptions, f) = {}
      /\ Labelled(ShiftDescriptions, <<f, Field(w, 30, 30)>>) # {}
      /\ Labelled(ShiftDescriptions, <<f, Field(w, 30, 30)>>) \subseteq DOMAIN ShiftMnemonics
  <2>1. Labelled(ArithmeticDescriptions, 1) = {} /\ Labelled(ArithmeticDescriptions, 5) = {}
    BY DEF Labelled, ArithmeticDescriptions
  <2>2. /\ Labelled(ShiftDescriptions, <<1, 0>>) = {"slli"}
        /\ Labelled(ShiftDescriptions, <<5, 0>>) = {"srli"}
        /\ Labelled(ShiftDescriptions, <<5, 1>>) = {"srai"}
    BY DEF Labelled, ShiftDescriptions
  <2>3. {"slli", "srli", "srai"} = DOMAIN ShiftMnemonics
    BY DEF ShiftMnemonics
  <2> QED
    BY <1>7, <2>1, <2>2, <2>3
<1>9. Arithmetic(w) # {} /\ \A i \in Arithmetic(w) : i.op \in DOMAIN ShiftMnemonics
  <2>1. PICK ops : /\ ops = Labelled(ShiftDescriptions, <<f, Field(w, 30, 30)>>)
                   /\ ops # {} /\ ops \subseteq DOMAIN ShiftMnemonics
    BY <1>8
  <2>2. Arithmetic(w) = {Instr(o, rd(w), rs1(w), 0, ToNat(Move(getImmI(w), 0, 4, 0))) : o \in ops}
    BY <1>6, <1>8, <2>1 DEF Arithmetic
  <2>3. \A o, x, y, z : Instr(o, x, y, 0, z).op = o
    BY DEF Instr
  <2> QED
    BY <2>1, <2>2, <2>3
<1>10. Decode(w) = CHOOSE i \in Arithmetic(w) : TRUE
  BY <1>6, <1>9 DEF Decode
<1>11. Decode(w) \in Arithmetic(w)
  BY <1>9, <1>10
<1> QED
  BY <1>1, <1>9, <1>11

LEMMA EbreakExpands == Expands(Ebreak, Instr("ebreak", 0, 0, 0, 0))
<1>1. PICK i : i = Instr("ebreak", 0, 0, 0, 0)
  OBVIOUS
<1>2. i.op = "ebreak" /\ "ebreak" \in DOMAIN ZeroOperandMnemonics /\ ZeroOperandMnemonics[i.op] = 1
  BY <1>1 DEF Instr, ZeroOperandMnemonics
<1>3. Ebreak = assembleZeroOperandSystemInstr(i)
  <2>1. {0, 1, 4, 5, 6} \cup {20} = {0, 1, 4, 5, 6, 20}
    OBVIOUS
  <2> QED
    BY <1>2, <2>1, CodeBits DEF Ebreak, assembleZeroOperandSystemInstr
<1>4. Assemble(i) = Ebreak
  BY <1>2, <1>3, AssembleOf
<1>5. Decode(Ebreak) = i
  BY <1>1, <1>2, <1>3, ZeroOperandWritten
<1> QED
  BY <1>1, <1>4, <1>5 DEF Expands

----------------------------------------------------------------------------
(* Halfwords: every expansion is the assembly of an instruction             *)

\* Immediates of b bits without a sign, and with one.
Short(x, b, m) == b \in Nat /\ m \in 0..30 /\ b <= m /\ x \subseteq 0 .. b - 1
Signed(x, b, m) == b \in Nat /\ b > 1 /\ m \in 0..30 /\ b - 1 <= m /\ x \subseteq 0 .. b - 1

LEMMA ShortExtended ==
  ASSUME NEW x, NEW b, NEW m, Short(x, b, m)
  PROVE  Extended(x, m)
<1>1. \A k \in x : k \in Int /\ 0 <= k /\ k < b
  BY DEF Short
<1>2. \A k \in x : k \in 0..31
  BY <1>1 DEF Short
<1>3. \A k \in m..31 : k \notin x
  BY <1>1 DEF Short
<1>4. m \in m..31
  BY DEF Short
<1> QED
  BY <1>2, <1>3, <1>4 DEF Short, Extended, Bit

LEMMA SignExtended ==
  ASSUME NEW x, NEW b, NEW m, Signed(x, b, m)
  PROVE  Extended(signExtend(x, b), m) /\ (0 \notin x => 0 \notin signExtend(x, b))
<1>1. \A k \in x : k \in Int /\ 0 <= k /\ k < b /\ k \in 0..31
  BY DEF Signed
<1>2. m \in m..31 /\ m \in Int /\ b - 1 <= m /\ b \in Int
  BY DEF Signed
<1>3. CASE b - 1 \in x
  <2>1. signExtend(x, b) = x \cup (b..31)
    BY <1>3 DEF signExtend
  <2>2. \A k \in m..31 : k \in x \cup (b..31)
    BY <1>2, <1>3
  <2>3. \A k \in x \cup (b..31) : k \in 0..31
    BY <1>1, <1>2 DEF Signed
  <2>4. 0 \notin b..31
    BY DEF Signed
  <2> QED
    BY <1>2, <2>1, <2>2, <2>3, <2>4 DEF Extended, Signed, Bit
<1>4. CASE b - 1 \notin x
  <2>1. signExtend(x, b) = x
    BY <1>4 DEF signExtend
  <2>2. \A k \in m..31 : k \notin x
    BY <1>1, <1>2, <1>4
  <2>3. \A k \in x : k \in 0..31
    BY <1>1
  <2> QED
    BY <1>2, <2>1, <2>2, <2>3 DEF Extended, Signed, Bit
<1> QED
  BY <1>3, <1>4

LEMMA Imm6Bits ==
  ASSUME NEW h
  PROVE  Imm6(h) \subseteq 0..5 /\ (12 \notin h => Imm6(h) \subseteq 0..4)
<1>1. Move(h, 12, 12, 5) \subseteq 5..5 + 12 - 12 /\ Move(h, 2, 6, 0) \subseteq 0..0 + 6 - 2
  BY MoveRange
<1>2. 12 \notin h => Move(h, 12, 12, 5) = {}
  BY DEF Move
<1>3. \A k \in Imm6(h) : k \in 5..5 + 12 - 12 \/ k \in 0..0 + 6 - 2
  BY <1>1 DEF Imm6
<1>4. 12 \notin h => \A k \in Imm6(h) : k \in 0..0 + 6 - 2
  BY <1>1, <1>2 DEF Imm6
<1> QED
  BY <1>3, <1>4

LEMMA CompressedImmediates ==
  ASSUME NEW h
  PROVE  /\ Extended(Imm4spn(h), 11) /\ Extended(ImmLwSw(h), 11) /\ Extended(ImmLwsp(h), 11)
         /\ Extended(ImmSwsp(h), 11) /\ Extended({}, 11)
         /\ Extended(signExtend(Imm6(h), 6), 11) /\ Extended(Imm16sp(h), 11)
         /\ Extended(ImmB(h), 12) /\ 0 \notin ImmB(h)
         /\ Extended(ImmJ(h), 20) /\ 0 \notin ImmJ(h)
<1>1. Short(Imm4spn(h), 10, 11)
  <2>1. /\ Move(h, 7, 10, 6) \subseteq 6..6 + 10 - 7 /\ Move(h, 11, 12, 4) \subseteq 4..4 + 12 - 11
        /\ Move(h, 5, 5, 3) \subseteq 3..3 + 5 - 5 /\ Move(h, 6, 6, 2) \subseteq 2..2 + 6 - 6
    BY MoveRange
  <2> QED
    BY <2>1 DEF Imm4spn, Short
<1>2. Short(ImmLwSw(h), 7, 11)
  <2>1. /\ Move(h, 5, 5, 6) \subseteq 6..6 + 5 - 5 /\ Move(h, 10, 12, 3) \subseteq 3..3 + 12 - 10
        /\ Move(h, 6, 6, 2) \subseteq 2..2 + 6 - 6
    BY MoveRange
  <2> QED
    BY <2>1 DEF ImmLwSw, Short
<1>3. Short(ImmLwsp(h), 8, 11)
  <2>1. /\ Move(h, 2, 3, 6) \subseteq 6..6 + 3 - 2 /\ Move(h, 12, 12, 5) \subseteq 5..5 + 12 - 12
        /\ Move(h, 4, 6, 2) \subseteq 2..2 + 6 - 4
    BY MoveRange
  <2> QED
    BY <2>1 DEF ImmLwsp, Short
<1>4. Short(ImmSwsp(h), 8, 11)
  <2>1. Move(h, 7, 8, 6) \subseteq 6..6 + 8 - 7 /\ Move(h, 9, 12, 2) \subseteq 2..2 + 12 - 9
    BY MoveRange
  <2> QED
    BY <2>1 DEF ImmSwsp, Short
<1>5. Short({}, 0, 11)
  BY DEF Short
<1>6. Signed(Imm6(h), 6, 11)
  BY Imm6Bits DEF Signed
<1>7. PICK x : Signed(x, 10, 11) /\ Imm16sp(h) = signExtend(x, 10)
  <2>1. /\ Move(h, 12, 12, 9) \subseteq 9..9 + 12 - 12 /\ Move(h, 3, 4, 7) \subseteq 7..7 + 4 - 3
        /\ Move(h, 5, 5, 6) \subseteq 6..6 + 5 - 5 /\ Move(h, 2, 2, 5) \subseteq 5..5 + 2 - 2
        /\ Move(h, 6, 6, 4) \subseteq 4..4 + 6 - 6
    BY MoveRange
  <2>2. PICK x : x = Move(h, 12, 12, 9) \cup Move(h, 3, 4, 7) \cup Move(h, 5, 5, 6)
                       \cup Move(h, 2, 2, 5) \cup Move(h, 6, 6, 4)
    OBVIOUS
  <2>3. Signed(x, 10, 11)
    BY <2>1, <2>2 DEF Signed
  <2> QED
    BY <2>2, <2>3 DEF Imm16sp
<1>8. PICK y : Signed(y, 9, 12) /\ 0 \notin y /\ ImmB(h) = signExtend(y, 9)
  <2>1. /\ Move(h, 12, 12, 8) \subseteq 8..8 + 12 - 12 /\ Move(h, 5, 6, 6) \subseteq 6..6 + 6 - 5
        /\ Move(h, 2, 2, 5) \subseteq 5..5 + 2 - 2 /\ Move(h, 10, 11, 3) \subseteq 3..3 + 11 - 10
        /\ Move(h, 3, 4, 1) \subseteq 1..1 + 4 - 3
    BY MoveRange
  <2>2. PICK y : y = Move(h, 12, 12, 8) \cup Move(h, 5, 6, 6) \cup Move(h, 2, 2, 5)
                       \cup Move(h, 10, 11, 3) \cup Move(h, 3, 4, 1)
    OBVIOUS
  <2>3. Signed(y, 9, 12) /\ 0 \notin y
    BY <2>1, <2>2 DEF Signed
  <2> QED
    BY <2>2, <2>3 DEF ImmB
<1>9. PICK z : Signed(z, 12, 20) /\ 0 \notin z /\ ImmJ(h) = signExtend(z, 12)
  <2>1. /\ Move(h, 12, 12, 11) \subseteq 11..11 + 12 - 12 /\ Move(h, 8, 8, 10) \subseteq 10..10 + 8 - 8
        /\ Move(h, 9, 10, 8) \subseteq 8..8 + 10 - 9 /\ Move(h, 6, 6, 7) \subseteq 7..7 + 6 - 6
        /\ Move(h, 7, 7, 6) \subseteq 6..6 + 7 - 7 /\ Move(h, 2, 2, 5) \subseteq 5..5 + 2 - 2
        /\ Move(h, 11, 11, 4) \subseteq 4..4 + 11 - 11 /\ Move(h, 3, 5, 1) \subseteq 1..1 + 5 - 3
    BY MoveRange
  <2>2. PICK z : z = Move(h, 12, 12, 11) \cup Move(h, 8, 8, 10) \cup Move(h, 9, 10, 8)
                       \cup Move(h, 6, 6, 7) \cup Move(h, 7, 7, 6) \cup Move(h, 2, 2, 5)
                       \cup Move(h, 11, 11, 4) \cup Move(h, 3, 5, 1)
    OBVIOUS
  <2>3. Signed(z, 12, 20) /\ 0 \notin z
    BY <2>1, <2>2 DEF Signed
  <2> QED
    BY <2>2, <2>3 DEF ImmJ
<1>10. /\ Extended(Imm4spn(h), 11) /\ Extended(ImmLwSw(h), 11) /\ Extended(ImmLwsp(h), 11)
       /\ Extended(ImmSwsp(h), 11) /\ Extended({}, 11)
  BY <1>1, <1>2, <1>3, <1>4, <1>5, ShortExtended
<1>11. Extended(signExtend(Imm6(h), 6), 11) /\ Extended(Imm16sp(h), 11)
  BY <1>6, <1>7, SignExtended
<1>12. Extended(ImmB(h), 12) /\ 0 \notin ImmB(h) /\ Extended(ImmJ(h), 20) /\ 0 \notin ImmJ(h)
  BY <1>8, <1>9, SignExtended
<1> QED
  BY <1>10, <1>11, <1>12

----------------------------------------------------------------------------
(* Halfwords: every case of decompress                                      *)

\* The word w is the assembly of the instruction it is executed as, no jump.
Plain(w) == \E i : Expands(w, i) /\ i.op \in Mnemonics /\ i.op # "jal"

\* The mnemonics that halfwords are expanded to.
LEMMA ExpansionMnemonics ==
  /\ "add" \in DOMAIN RMnemonics /\ RMnemonics["add"] = <<0, 0>>
  /\ "sub" \in DOMAIN RMnemonics /\ RMnemonics["sub"] = <<0, 32>>
  /\ "xor" \in DOMAIN RMnemonics /\ RMnemonics["xor"] = <<4, 0>>
  /\ "or" \in DOMAIN RMnemonics /\ RMnemonics["or"] = <<6, 0>>
  /\ "and" \in DOMAIN RMnemonics /\ RMnemonics["and"] = <<7, 0>>
  /\ "addi" \in DOMAIN IMnemonics /\ IMnemonics["addi"] = 0
  /\ "andi" \in DOMAIN IMnemonics /\ IMnemonics["andi"] = 7
  /\ "slli" \in DOMAIN ShiftMnemonics /\ ShiftMnemonics["slli"] = <<1, 0>>
  /\ "srli" \in DOMAIN ShiftMnemonics /\ ShiftMnemonics["srli"] = <<5, 0>>
  /\ "srai" \in DOMAIN ShiftMnemonics /\ ShiftMnemonics["srai"] = <<5, 32>>
  /\ "lw" \in DOMAIN LoadMnemonics /\ LoadMnemonics["lw"] = <<2, 3>>
  /\ "jalr" \in DOMAIN LoadMnemonics /\ LoadMnemonics["jalr"] = <<0, 103>>
  /\ "sw" \in DOMAIN SMnemonics /\ SMnemonics["sw"] = 2
  /\ "beq" \in DOMAIN BMnemonics /\ BMnemonics["beq"] = 0
  /\ "bne" \in DOMAIN BMnemonics /\ BMnemonics["bne"] = 1
BY DEF RMnemonics, IMnemonics, ShiftMnemonics, LoadMnemonics, SMnemonics, BMnemonics

LEMMA PlainMnemonics ==
  /\ {"add", "sub", "xor", "or", "and", "addi", "andi", "slli", "srli", "srai", "lw", "jalr",
      "sw", "beq", "bne", "lui", "ebreak"} \subseteq Mnemonics
  /\ "jal" \notin {"add", "sub", "xor", "or", "and", "addi", "andi", "slli", "srli", "srai",
                   "lw", "jalr", "sw", "beq", "bne", "lui", "ebreak"}
<1>1. "lui" \in DOMAIN UMnemonics /\ "ebreak" \in DOMAIN ZeroOperandMnemonics
  BY DEF UMnemonics, ZeroOperandMnemonics
<1> QED
  BY <1>1, ExpansionMnemonics DEF Mnemonics

\* The instructions that halfwords are expanded to, jumps and shifts apart.
LEMMA ExpandedR ==
  ASSUME NEW d \in Unsigned(5), NEW a \in Unsigned(5), NEW b \in Unsigned(5)
  PROVE  /\ Expands(buildR(51, 0, 0, d, a, b), Instr("add", d, a, b, 0))
         /\ Expands(buildR(51, 0, 32, d, a, b), Instr("sub", d, a, b, 0))
         /\ Expands(buildR(51, 4, 0, d, a, b), Instr("xor", d, a, b, 0))
         /\ Expands(buildR(51, 6, 0, d, a, b), Instr("or", d, a, b, 0))
         /\ Expands(buildR(51, 7, 0, d, a, b), Instr("and", d, a, b, 0))
<1>1. \A op \in DOMAIN RMnemonics : \A f, f7 :
        RMnemonics[op] = <<f, f7>> => Expands(buildR(51, f, f7, d, a, b), Instr(op, d, a, b, 0))
  BY RExpands
<1>2. Expands(buildR(51, 0, 0, d, a, b), Instr("add", d, a, b, 0))
  BY <1>1, ExpansionMnemonics
<1>3. Expands(buildR(51, 0, 32, d, a, b), Instr("sub", d, a, b, 0))
  BY <1>1, ExpansionMnemonics
<1>4. Expands(buildR(51, 4, 0, d, a, b), Instr("xor", d, a, b, 0))
  BY <1>1, ExpansionMnemonics
<1>5. Expands(buildR(51, 6, 0, d, a, b), Instr("or", d, a, b, 0))
  BY <1>1, ExpansionMnemonics
<1>6. Expands(buildR(51, 7, 0, d, a, b), Instr("and", d, a, b, 0))
  BY <1>1, ExpansionMnemonics
<1> QED
  BY <1>2, <1>3, <1>4, <1>5, <1>6

LEMMA ExpandedI ==
  ASSUME NEW d \in Unsigned(5), NEW a \in Unsigned(5), NEW imm, Extended(imm, 11)
  PROVE  /\ Expands(buildI(19, 0, d, a, imm), Instr("addi", d, a, 0, ToInt(imm)))
         /\ Expands(buildI(19, 7, d, a, imm), Instr("andi", d, a, 0, ToInt(imm)))
         /\ Expands(buildI(3, 2, d, a, imm), Instr("lw", d, a, 0, ToInt(imm)))
         /\ Expands(buildI(103, 0, d, a, imm), Instr("jalr", d, a, 0, ToInt(imm)))
<1>1. \A op \in DOMAIN IMnemonics : \A f :
        IMnemonics[op] = f => Expands(buildI(19, f, d, a, imm), Instr(op, d, a, 0, ToInt(imm)))
  BY IExpands
<1>2. \A op \in DOMAIN LoadMnemonics : \A f : \A opcode \in {3, 103} :
        LoadMnemonics[op] = <<f, opcode>> =>
          Expands(buildI(opcode, f, d, a, imm), Instr(op, d, a, 0, ToInt(imm)))
  BY LoadExpands
<1>3. /\ Expands(buildI(19, 0, d, a, imm), Instr("addi", d, a, 0, ToInt(imm)))
      /\ Expands(buildI(19, 7, d, a, imm), Instr("andi", d, a, 0, ToInt(imm)))
  BY <1>1, ExpansionMnemonics
<1>4. Expands(buildI(3, 2, d, a, imm), Instr("lw", d, a, 0, ToInt(imm)))
  BY <1>2, ExpansionMnemonics
<1>5. Expands(buildI(103, 0, d, a, imm), Instr("jalr", d, a, 0, ToInt(imm)))
  BY <1>2, ExpansionMnemonics
<1> QED
  BY <1>3, <1>4, <1>5

LEMMA ExpandedSB ==
  ASSUME NEW a \in Unsigned(5), NEW b \in Unsigned(5), NEW imm
  PROVE  /\ Extended(imm, 11) =>
              Expands(buildS(35, 2, a, b, imm), Instr("sw", 0, a, b, ToInt(imm)))
         /\ Extended(imm, 12) /\ 0 \notin imm =>
              /\ Expands(buildB(99, 0, a, b, imm), Instr("beq", 0, a, b, ToInt(imm)))
              /\ Expands(buildB(99, 1, a, b, imm), Instr("bne", 0, a, b, ToInt(imm)))
<1>1. ASSUME Extended(imm, 11)
      PROVE  Expands(buildS(35, 2, a, b, imm), Instr("sw", 0, a, b, ToInt(imm)))
  BY <1>1, SExpands, ExpansionMnemonics
<1>2. ASSUME Extended(imm, 12), 0 \notin imm
      PROVE  /\ Expands(buildB(99, 0, a, b, imm), Instr("beq", 0, a, b, ToInt(imm)))
             /\ Expands(buildB(99, 1, a, b, imm), Instr("bne", 0, a, b, ToInt(imm)))
  <2>1. Expands(buildB(99, 0, a, b, imm), Instr("beq", 0, a, b, ToInt(imm)))
    BY <1>2, BExpands, ExpansionMnemonics
  <2>2. Expands(buildB(99, 1, a, b, imm), Instr("bne", 0, a, b, ToInt(imm)))
    BY <1>2, BExpands, ExpansionMnemonics
  <2> QED
    BY <2>1, <2>2
<1> QED
  BY <1>1, <1>2

LEMMA PlainInstr ==
  ASSUME NEW op \in Mnemonics, op # "jal", NEW d, NEW a, NEW b, NEW n, NEW w,
         Expands(w, Instr(op, d, a, b, n))
  PROVE  Plain(w)
<1>1. Instr(op, d, a, b, n).op = op
  BY DEF Instr
<1> QED
  BY <1>1 DEF Plain

LEMMA PlainR ==
  ASSUME NEW d \in Unsigned(5), NEW a \in Unsigned(5), NEW b \in Unsigned(5)
  PROVE  /\ Plain(buildR(51, 0, 0, d, a, b)) /\ Plain(buildR(51, 0, 32, d, a, b))
         /\ Plain(buildR(51, 4, 0, d, a, b)) /\ Plain(buildR(51, 6, 0, d, a, b))
         /\ Plain(buildR(51, 7, 0, d, a, b))
BY ExpandedR, PlainMnemonics, PlainInstr

LEMMA PlainI ==
  ASSUME NEW d \in Unsigned(5), NEW a \in Unsigned(5), NEW imm, Extended(imm, 11)
  PROVE  /\ Plain(buildI(19, 0, d, a, imm)) /\ Plain(buildI(19, 7, d, a, imm))
         /\ Plain(buildI(3, 2, d, a, imm)) /\ Plain(buildI(103, 0, d, a, imm))
BY ExpandedI, PlainMnemonics, PlainInstr

LEMMA PlainSB ==
  ASSUME NEW a \in Unsigned(5), NEW b \in Unsigned(5), NEW imm
  PROVE  /\ Extended(imm, 11) => Plain(buildS(35, 2, a, b, imm))
         /\ Extended(imm, 12) /\ 0 \notin imm =>
              Plain(buildB(99, 0, a, b, imm)) /\ Plain(buildB(99, 1, a, b, imm))
BY ExpandedSB, PlainMnemonics, PlainInstr

LEMMA PlainU ==
  ASSUME NEW d \in Unsigned(5), NEW imm, imm \subseteq Bit
  PROVE  Plain(buildU(55, d, {k + 12 : k \in imm}))
<1>1. Expands(buildU(55, d, {k + 12 : k \in imm}), Instr("lui", d, 0, 0, Number(imm, 20)))
  BY UExpands
<1> QED
  BY <1>1, PlainMnemonics, PlainInstr

LEMMA PlainShift ==
  ASSUME NEW d \in Unsigned(5), NEW a \in Unsigned(5), NEW imm, imm \subseteq 0..4
  PROVE  /\ Plain(buildI(19, 1, d, a, imm)) /\ Plain(buildI(19, 5, d, a, imm))
         /\ Plain(buildI(19, 5, d, a, imm \cup {10}))
<1>1. Marked(imm, 0) = imm /\ Marked(imm, 32) = imm \cup {10}
  BY DEF Marked
<1>2. Expands(buildI(19, 1, d, a, Marked(imm, 0)), Instr("slli", d, a, 0, Number(imm, 5)))
  BY ShiftExpands, ExpansionMnemonics
<1>3. Expands(buildI(19, 5, d, a, Marked(imm, 0)), Instr("srli", d, a, 0, Number(imm, 5)))
  BY ShiftExpands, ExpansionMnemonics
<1>4. Expands(buildI(19, 5, d, a, Marked(imm, 32)), Instr("srai", d, a, 0, Number(imm, 5)))
  <2>1. \A op \in DOMAIN ShiftMnemonics : \A f : \A mark \in {0, 32} :
          ShiftMnemonics[op] = <<f, mark>> =>
            Expands(buildI(19, f, d, a, Marked(imm, mark)), Instr(op, d, a, 0, Number(imm, 5)))
    BY ShiftExpands
  <2> QED
    BY <2>1, ExpansionMnemonics
<1>5. /\ Expands(buildI(19, 1, d, a, imm), Instr("slli", d, a, 0, Number(imm, 5)))
      /\ Expands(buildI(19, 5, d, a, imm), Instr("srli", d, a, 0, Number(imm, 5)))
      /\ Expands(buildI(19, 5, d, a, imm \cup {10}), Instr("srai", d, a, 0, Number(imm, 5)))
  BY <1>1, <1>2, <1>3, <1>4
<1> QED
  BY <1>5, PlainMnemonics, PlainInstr

\* What a halfword is expanded to: nothing, an instruction other than a jump, a
\* jump, or a shift by 32 or more.
JumpOf(h, w, d) ==
  /\ Expands(w, Instr("jal", d, 0, 0, ToInt(ImmJ(h))))
  /\ Field(h, 0, 1) = 1 /\ Field(h, 13, 15) = IF d = 1 THEN 1 ELSE 5
Understood(h, w) ==
  \/ w = Illegal
  \/ Plain(w)
  \/ \E d \in {0, 1} : JumpOf(h, w, d)
  \/ 12 \in h /\ Decode(w).op \in DOMAIN ShiftMnemonics

LEMMA JumpsUnderstood ==
  ASSUME NEW h, NEW d \in {0, 1},
         Field(h, 0, 1) = 1, Field(h, 13, 15) = IF d = 1 THEN 1 ELSE 5
  PROVE  Understood(h, buildJ(111, d, ImmJ(h)))
<1>1. d \in Unsigned(5)
  BY SmallNumbers
<1>2. Expands(buildJ(111, d, ImmJ(h)), Instr("jal", d, 0, 0, ToInt(ImmJ(h))))
  BY <1>1, CompressedImmediates, JExpands
<1> QED
  BY <1>2 DEF JumpOf, Understood

LEMMA ShiftsDecoded ==
  ASSUME NEW h, NEW d \in Unsigned(5)
  PROVE  /\ Decode(buildI(19, 1, d, d, Imm6(h))).op \in DOMAIN ShiftMnemonics
         /\ Decode(buildI(19, 5, d, d, Imm6(h))).op \in DOMAIN ShiftMnemonics
         /\ Decode(buildI(19, 5, d, d, SraiImm(h))).op \in DOMAIN ShiftMnemonics
<1>1. \A imm : imm \subseteq 0..10 =>
        /\ Decode(buildI(19, 5, d, d, imm)).op \in DOMAIN ShiftMnemonics
        /\ 10 \notin imm => Decode(buildI(19, 1, d, d, imm)).op \in DOMAIN ShiftMnemonics
  BY ShiftExecuted
<1>2. Imm6(h) \subseteq 0..10 /\ 10 \notin Imm6(h) /\ SraiImm(h) \subseteq 0..10
  <2>1. \A k \in Imm6(h) : k \in 0..10 /\ k # 10
    BY Imm6Bits
  <2> QED
    BY <2>1 DEF SraiImm
<1> QED
  BY <1>1, <1>2

LEMMA ShiftsUnderstood ==
  ASSUME NEW h, NEW d \in Unsigned(5)
  PROVE  /\ Understood(h, buildI(19, 1, d, d, Imm6(h)))
         /\ Understood(h, buildI(19, 5, d, d, Imm6(h)))
         /\ Understood(h, buildI(19, 5, d, d, SraiImm(h)))
<1>1. CASE 12 \notin h
  <2>1. Imm6(h) \subseteq 0..4
    BY <1>1, Imm6Bits
  <2> QED
    BY <2>1, PlainShift DEF SraiImm, Understood
<1>2. CASE 12 \in h
  BY <1>2, ShiftsDecoded DEF Understood
<1> QED
  BY <1>1, <1>2

LEMMA MiscAluUnderstood ==
  ASSUME NEW h
  PROVE  Understood(h, MiscAlu(h))
<1>1. Field(h, 10, 11) \in {0, 1, 2, 3} /\ Field(h, 5, 6) \in {0, 1, 2, 3}
  BY CompressedRegisters
<1>2. PICK d \in Unsigned(5), b \in Unsigned(5) :
        d = getRvcRegister(h, 7) /\ b = getRvcRegister(h, 2)
  BY CompressedRegisters
<1>3. /\ Understood(h, buildI(19, 5, d, d, Imm6(h)))
      /\ Understood(h, buildI(19, 5, d, d, SraiImm(h)))
  BY ShiftsUnderstood
<1>4. Understood(h, buildI(19, 7, d, d, signExtend(Imm6(h), 6)))
  BY CompressedImmediates, PlainI DEF Understood
<1>5. /\ Understood(h, buildR(51, 0, 32, d, d, b)) /\ Understood(h, buildR(51, 4, 0, d, d, b))
      /\ Understood(h, buildR(51, 6, 0, d, d, b)) /\ Understood(h, buildR(51, 7, 0, d, d, b))
  BY PlainR DEF Understood
<1>6. MiscAlu(h) \in {buildI(19, 5, d, d, Imm6(h)), buildI(19, 5, d, d, SraiImm(h)),
                      buildI(19, 7, d, d, signExtend(Imm6(h), 6)),
                      buildR(51, 0, 32, d, d, b), buildR(51, 4, 0, d, d, b),
                      buildR(51, 6, 0, d, d, b), buildR(51, 7, 0, d, d, b)}
  BY <1>1, <1>2 DEF MiscAlu
<1> QED
  BY <1>3, <1>4, <1>5, <1>6

LEMMA JumpMoveAddUnderstood ==
  ASSUME NEW h
  PROVE  Understood(h, JumpMoveAdd(h))
<1>1. PICK d \in Unsigned(5), b \in Unsigned(5) : d = Register5(h) /\ b = Field(h, 2, 6)
  BY CompressedRegisters
<1>2. 0 \in Unsigned(5) /\ 1 \in Unsigned(5)
  BY SmallNumbers
<1>3. Plain(buildI(103, 0, 0, d, {})) /\ Plain(buildI(103, 0, 1, d, {}))
  BY <1>2, CompressedImmediates, PlainI
<1>4. Plain(buildR(51, 0, 0, d, d, b)) /\ Plain(buildR(51, 0, 0, d, 0, b))
  BY <1>2, PlainR
<1>5. Plain(Ebreak)
  BY EbreakExpands, PlainMnemonics, PlainInstr
<1>6. JumpMoveAdd(h) \in {buildI(103, 0, 0, d, {}), buildI(103, 0, 1, d, {}),
                          buildR(51, 0, 0, d, d, b), buildR(51, 0, 0, d, 0, b),
                          Ebreak, Illegal}
  BY <1>1 DEF JumpMoveAdd
<1> QED
  BY <1>3, <1>4, <1>5, <1>6 DEF Understood

LEMMA Expansion ==
  ASSUME NEW h
  PROVE  Understood(h, decompress(h))
<1>1. PICK d \in Unsigned(5), a \in Unsigned(5), r \in Unsigned(5), b \in Unsigned(5) :
        /\ d = getRvcRegister(h, 2) /\ a = getRvcRegister(h, 7)
        /\ r = Register5(h) /\ b = Field(h, 2, 6)
  BY CompressedRegisters
<1>2. 0 \in Unsigned(5) /\ 2 \in Unsigned(5)
  BY SmallNumbers
<1>3. Understood(h, Illegal)
  BY DEF Understood
<1>4. Understood(h, Addi4spn(h))
  BY <1>1, <1>2, <1>3, CompressedImmediates, PlainI DEF Addi4spn, Understood
<1>5. Understood(h, Addi(h))
  BY <1>1, CompressedImmediates, PlainI DEF Addi, Understood
<1>6. Understood(h, Li(h))
  BY <1>1, <1>2, <1>3, CompressedImmediates, PlainI DEF Li, Understood
<1>7. Understood(h, LuiOrAddi16sp(h))
  <2>1. Plain(buildI(19, 0, 2, 2, Imm16sp(h)))
    BY <1>2, CompressedImmediates, PlainI
  <2>2. Plain(buildU(55, r, {k + 12 : k \in signExtend(Imm6(h), 6)}))
    BY CompressedImmediates, PlainU DEF Extended
  <2>3. LuiOrAddi16sp(h) \in {buildI(19, 0, 2, 2, Imm16sp(h)),
                              buildU(55, r, {k + 12 : k \in signExtend(Imm6(h), 6)}), Illegal}
    BY <1>1 DEF LuiOrAddi16sp
  <2> QED
    BY <2>1, <2>2, <2>3 DEF Understood
<1>8. Understood(h, Branch(h, 0)) /\ Understood(h, Branch(h, 1))
  BY <1>1, <1>2, CompressedImmediates, PlainSB DEF Branch, Understood
<1>9. Understood(h, Slli(h))
  BY <1>1, <1>3, ShiftsUnderstood DEF Slli
<1>10. Understood(h, Lwsp(h))
  BY <1>1, <1>2, <1>3, CompressedImmediates, PlainI DEF Lwsp, Understood
<1>11. /\ Understood(h, buildI(3, 2, d, a, ImmLwSw(h)))
       /\ Understood(h, buildS(35, 2, a, d, ImmLwSw(h)))
       /\ Understood(h, buildS(35, 2, 2, b, ImmSwsp(h)))
  BY <1>2, CompressedImmediates, PlainI, PlainSB DEF Understood
<1>12. Field(h, 0, 1) = 1 =>
         /\ Field(h, 13, 15) = 1 => Understood(h, buildJ(111, 1, ImmJ(h)))
         /\ Field(h, 13, 15) = 5 => Understood(h, buildJ(111, 0, ImmJ(h)))
  <2>1. \A d0 \in {0, 1} : Field(h, 0, 1) = 1 /\ Field(h, 13, 15) = (IF d0 = 1 THEN 1 ELSE 5)
          => Understood(h, buildJ(111, d0, ImmJ(h)))
    BY JumpsUnderstood
  <2> QED
    BY <2>1
<1> QED
  BY <1>1, <1>3, <1>4, <1>5, <1>6, <1>7, <1>8, <1>9, <1>10, <1>11, <1>12,
     MiscAluUnderstood, JumpMoveAddUnderstood DEF decompress

----------------------------------------------------------------------------
(* Halfwords: the invariant, that the word executed is the halfword's       *)

WordOfHalfword ==
  /\ stage = "halfword" => word = decompress(half)
  /\ stage = "done" /\ line = Unrecognised => word = decompress(half) /\ executed = Decode(word)

LEMMA NotRecognised == "none" \notin Mnemonics
BY DEF Mnemonics, RMnemonics, AmoMnemonics, BMnemonics, UMnemonics, IMnemonics, ShiftMnemonics,
       LoadMnemonics, SMnemonics, CsrRegMnemonics, CsrImmMnemonics, ZeroOperandMnemonics

\* Halfwords alone have no line.
LEMMA LinesRecognised == Unrecognised \notin Lines
<1>1. Unrecognised.op = "none"
  BY DEF Unrecognised, Instr
<1>2. \A op, d, a, b, n : Instr(op, d, a, b, n).op = op
  BY DEF Instr
<1> SUFFICES \A i \in Lines : i.op \in Mnemonics
  BY <1>1, NotRecognised
<1> USE <1>2
<1>3. \A op \in RegisterForms : op \in Mnemonics
  BY DEF RegisterForms, Mnemonics
<1>4. \A op \in DOMAIN BMnemonics \cup DOMAIN SMnemonics : op \in Mnemonics
  BY DEF Mnemonics
<1>5. \A op \in {"jal"} \cup DOMAIN UMnemonics : op \in Mnemonics
  BY DEF Mnemonics
<1>6. \A op \in DOMAIN IMnemonics \cup DOMAIN ShiftMnemonics \cup DOMAIN LoadMnemonics
                  \cup DOMAIN CsrRegMnemonics \cup DOMAIN CsrImmMnemonics : op \in Mnemonics
  BY DEF Mnemonics
<1>7. \A op \in DOMAIN ZeroOperandMnemonics \cup {"lr", "sfence_vma"} : op \in Mnemonics
  BY DEF Mnemonics
<1>8. TAKE i \in Lines
<1>9. \E op \in Mnemonics : \E d, a, b, n : i = Instr(op, d, a, b, n)
  BY <1>3, <1>4, <1>5, <1>6, <1>7 DEF Lines
<1> QED
  BY <1>9

LEMMA NextHalfword == IInv /\ WordOfHalfword /\ [Next]_vars => WordOfHalfword'
<1> SUFFICES ASSUME IInv, WordOfHalfword, [Next]_vars PROVE WordOfHalfword'
  OBVIOUS
<1>1. CASE Compile
  BY <1>1 DEF Compile, WordOfHalfword
<1>2. CASE Fetch
  BY <1>2 DEF Fetch, WordOfHalfword
<1>3. CASE Execute
  <2>1. stage = "text" => line # Unrecognised
    BY LinesRecognised DEF IInv, WordOfLine
  <2> QED
    BY <1>3, <2>1 DEF Execute, WordOfHalfword
<1>4. CASE Proceed
  BY <1>4 DEF Proceed, WordOfHalfword
<1>5. CASE UNCHANGED vars
  BY <1>5 DEF vars, WordOfHalfword
<1> QED
  BY <1>1, <1>2, <1>3, <1>4, <1>5 DEF Next

LEMMA SpecHalfword == Spec => [](IInv /\ WordOfHalfword)
<1>1. Init => WordOfHalfword
  BY DEF Init, WordOfHalfword
<1> QED
  BY <1>1, InitIInv, NextIInv, NextHalfword, PTL DEF Spec

(* Whatever halfword is fetched, a word that decompress does not refuse is  *)
(* recognised by the dispatchers of Instruction::execute, and assembling    *)
(* what it is executed as gives that very word back: the builders of CType, *)
(* the dispatchers and the encoders of the assembler agree bit for bit, but *)
(* for a shift by 32 or more.                                               *)
THEOREM ExpansionsAreAssembly == Spec => []ExpansionIsAssembly
<1>1. IInv /\ WordOfHalfword => ExpansionIsAssembly
  <2> SUFFICES ASSUME WordOfHalfword, FromHalfword, word # Illegal
               PROVE  executed # Unrecognised /\ (LongShift \/ Assemble(executed) = word)
    BY DEF ExpansionIsAssembly
  <2>1. Understood(half, word) /\ executed = Decode(word)
    BY Expansion DEF FromHalfword, WordOfHalfword
  <2>2. Unrecognised.op = "none" /\ "jal" \in Mnemonics /\ DOMAIN ShiftMnemonics \subseteq Mnemonics
    BY DEF Unrecognised, Instr, Mnemonics
  <2>3. CASE Plain(word)
    BY <2>1, <2>2, <2>3, NotRecognised DEF Plain, Expands
  <2>4. CASE \E d \in {0, 1} : JumpOf(half, word, d)
    <3>1. PICK d \in {0, 1} : Expands(word, Instr("jal", d, 0, 0, ToInt(ImmJ(half))))
      BY <2>4 DEF JumpOf
    <3>2. Instr("jal", d, 0, 0, ToInt(ImmJ(half))).op = "jal"
      BY DEF Instr
    <3> QED
      BY <2>1, <2>2, <3>1, <3>2, NotRecognised DEF Expands
  <2>5. CASE 12 \in half /\ Decode(word).op \in DOMAIN ShiftMnemonics
    BY <2>1, <2>2, <2>5, NotRecognised DEF LongShift
  <2> QED
    BY <2>1, <2>3, <2>4, <2>5 DEF Understood
<1> QED
  BY <1>1, SpecHalfword, PTL

----------------------------------------------------------------------------
(* Halfwords: where a compressed jump goes                                  *)

LEMMA MovedBit ==
  ASSUME NEW w, NEW k \in Int
  PROVE  \A x, y, at \in Int :
           k \in Move(w, x, y, at) <=> (k + x - at \in w /\ x <= k + x - at /\ k + x - at <= y)
<1> TAKE x, y, at \in Int
<1>1. ASSUME k + x - at \in w, x <= k + x - at, k + x - at <= y PROVE k \in Move(w, x, y, at)
  <2>1. k = (k + x - at) - x + at /\ k + x - at \in w \cap (x..y)
    BY <1>1
  <2> QED
    BY <2>1 DEF Move
<1>2. ASSUME k \in Move(w, x, y, at)
      PROVE  k + x - at \in w /\ x <= k + x - at /\ k + x - at <= y
  <2>1. PICK j \in w \cap (x..y) : k = j - x + at
    BY <1>2 DEF Move
  <2>2. j = k + x - at
    BY <2>1
  <2> QED
    BY <2>1, <2>2
<1> QED
  BY <1>1, <1>2

LEMMA MovedOne ==
  ASSUME NEW w, NEW k \in Int
  PROVE  \A x, at \in Int : k \in Move(w, x, x, at) <=> k = at /\ x \in w
<1> TAKE x, at \in Int
<1>1. (x <= k + x - at /\ k + x - at <= x) <=> k = at
  OBVIOUS
<1>2. k = at => k + x - at = x
  OBVIOUS
<1>3. k \in Move(w, x, x, at) <=> (k + x - at \in w /\ x <= k + x - at /\ k + x - at <= x)
  BY MovedBit
<1> QED
  BY <1>1, <1>2, <1>3

\* The halfword's bits in the offset.
LEMMA JumpOffsetBits ==
  ASSUME NEW h, h \subseteq 0..15
  PROVE  \A k \in 1..11 :
           k \in ImmJ(h) <=>
             \/ k = 11 /\ 12 \in h
             \/ k = 10 /\ 8 \in h
             \/ k \in 8..9 /\ k + 1 \in h
             \/ k = 7 /\ 6 \in h
             \/ k = 6 /\ 7 \in h
             \/ k = 5 /\ 2 \in h
             \/ k = 4 /\ 11 \in h
             \/ k \in 1..3 /\ k + 2 \in h
<1> SUFFICES ASSUME NEW k \in 1..11
             PROVE  k \in ImmJ(h) <=>
                      \/ k = 11 /\ 12 \in h
                      \/ k = 10 /\ 8 \in h
                      \/ k \in 8..9 /\ k + 1 \in h
                      \/ k = 7 /\ 6 \in h
                      \/ k = 6 /\ 7 \in h
                      \/ k = 5 /\ 2 \in h
                      \/ k = 4 /\ 11 \in h
                      \/ k \in 1..3 /\ k + 2 \in h
  OBVIOUS
<1>1. \A x, y, at \in Int :
        k \in Move(h, x, y, at) <=> (k + x - at \in h /\ x <= k + x - at /\ k + x - at <= y)
  BY MovedBit
<1>2. \A x, at \in Int : k \in Move(h, x, x, at) <=> k = at /\ x \in h
  BY MovedOne
<1>3. /\ k \in Move(h, 12, 12, 11) <=> k = 11 /\ 12 \in h
      /\ k \in Move(h, 8, 8, 10) <=> k = 10 /\ 8 \in h
      /\ k \in Move(h, 6, 6, 7) <=> k = 7 /\ 6 \in h
      /\ k \in Move(h, 7, 7, 6) <=> k = 6 /\ 7 \in h
      /\ k \in Move(h, 2, 2, 5) <=> k = 5 /\ 2 \in h
      /\ k \in Move(h, 11, 11, 4) <=> k = 4 /\ 11 \in h
  BY <1>2
<1>4. k \in Move(h, 9, 10, 8) <=> k \in 8..9 /\ k + 1 \in h
  <2>1. k \in Move(h, 9, 10, 8) <=> k + 9 - 8 \in h /\ 9 <= k + 9 - 8 /\ k + 9 - 8 <= 10
    BY <1>1
  <2> QED
    BY <2>1
<1>5. k \in Move(h, 3, 5, 1) <=> k \in 1..3 /\ k + 2 \in h
  <2>1. k \in Move(h, 3, 5, 1) <=> k + 3 - 1 \in h /\ 3 <= k + 3 - 1 /\ k + 3 - 1 <= 5
    BY <1>1
  <2> QED
    BY <2>1
<1>6. k \in ImmJ(h) <=>
        k \in Move(h, 12, 12, 11) \cup Move(h, 8, 8, 10) \cup Move(h, 9, 10, 8)
                \cup Move(h, 6, 6, 7) \cup Move(h, 7, 7, 6) \cup Move(h, 2, 2, 5)
                \cup Move(h, 11, 11, 4) \cup Move(h, 3, 5, 1)
  BY DEF ImmJ, signExtend
<1> QED
  BY <1>3, <1>4, <1>5, <1>6

\* And put back by the encoder.
LEMMA JumpEncoded ==
  ASSUME NEW imm, NEW u, u = ToBits(imm)
  PROVE  \A k \in 0..15 :
           k \in buildC_J_fromImm(imm) <=>
             \/ k = 12 /\ 11 \in u
             \/ k = 8 /\ 10 \in u
             \/ k \in 9..10 /\ k - 1 \in u
             \/ k = 6 /\ 7 \in u
             \/ k = 7 /\ 6 \in u
             \/ k = 2 /\ 5 \in u
             \/ k = 11 /\ 4 \in u
             \/ k \in 3..5 /\ k - 2 \in u
             \/ k \in {0, 13, 15}
<1> SUFFICES ASSUME NEW k \in 0..15
             PROVE  k \in buildC_J_fromImm(imm) <=>
                      \/ k = 12 /\ 11 \in u
                      \/ k = 8 /\ 10 \in u
                      \/ k \in 9..10 /\ k - 1 \in u
                      \/ k = 6 /\ 7 \in u
                      \/ k = 7 /\ 6 \in u
                      \/ k = 2 /\ 5 \in u
                      \/ k = 11 /\ 4 \in u
                      \/ k \in 3..5 /\ k - 2 \in u
                      \/ k \in {0, 13, 15}
  OBVIOUS
<1>1. \A x, y, at \in Int :
        k \in Move(u, x, y, at) <=> (k + x - at \in u /\ x <= k + x - at /\ k + x - at <= y)
  BY MovedBit
<1>2. \A x, at \in Int : k \in Move(u, x, x, at) <=> k = at /\ x \in u
  BY MovedOne
<1>3. /\ k \in Move(u, 11, 11, 12) <=> k = 12 /\ 11 \in u
      /\ k \in Move(u, 4, 4, 11) <=> k = 11 /\ 4 \in u
      /\ k \in Move(u, 10, 10, 8) <=> k = 8 /\ 10 \in u
      /\ k \in Move(u, 6, 6, 7) <=> k = 7 /\ 6 \in u
      /\ k \in Move(u, 7, 7, 6) <=> k = 6 /\ 7 \in u
      /\ k \in Move(u, 5, 5, 2) <=> k = 2 /\ 5 \in u
  BY <1>2
<1>4. k \in Move(u, 8, 9, 9) <=> k \in 9..10 /\ k - 1 \in u
  <2>1. k \in Move(u, 8, 9, 9) <=> k + 8 - 9 \in u /\ 8 <= k + 8 - 9 /\ k + 8 - 9 <= 9
    BY <1>1
  <2> QED
    BY <2>1
<1>5. k \in Move(u, 1, 3, 3) <=> k \in 3..5 /\ k - 2 \in u
  <2>1. k \in Move(u, 1, 3, 3) <=> k + 1 - 3 \in u /\ 1 <= k + 1 - 3 /\ k + 1 - 3 <= 3
    BY <1>1
  <2> QED
    BY <2>1
<1>6. k \in buildC_J_fromImm(imm) <=>
        k \in Move(u, 11, 11, 12) \cup Move(u, 4, 4, 11) \cup Move(u, 10, 10, 8)
                \cup Move(u, 8, 9, 9) \cup Move(u, 6, 6, 7) \cup Move(u, 7, 7, 6)
                \cup Move(u, 5, 5, 2) \cup Move(u, 1, 3, 3) \cup {0, 13, 15}
  BY DEF buildC_J_fromImm
<1> QED
  BY <1>3, <1>4, <1>5, <1>6

\* The bits that tell c.jal and c.j from everything else.
LEMMA JumpOpcode ==
  ASSUME NEW h, NEW d \in {0, 1},
         Field(h, 0, 1) = 1, Field(h, 13, 15) = IF d = 1 THEN 1 ELSE 5
  PROVE  0 \in h /\ 1 \notin h /\ 13 \in h /\ 14 \notin h /\ (15 \in h <=> d = 0)
<1>1. Bits(1, 2) = {0} /\ Bits(1, 3) = {0} /\ Bits(5, 3) = {0, 2}
  <2>1. \A k \in 0..2 : /\ (1 \div Pow2[k]) % 2 = 1 <=> k = 0
                        /\ (5 \div Pow2[k]) % 2 = 1 <=> k # 1
    <3>1. Pow2[0] = 1 /\ Pow2[1] = 2 /\ Pow2[2] = 4
      BY Pow2Values, Pow2Next
    <3> QED
      BY <3>1
  <2>2. \A n \in {2, 3} : \A v : \A k :
          k \in Bits(v, n) <=> k \in 0 .. n - 1 /\ (v \div Pow2[k]) % 2 = 1
    BY DEF Bits
  <2>3. \A k : k \in Bits(1, 2) <=> k = 0
    BY <2>1, <2>2
  <2>4. \A k : k \in Bits(1, 3) <=> k = 0
    BY <2>1, <2>2
  <2>5. \A k : k \in Bits(5, 3) <=> k \in {0, 2}
    BY <2>1, <2>2
  <2> QED
    BY <2>3, <2>4, <2>5
<1>2. Bits(Field(h, 0, 1), 2) = Move(h, 0, 1, 0) \cap 0..1
  <2>1. 1 - 0 + 1 = 2 /\ 2 - 1 = 1
    OBVIOUS
  <2> QED
    BY <2>1, BitsOfNumber DEF Field
<1>3. Bits(Field(h, 13, 15), 3) = Move(h, 13, 15, 0) \cap 0..2
  <2>1. 15 - 13 + 1 = 3 /\ 3 - 1 = 2
    OBVIOUS
  <2> QED
    BY <2>1, BitsOfNumber DEF Field
<1>4. \A k \in 0..2 : /\ k <= 1 => (k \in Move(h, 0, 1, 0) <=> k \in h)
                      /\ k \in Move(h, 13, 15, 0) <=> k + 13 \in h
  <2> TAKE k \in 0..2
  <2>1. \A x, y, at \in Int :
          k \in Move(h, x, y, at) <=> (k + x - at \in h /\ x <= k + x - at /\ k + x - at <= y)
    BY MovedBit
  <2>2. k \in Move(h, 0, 1, 0) <=> k + 0 - 0 \in h /\ 0 <= k + 0 - 0 /\ k + 0 - 0 <= 1
    BY <2>1
  <2>3. k \in Move(h, 13, 15, 0) <=> k + 13 - 0 \in h /\ 13 <= k + 13 - 0 /\ k + 13 - 0 <= 15
    BY <2>1
  <2> QED
    BY <2>2, <2>3
<1>5. 0 \in h /\ 1 \notin h
  BY <1>1, <1>2, <1>4
<1>6. CASE d = 1
  <2>1. Move(h, 13, 15, 0) \cap 0..2 = {0}
    BY <1>1, <1>3, <1>6
  <2>2. 0 + 13 \in h /\ 1 + 13 \notin h /\ 2 + 13 \notin h
    BY <1>4, <2>1
  <2> QED
    BY <1>5, <1>6, <2>2
<1>7. CASE d = 0
  <2>1. Move(h, 13, 15, 0) \cap 0..2 = {0, 2}
    BY <1>1, <1>3, <1>7
  <2>2. 0 + 13 \in h /\ 1 + 13 \notin h /\ 2 + 13 \in h
    BY <1>4, <2>1
  <2> QED
    BY <1>5, <1>7, <2>2
<1> QED
  BY <1>6, <1>7

LEMMA IllegalDecoded == Decode(Illegal) = Unrecognised
<1>1. Move({}, 0, 6, 0) = {}
  BY DEF Move
<1>2. Number({}, 7) = 0
  <2>1. Number({}, 7) = Number({}, 0)
    BY ShortNumberOf
  <2> QED
    BY <2>1, NumberSteps
<1>3. Field(Illegal, 0, 6) = 0
  BY <1>1, <1>2 DEF Field, Illegal
<1> QED
  BY <1>3 DEF Decode

(* A compressed jump goes where the encoder of the tests meant it to go: of *)
(* every halfword executed as jal, the offset executed encodes to that very *)
(* halfword, so that no bit of the offset is lost, moved or made up between *)
(* decompress, buildJ and the jump's dispatcher, its sign included.         *)
THEOREM JumpsGoWhereTheyAreMeantTo == Spec => []JumpsGoWhereMeant
<1>1. IInv /\ WordOfHalfword => JumpsGoWhereMeant
  <2> SUFFICES ASSUME IInv, WordOfHalfword, FromHalfword, executed.op = "jal"
               PROVE  half = buildC_J_fromImm(executed.imm)
                               \ IF executed.rd = 1 THEN {15} ELSE {}
    BY DEF JumpsGoWhereMeant
  <2>1. Understood(half, word) /\ executed = Decode(word) /\ half \subseteq 0..15
    BY Expansion DEF FromHalfword, WordOfHalfword, IInv, RestOfTypes
  <2>2. PICK d \in {0, 1} : JumpOf(half, word, d)
    <3>1. word # Illegal
      BY <2>1, IllegalDecoded DEF Unrecognised, Instr
    <3>2. ~ Plain(word)
      BY <2>1 DEF Plain, Expands
    <3>3. "jal" \notin DOMAIN ShiftMnemonics
      BY DEF ShiftMnemonics
    <3> QED
      BY <2>1, <3>1, <3>2, <3>3 DEF Understood
  <2>3. executed.rd = d /\ executed.imm = ToInt(ImmJ(half))
    BY <2>1, <2>2 DEF JumpOf, Expands, Instr
  <2>4. ToBits(executed.imm) = ImmJ(half)
    BY <2>3, CompressedImmediates, NumberOfWord DEF Extended
  <2>5. /\ 0 \in half /\ 1 \notin half /\ 13 \in half /\ 14 \notin half
        /\ 15 \in half <=> d = 0
    BY <2>2, JumpOpcode DEF JumpOf
  <2>6. buildC_J_fromImm(executed.imm) \subseteq 0..15
    BY DEF buildC_J_fromImm, Move
  <2>7. \A k \in 0..15 : k \in half <=>
          k \in buildC_J_fromImm(executed.imm) /\ ~ (d = 1 /\ k = 15)
    <3> TAKE k \in 0..15
    <3>1. k \in buildC_J_fromImm(executed.imm) <=>
            \/ k = 12 /\ 11 \in ImmJ(half)
            \/ k = 8 /\ 10 \in ImmJ(half)
            \/ k \in 9..10 /\ k - 1 \in ImmJ(half)
            \/ k = 6 /\ 7 \in ImmJ(half)
            \/ k = 7 /\ 6 \in ImmJ(half)
            \/ k = 2 /\ 5 \in ImmJ(half)
            \/ k = 11 /\ 4 \in ImmJ(half)
            \/ k \in 3..5 /\ k - 2 \in ImmJ(half)
            \/ k \in {0, 13, 15}
      BY <2>4, JumpEncoded
    <3>2. \A n \in 1..11 :
            n \in ImmJ(half) <=>
              \/ n = 11 /\ 12 \in half
              \/ n = 10 /\ 8 \in half
              \/ n \in 8..9 /\ n + 1 \in half
              \/ n = 7 /\ 6 \in half
              \/ n = 6 /\ 7 \in half
              \/ n = 5 /\ 2 \in half
              \/ n = 4 /\ 11 \in half
              \/ n \in 1..3 /\ n + 2 \in half
      BY <2>1, JumpOffsetBits
    <3>3. /\ 11 \in ImmJ(half) <=> 12 \in half
          /\ 10 \in ImmJ(half) <=> 8 \in half
          /\ 7 \in ImmJ(half) <=> 6 \in half
          /\ 6 \in ImmJ(half) <=> 7 \in half
          /\ 5 \in ImmJ(half) <=> 2 \in half
          /\ 4 \in ImmJ(half) <=> 11 \in half
      BY <3>2
    <3>4. CASE k \in 9..10
      <4>1. k - 1 \in 8..9 /\ (k - 1) + 1 = k
        BY <3>4
      <4>2. k - 1 \in ImmJ(half) <=> k \in half
        BY <3>2, <4>1
      <4> QED
        BY <3>1, <3>4, <4>2
    <3>5. CASE k \in 3..5
      <4>1. k - 2 \in 1..3 /\ (k - 2) + 2 = k
        BY <3>5
      <4>2. k - 2 \in ImmJ(half) <=> k \in half
        BY <3>2, <4>1
      <4> QED
        BY <3>1, <3>5, <4>2
    <3> QED
      BY <2>5, <3>1, <3>3, <3>4, <3>5
  <2> QED
    BY <2>1, <2>3, <2>6, <2>7
<1> QED
  BY <1>1, SpecHalfword, PTL

----------------------------------------------------------------------------
(* Halfwords that differ in one bit: their fields and their immediates      *)

LEMMA FlippedBit ==
  ASSUME NEW h, NEW k
  PROVE  /\ k \in Flip(h, k) <=> k \notin h
         /\ \A j : j # k => (j \in Flip(h, k) <=> j \in h)
BY DEF Flip

\* A bit changes the fields it belongs to, and no others.
LEMMA FlippedField ==
  ASSUME NEW h, NEW k \in Int, NEW x \in Int, NEW y \in Int, x <= y
  PROVE  Field(Flip(h, k), x, y) = Field(h, x, y) <=> k \notin x..y
<1>1. PICK g : g = Flip(h, k)
  OBVIOUS
<1>2. CASE k \notin x..y
  <2>1. g \cap (x..y) = h \cap (x..y)
    BY <1>1, <1>2, FlippedBit
  <2>2. Move(g, x, y, 0) = Move(h, x, y, 0)
    BY <2>1 DEF Move
  <2> QED
    BY <1>1, <1>2, <2>2 DEF Field
<1>3. CASE k \in x..y
  <2>1. PICK n \in Nat : n = y - x + 1
    OBVIOUS
  <2>2. \A u : Bits(Field(u, x, y), n) = Move(u, x, y, 0) \cap 0 .. n - 1
    BY <2>1, BitsOfNumber DEF Field
  <2>3. \A u : k - x \in Move(u, x, y, 0) <=> k \in u
    <3>1. k - x \in Int /\ 0 \in Int /\ (k - x) + x - 0 = k
      OBVIOUS
    <3>2. \A u : k - x \in Move(u, x, y, 0)
                   <=> ((k - x) + x - 0 \in u /\ x <= (k - x) + x - 0 /\ (k - x) + x - 0 <= y)
      BY <3>1, MovedBit
    <3> QED
      BY <1>3, <3>1, <3>2
  <2>4. k - x \in 0 .. n - 1
    BY <1>3, <2>1
  <2>5. k \in g <=> k \notin h
    BY <1>1, FlippedBit
  <2>6. Field(g, x, y) # Field(h, x, y)
    BY <2>2, <2>3, <2>4, <2>5
  <2> QED
    BY <1>1, <1>3, <2>6
<1> QED
  BY <1>2, <1>3

LEMMA MovedUp ==
  ASSUME NEW w, NEW k \in Int, NEW x \in Int, NEW y \in Int, NEW at \in Int, k \in x..y
  PROVE  k - x + at \in Move(w, x, y, at) <=> k \in w
<1>1. k - x + at \in Int /\ (k - x + at) + x - at = k
  OBVIOUS
<1>2. k - x + at \in Move(w, x, y, at) <=>
        ((k - x + at) + x - at \in w /\ x <= (k - x + at) + x - at /\ (k - x + at) + x - at <= y)
  BY <1>1, MovedBit
<1> QED
  BY <1>1, <1>2

\* Each bit of an immediate tells.
LEMMA Imm4spnHas ==
  ASSUME NEW h, NEW k \in (5..12)
  PROVE  Imm4spn(Flip(h, k)) # Imm4spn(h)
<1>1. /\ \A u : Move(u, 7, 10, 6) \subseteq 6..6 + 10 - 7
      /\ \A u : Move(u, 11, 12, 4) \subseteq 4..4 + 12 - 11
      /\ \A u : Move(u, 5, 5, 3) \subseteq 3..3 + 5 - 5
      /\ \A u : Move(u, 6, 6, 2) \subseteq 2..2 + 6 - 6
  BY MoveRange
<1>2. \A x, y, at \in Int : \A u : k \in x..y => (k - x + at \in Move(u, x, y, at) <=> k \in u)
  BY MovedUp
<1>3. CASE k \in 7..10
  <2>1. \A u : k - 7 + 6 \in Move(u, 7, 10, 6) <=> k \in u
    BY <1>2, <1>3
  <2>2. \A u : k - 7 + 6 \in Imm4spn(u) <=> k \in u
    BY <1>1, <1>3, <2>1 DEF Imm4spn
  <2> QED
    BY <2>2, FlippedBit
<1>4. CASE k \in 11..12
  <2>1. \A u : k - 11 + 4 \in Move(u, 11, 12, 4) <=> k \in u
    BY <1>2, <1>4
  <2>2. \A u : k - 11 + 4 \in Imm4spn(u) <=> k \in u
    BY <1>1, <1>4, <2>1 DEF Imm4spn
  <2> QED
    BY <2>2, FlippedBit
<1>5. CASE k \in 5..5
  <2>1. \A u : k - 5 + 3 \in Move(u, 5, 5, 3) <=> k \in u
    BY <1>2, <1>5
  <2>2. \A u : k - 5 + 3 \in Imm4spn(u) <=> k \in u
    BY <1>1, <1>5, <2>1 DEF Imm4spn
  <2> QED
    BY <2>2, FlippedBit
<1>6. CASE k \in 6..6
  <2>1. \A u : k - 6 + 2 \in Move(u, 6, 6, 2) <=> k \in u
    BY <1>2, <1>6
  <2>2. \A u : k - 6 + 2 \in Imm4spn(u) <=> k \in u
    BY <1>1, <1>6, <2>1 DEF Imm4spn
  <2> QED
    BY <2>2, FlippedBit
<1> QED
  BY <1>3, <1>4, <1>5, <1>6

LEMMA ImmLwSwHas ==
  ASSUME NEW h, NEW k \in (5..6) \cup (10..12)
  PROVE  ImmLwSw(Flip(h, k)) # ImmLwSw(h)
<1>1. /\ \A u : Move(u, 5, 5, 6) \subseteq 6..6 + 5 - 5
      /\ \A u : Move(u, 10, 12, 3) \subseteq 3..3 + 12 - 10
      /\ \A u : Move(u, 6, 6, 2) \subseteq 2..2 + 6 - 6
  BY MoveRange
<1>2. \A x, y, at \in Int : \A u : k \in x..y => (k - x + at \in Move(u, x, y, at) <=> k \in u)
  BY MovedUp
<1>3. CASE k \in 5..5
  <2>1. \A u : k - 5 + 6 \in Move(u, 5, 5, 6) <=> k \in u
    BY <1>2, <1>3
  <2>2. \A u : k - 5 + 6 \in ImmLwSw(u) <=> k \in u
    BY <1>1, <1>3, <2>1 DEF ImmLwSw
  <2> QED
    BY <2>2, FlippedBit
<1>4. CASE k \in 10..12
  <2>1. \A u : k - 10 + 3 \in Move(u, 10, 12, 3) <=> k \in u
    BY <1>2, <1>4
  <2>2. \A u : k - 10 + 3 \in ImmLwSw(u) <=> k \in u
    BY <1>1, <1>4, <2>1 DEF ImmLwSw
  <2> QED
    BY <2>2, FlippedBit
<1>5. CASE k \in 6..6
  <2>1. \A u : k - 6 + 2 \in Move(u, 6, 6, 2) <=> k \in u
    BY <1>2, <1>5
  <2>2. \A u : k - 6 + 2 \in ImmLwSw(u) <=> k \in u
    BY <1>1, <1>5, <2>1 DEF ImmLwSw
  <2> QED
    BY <2>2, FlippedBit
<1> QED
  BY <1>3, <1>4, <1>5

LEMMA Imm6Has ==
  ASSUME NEW h, NEW k \in (2..6) \cup {12}
  PROVE  Imm6(Flip(h, k)) # Imm6(h)
<1>1. /\ \A u : Move(u, 12, 12, 5) \subseteq 5..5 + 12 - 12
      /\ \A u : Move(u, 2, 6, 0) \subseteq 0..0 + 6 - 2
  BY MoveRange
<1>2. \A x, y, at \in Int : \A u : k \in x..y => (k - x + at \in Move(u, x, y, at) <=> k \in u)
  BY MovedUp
<1>3. CASE k \in 12..12
  <2>1. \A u : k - 12 + 5 \in Move(u, 12, 12, 5) <=> k \in u
    BY <1>2, <1>3
  <2>2. \A u : k - 12 + 5 \in Imm6(u) <=> k \in u
    BY <1>1, <1>3, <2>1 DEF Imm6
  <2> QED
    BY <2>2, FlippedBit
<1>4. CASE k \in 2..6
  <2>1. \A u : k - 2 + 0 \in Move(u, 2, 6, 0) <=> k \in u
    BY <1>2, <1>4
  <2>2. \A u : k - 2 + 0 \in Imm6(u) <=> k \in u
    BY <1>1, <1>4, <2>1 DEF Imm6
  <2> QED
    BY <2>2, FlippedBit
<1> QED
  BY <1>3, <1>4

LEMMA Imm16spHas ==
  ASSUME NEW h, NEW k \in (2..6) \cup {12}
  PROVE  Imm16sp(Flip(h, k)) # Imm16sp(h)
<1>1. /\ \A u : Move(u, 12, 12, 9) \subseteq 9..9 + 12 - 12
      /\ \A u : Move(u, 3, 4, 7) \subseteq 7..7 + 4 - 3
      /\ \A u : Move(u, 5, 5, 6) \subseteq 6..6 + 5 - 5
      /\ \A u : Move(u, 2, 2, 5) \subseteq 5..5 + 2 - 2
      /\ \A u : Move(u, 6, 6, 4) \subseteq 4..4 + 6 - 6
  BY MoveRange
<1>2. \A x, y, at \in Int : \A u : k \in x..y => (k - x + at \in Move(u, x, y, at) <=> k \in u)
  BY MovedUp
<1>3. CASE k \in 12..12
  <2>1. \A u : k - 12 + 9 \in Move(u, 12, 12, 9) <=> k \in u
    BY <1>2, <1>3
  <2>2. \A u : k - 12 + 9 \in Imm16sp(u) <=> k \in u
    BY <1>1, <1>3, <2>1 DEF Imm16sp, signExtend
  <2> QED
    BY <2>2, FlippedBit
<1>4. CASE k \in 3..4
  <2>1. \A u : k - 3 + 7 \in Move(u, 3, 4, 7) <=> k \in u
    BY <1>2, <1>4
  <2>2. \A u : k - 3 + 7 \in Imm16sp(u) <=> k \in u
    BY <1>1, <1>4, <2>1 DEF Imm16sp, signExtend
  <2> QED
    BY <2>2, FlippedBit
<1>5. CASE k \in 5..5
  <2>1. \A u : k - 5 + 6 \in Move(u, 5, 5, 6) <=> k \in u
    BY <1>2, <1>5
  <2>2. \A u : k - 5 + 6 \in Imm16sp(u) <=> k \in u
    BY <1>1, <1>5, <2>1 DEF Imm16sp, signExtend
  <2> QED
    BY <2>2, FlippedBit
<1>6. CASE k \in 2..2
  <2>1. \A u : k - 2 + 5 \in Move(u, 2, 2, 5) <=> k \in u
    BY <1>2, <1>6
  <2>2. \A u : k - 2 + 5 \in Imm16sp(u) <=> k \in u
    BY <1>1, <1>6, <2>1 DEF Imm16sp, signExtend
  <2> QED
    BY <2>2, FlippedBit
<1>7. CASE k \in 6..6
  <2>1. \A u : k - 6 + 4 \in Move(u, 6, 6, 4) <=> k \in u
    BY <1>2, <1>7
  <2>2. \A u : k - 6 + 4 \in Imm16sp(u) <=> k \in u
    BY <1>1, <1>7, <2>1 DEF Imm16sp, signExtend
  <2> QED
    BY <2>2, FlippedBit
<1> QED
  BY <1>3, <1>4, <1>5, <1>6, <1>7

LEMMA ImmJHas ==
  ASSUME NEW h, NEW k \in (2..12)
  PROVE  ImmJ(Flip(h, k)) # ImmJ(h)
<1>1. /\ \A u : Move(u, 12, 12, 11) \subseteq 11..11 + 12 - 12
      /\ \A u : Move(u, 8, 8, 10) \subseteq 10..10 + 8 - 8
      /\ \A u : Move(u, 9, 10, 8) \subseteq 8..8 + 10 - 9
      /\ \A u : Move(u, 6, 6, 7) \subseteq 7..7 + 6 - 6
      /\ \A u : Move(u, 7, 7, 6) \subseteq 6..6 + 7 - 7
      /\ \A u : Move(u, 2, 2, 5) \subseteq 5..5 + 2 - 2
      /\ \A u : Move(u, 11, 11, 4) \subseteq 4..4 + 11 - 11
      /\ \A u : Move(u, 3, 5, 1) \subseteq 1..1 + 5 - 3
  BY MoveRange
<1>2. \A x, y, at \in Int : \A u : k \in x..y => (k - x + at \in Move(u, x, y, at) <=> k \in u)
  BY MovedUp
<1>3. CASE k \in 12..12
  <2>1. \A u : k - 12 + 11 \in Move(u, 12, 12, 11) <=> k \in u
    BY <1>2, <1>3
  <2>2. \A u : k - 12 + 11 \in ImmJ(u) <=> k \in u
    BY <1>1, <1>3, <2>1 DEF ImmJ, signExtend
  <2> QED
    BY <2>2, FlippedBit
<1>4. CASE k \in 8..8
  <2>1. \A u : k - 8 + 10 \in Move(u, 8, 8, 10) <=> k \in u
    BY <1>2, <1>4
  <2>2. \A u : k - 8 + 10 \in ImmJ(u) <=> k \in u
    BY <1>1, <1>4, <2>1 DEF ImmJ, signExtend
  <2> QED
    BY <2>2, FlippedBit
<1>5. CASE k \in 9..10
  <2>1. \A u : k - 9 + 8 \in Move(u, 9, 10, 8) <=> k \in u
    BY <1>2, <1>5
  <2>2. \A u : k - 9 + 8 \in ImmJ(u) <=> k \in u
    BY <1>1, <1>5, <2>1 DEF ImmJ, signExtend
  <2> QED
    BY <2>2, FlippedBit
<1>6. CASE k \in 6..6
  <2>1. \A u : k - 6 + 7 \in Move(u, 6, 6, 7) <=> k \in u
    BY <1>2, <1>6
  <2>2. \A u : k - 6 + 7 \in ImmJ(u) <=> k \in u
    BY <1>1, <1>6, <2>1 DEF ImmJ, signExtend
  <2> QED
    BY <2>2, FlippedBit
<1>7. CASE k \in 7..7
  <2>1. \A u : k - 7 + 6 \in Move(u, 7, 7, 6) <=> k \in u
    BY <1>2, <1>7
  <2>2. \A u : k - 7 + 6 \in ImmJ(u) <=> k \in u
    BY <1>1, <1>7, <2>1 DEF ImmJ, signExtend
  <2> QED
    BY <2>2, FlippedBit
<1>8. CASE k \in 2..2
  <2>1. \A u : k - 2 + 5 \in Move(u, 2, 2, 5) <=> k \in u
    BY <1>2, <1>8
  <2>2. \A u : k - 2 + 5 \in ImmJ(u) <=> k \in u
    BY <1>1, <1>8, <2>1 DEF ImmJ, signExtend
  <2> QED
    BY <2>2, FlippedBit
<1>9. CASE k \in 11..11
  <2>1. \A u : k - 11 + 4 \in Move(u, 11, 11, 4) <=> k \in u
    BY <1>2, <1>9
  <2>2. \A u : k - 11 + 4 \in ImmJ(u) <=> k \in u
    BY <1>1, <1>9, <2>1 DEF ImmJ, signExtend
  <2> QED
    BY <2>2, FlippedBit
<1>10. CASE k \in 3..5
  <2>1. \A u : k - 3 + 1 \in Move(u, 3, 5, 1) <=> k \in u
    BY <1>2, <1>10
  <2>2. \A u : k - 3 + 1 \in ImmJ(u) <=> k \in u
    BY <1>1, <1>10, <2>1 DEF ImmJ, signExtend
  <2> QED
    BY <2>2, FlippedBit
<1> QED
  BY <1>3, <1>4, <1>5, <1>6, <1>7, <1>8, <1>9, <1>10

LEMMA ImmBHas ==
  ASSUME NEW h, NEW k \in (2..6) \cup (10..12)
  PROVE  ImmB(Flip(h, k)) # ImmB(h)
<1>1. /\ \A u : Move(u, 12, 12, 8) \subseteq 8..8 + 12 - 12
      /\ \A u : Move(u, 5, 6, 6) \subseteq 6..6 + 6 - 5
      /\ \A u : Move(u, 2, 2, 5) \subseteq 5..5 + 2 - 2
      /\ \A u : Move(u, 10, 11, 3) \subseteq 3..3 + 11 - 10
      /\ \A u : Move(u, 3, 4, 1) \subseteq 1..1 + 4 - 3
  BY MoveRange
<1>2. \A x, y, at \in Int : \A u : k \in x..y => (k - x + at \in Move(u, x, y, at) <=> k \in u)
  BY MovedUp
<1>3. CASE k \in 12..12
  <2>1. \A u : k - 12 + 8 \in Move(u, 12, 12, 8) <=> k \in u
    BY <1>2, <1>3
  <2>2. \A u : k - 12 + 8 \in ImmB(u) <=> k \in u
    BY <1>1, <1>3, <2>1 DEF ImmB, signExtend
  <2> QED
    BY <2>2, FlippedBit
<1>4. CASE k \in 5..6
  <2>1. \A u : k - 5 + 6 \in Move(u, 5, 6, 6) <=> k \in u
    BY <1>2, <1>4
  <2>2. \A u : k - 5 + 6 \in ImmB(u) <=> k \in u
    BY <1>1, <1>4, <2>1 DEF ImmB, signExtend
  <2> QED
    BY <2>2, FlippedBit
<1>5. CASE k \in 2..2
  <2>1. \A u : k - 2 + 5 \in Move(u, 2, 2, 5) <=> k \in u
    BY <1>2, <1>5
  <2>2. \A u : k - 2 + 5 \in ImmB(u) <=> k \in u
    BY <1>1, <1>5, <2>1 DEF ImmB, signExtend
  <2> QED
    BY <2>2, FlippedBit
<1>6. CASE k \in 10..11
  <2>1. \A u : k - 10 + 3 \in Move(u, 10, 11, 3) <=> k \in u
    BY <1>2, <1>6
  <2>2. \A u : k - 10 + 3 \in ImmB(u) <=> k \in u
    BY <1>1, <1>6, <2>1 DEF ImmB, signExtend
  <2> QED
    BY <2>2, FlippedBit
<1>7. CASE k \in 3..4
  <2>1. \A u : k - 3 + 1 \in Move(u, 3, 4, 1) <=> k \in u
    BY <1>2, <1>7
  <2>2. \A u : k - 3 + 1 \in ImmB(u) <=> k \in u
    BY <1>1, <1>7, <2>1 DEF ImmB, signExtend
  <2> QED
    BY <2>2, FlippedBit
<1> QED
  BY <1>3, <1>4, <1>5, <1>6, <1>7

LEMMA ImmLwspHas ==
  ASSUME NEW h, NEW k \in (2..6) \cup {12}
  PROVE  ImmLwsp(Flip(h, k)) # ImmLwsp(h)
<1>1. /\ \A u : Move(u, 2, 3, 6) \subseteq 6..6 + 3 - 2
      /\ \A u : Move(u, 12, 12, 5) \subseteq 5..5 + 12 - 12
      /\ \A u : Move(u, 4, 6, 2) \subseteq 2..2 + 6 - 4
  BY MoveRange
<1>2. \A x, y, at \in Int : \A u : k \in x..y => (k - x + at \in Move(u, x, y, at) <=> k \in u)
  BY MovedUp
<1>3. CASE k \in 2..3
  <2>1. \A u : k - 2 + 6 \in Move(u, 2, 3, 6) <=> k \in u
    BY <1>2, <1>3
  <2>2. \A u : k - 2 + 6 \in ImmLwsp(u) <=> k \in u
    BY <1>1, <1>3, <2>1 DEF ImmLwsp
  <2> QED
    BY <2>2, FlippedBit
<1>4. CASE k \in 12..12
  <2>1. \A u : k - 12 + 5 \in Move(u, 12, 12, 5) <=> k \in u
    BY <1>2, <1>4
  <2>2. \A u : k - 12 + 5 \in ImmLwsp(u) <=> k \in u
    BY <1>1, <1>4, <2>1 DEF ImmLwsp
  <2> QED
    BY <2>2, FlippedBit
<1>5. CASE k \in 4..6
  <2>1. \A u : k - 4 + 2 \in Move(u, 4, 6, 2) <=> k \in u
    BY <1>2, <1>5
  <2>2. \A u : k - 4 + 2 \in ImmLwsp(u) <=> k \in u
    BY <1>1, <1>5, <2>1 DEF ImmLwsp
  <2> QED
    BY <2>2, FlippedBit
<1> QED
  BY <1>3, <1>4, <1>5

LEMMA ImmSwspHas ==
  ASSUME NEW h, NEW k \in (7..12)
  PROVE  ImmSwsp(Flip(h, k)) # ImmSwsp(h)
<1>1. /\ \A u : Move(u, 7, 8, 6) \subseteq 6..6 + 8 - 7
      /\ \A u : Move(u, 9, 12, 2) \subseteq 2..2 + 12 - 9
  BY MoveRange
<1>2. \A x, y, at \in Int : \A u : k \in x..y => (k - x + at \in Move(u, x, y, at) <=> k \in u)
  BY MovedUp
<1>3. CASE k \in 7..8
  <2>1. \A u : k - 7 + 6 \in Move(u, 7, 8, 6) <=> k \in u
    BY <1>2, <1>3
  <2>2. \A u : k - 7 + 6 \in ImmSwsp(u) <=> k \in u
    BY <1>1, <1>3, <2>1 DEF ImmSwsp
  <2> QED
    BY <2>2, FlippedBit
<1>4. CASE k \in 9..12
  <2>1. \A u : k - 9 + 2 \in Move(u, 9, 12, 2) <=> k \in u
    BY <1>2, <1>4
  <2>2. \A u : k - 9 + 2 \in ImmSwsp(u) <=> k \in u
    BY <1>1, <1>4, <2>1 DEF ImmSwsp
  <2> QED
    BY <2>2, FlippedBit
<1> QED
  BY <1>3, <1>4

----------------------------------------------------------------------------
(* Halfwords that differ in one bit: words that tell their cases apart      *)

\* What is read of the words that halfwords are expanded to.
Reads(w, op, d, a) == Decode(w).op = op /\ Decode(w).rd = d /\ Decode(w).rs1 = a

LEMMA ReadsInstr ==
  ASSUME NEW w, NEW op, NEW d, NEW a, NEW b, NEW n, Expands(w, Instr(op, d, a, b, n))
  PROVE  Reads(w, op, d, a)
BY DEF Expands, Reads, Instr

LEMMA ReadsI ==
  ASSUME NEW d \in Unsigned(5), NEW a \in Unsigned(5), NEW imm, Extended(imm, 11)
  PROVE  /\ Reads(buildI(19, 0, d, a, imm), "addi", d, a)
         /\ Reads(buildI(19, 7, d, a, imm), "andi", d, a)
         /\ Reads(buildI(3, 2, d, a, imm), "lw", d, a)
         /\ Reads(buildI(103, 0, d, a, imm), "jalr", d, a)
BY ExpandedI, ReadsInstr

LEMMA ReadsSB ==
  ASSUME NEW a \in Unsigned(5), NEW b \in Unsigned(5), NEW imm
  PROVE  /\ Extended(imm, 11) => Reads(buildS(35, 2, a, b, imm), "sw", 0, a)
         /\ Extended(imm, 12) /\ 0 \notin imm =>
              /\ Reads(buildB(99, 0, a, b, imm), "beq", 0, a)
              /\ Reads(buildB(99, 1, a, b, imm), "bne", 0, a)
BY ExpandedSB, ReadsInstr

LEMMA ReadsR ==
  ASSUME NEW d \in Unsigned(5), NEW a \in Unsigned(5), NEW b \in Unsigned(5)
  PROVE  /\ Reads(buildR(51, 0, 0, d, a, b), "add", d, a)
         /\ Reads(buildR(51, 0, 32, d, a, b), "sub", d, a)
         /\ Reads(buildR(51, 4, 0, d, a, b), "xor", d, a)
         /\ Reads(buildR(51, 6, 0, d, a, b), "or", d, a)
         /\ Reads(buildR(51, 7, 0, d, a, b), "and", d, a)
BY ExpandedR, ReadsInstr

LEMMA ReadsUJ ==
  ASSUME NEW d \in Unsigned(5), NEW imm
  PROVE  /\ imm \subseteq Bit => Reads(buildU(55, d, {k + 12 : k \in imm}), "lui", d, 0)
         /\ Extended(imm, 20) /\ 0 \notin imm => Reads(buildJ(111, d, imm), "jal", d, 0)
<1>1. ASSUME imm \subseteq Bit PROVE Reads(buildU(55, d, {k + 12 : k \in imm}), "lui", d, 0)
  <2>1. Expands(buildU(55, d, {k + 12 : k \in imm}), Instr("lui", d, 0, 0, Number(imm, 20)))
    BY <1>1, UExpands
  <2> QED
    BY <2>1, ReadsInstr
<1>2. ASSUME Extended(imm, 20), 0 \notin imm PROVE Reads(buildJ(111, d, imm), "jal", d, 0)
  <2>1. Expands(buildJ(111, d, imm), Instr("jal", d, 0, 0, ToInt(imm)))
    BY <1>2, JExpands
  <2> QED
    BY <2>1, ReadsInstr
<1> QED
  BY <1>1, <1>2

\* What the instructions of each case are: q is the quadrant, f the funct3.
Role(q, f, i) ==
  \/ q = 0 /\ f = 0 /\ i.op = "addi" /\ i.rs1 = 2 /\ i.rd >= 8
  \/ q = 0 /\ f = 2 /\ i.op = "lw" /\ i.rs1 >= 8
  \/ q = 0 /\ f = 6 /\ i.op = "sw" /\ i.rs1 >= 8
  \/ q = 1 /\ f = 0 /\ i.op = "addi" /\ i.rd = i.rs1
  \/ q = 1 /\ f = 1 /\ i.op = "jal" /\ i.rd = 1
  \/ q = 1 /\ f = 2 /\ i.op = "addi" /\ i.rs1 = 0 /\ i.rd # 0
  \/ q = 1 /\ f = 3 /\ (i.op = "lui" \/ (i.op = "addi" /\ i.rs1 = 2))
  \/ q = 1 /\ f = 4 /\ i.op \in {"slli", "srli", "srai", "andi", "sub", "xor", "or", "and"}
  \/ q = 1 /\ f = 5 /\ i.op = "jal" /\ i.rd = 0
  \/ q = 1 /\ f = 6 /\ i.op = "beq"
  \/ q = 1 /\ f = 7 /\ i.op = "bne"
  \/ q = 2 /\ f = 0 /\ i.op \in {"slli", "srli", "srai"}
  \/ q = 2 /\ f = 2 /\ i.op = "lw" /\ i.rs1 = 2
  \/ q = 2 /\ f = 4 /\ i.op \in {"jalr", "add", "ebreak"}
  \/ q = 2 /\ f = 6 /\ i.op = "sw" /\ i.rs1 = 2

\* One case of decompress at a time.
LEMMA DecompressCases ==
  ASSUME NEW h, NEW q, NEW f, q = Field(h, 0, 1), f = Field(h, 13, 15)
  PROVE  /\ q = 0 /\ f = 0 => decompress(h) = Addi4spn(h)
         /\ q = 0 /\ f = 2 =>
              decompress(h) = buildI(3, 2, getRvcRegister(h, 2), getRvcRegister(h, 7), ImmLwSw(h))
         /\ q = 0 /\ f = 6 =>
              decompress(h) = buildS(35, 2, getRvcRegister(h, 7), getRvcRegister(h, 2), ImmLwSw(h))
         /\ q = 1 /\ f = 0 => decompress(h) = Addi(h)
         /\ q = 1 /\ f = 1 => decompress(h) = buildJ(111, 1, ImmJ(h))
         /\ q = 1 /\ f = 2 => decompress(h) = Li(h)
         /\ q = 1 /\ f = 3 => decompress(h) = LuiOrAddi16sp(h)
         /\ q = 1 /\ f = 4 => decompress(h) = MiscAlu(h)
         /\ q = 1 /\ f = 5 => decompress(h) = buildJ(111, 0, ImmJ(h))
         /\ q = 1 /\ f = 6 => decompress(h) = Branch(h, 0)
         /\ q = 1 /\ f = 7 => decompress(h) = Branch(h, 1)
         /\ q = 2 /\ f = 0 => decompress(h) = Slli(h)
         /\ q = 2 /\ f = 2 => decompress(h) = Lwsp(h)
         /\ q = 2 /\ f = 4 => decompress(h) = JumpMoveAdd(h)
         /\ q = 2 /\ f = 6 =>
              decompress(h) = buildS(35, 2, 2, Field(h, 2, 6), ImmSwsp(h))
         /\ decompress(h) # Illegal =>
              \/ q = 0 /\ f \in {0, 2, 6}
              \/ q = 1 /\ f \in {0, 1, 2, 3, 4, 5, 6, 7}
              \/ q = 2 /\ f \in {0, 2, 4, 6}
BY DEF decompress

LEMMA Roles ==
  ASSUME NEW h, decompress(h) # Illegal
  PROVE  Role(Field(h, 0, 1), Field(h, 13, 15), Decode(decompress(h)))
<1>1. PICK q, f, w, i : /\ q = Field(h, 0, 1) /\ f = Field(h, 13, 15)
                        /\ w = decompress(h) /\ i = Decode(w)
  OBVIOUS
<1>2. PICK d \in Unsigned(5), a \in Unsigned(5), r \in Unsigned(5), b \in Unsigned(5) :
        /\ d = getRvcRegister(h, 2) /\ a = getRvcRegister(h, 7)
        /\ r = Register5(h) /\ b = Field(h, 2, 6)
  BY CompressedRegisters
<1>3. 0 \in Unsigned(5) /\ 2 \in Unsigned(5) /\ 1 \in Unsigned(5)
  BY SmallNumbers
<1>4. d >= 8 /\ a >= 8
  <2>1. Field(h, 2, 4) >= 0 /\ Field(h, 7, 9) >= 0 /\ Field(h, 2, 4) \in Int /\ Field(h, 7, 9) \in Int
    <3>1. 4 - 2 + 1 \in Nat /\ 9 - 7 + 1 \in Nat
      OBVIOUS
    <3>2. /\ Field(h, 2, 4) \in 0 .. Pow2[4 - 2 + 1] - 1
          /\ Field(h, 7, 9) \in 0 .. Pow2[9 - 7 + 1] - 1
      BY <3>1, NumberType DEF Field
    <3> QED
      BY <3>2
  <2>2. 2 + 2 = 4 /\ 7 + 2 = 9
    OBVIOUS
  <2> QED
    BY <1>2, <2>1, <2>2 DEF getRvcRegister
<1>5. DOMAIN ShiftMnemonics = {"slli", "srli", "srai"}
  BY DEF ShiftMnemonics
<1> USE CompressedImmediates
<1>6. CASE q = 0 /\ f = 0
  <2>1. w = buildI(19, 0, d, 2, Imm4spn(h))
    BY <1>1, <1>2, <1>6, DecompressCases DEF Addi4spn
  <2>2. Reads(w, "addi", d, 2)
    BY <1>3, <2>1, ReadsI
  <2> QED
    BY <1>1, <1>4, <1>6, <2>2 DEF Reads, Role
<1>7. CASE q = 0 /\ f = 2
  <2>1. w = buildI(3, 2, d, a, ImmLwSw(h))
    BY <1>1, <1>2, <1>7, DecompressCases
  <2>2. Reads(w, "lw", d, a)
    BY <2>1, ReadsI
  <2> QED
    BY <1>1, <1>4, <1>7, <2>2 DEF Reads, Role
<1>8. CASE q = 0 /\ f = 6
  <2>1. w = buildS(35, 2, a, d, ImmLwSw(h))
    BY <1>1, <1>2, <1>8, DecompressCases
  <2>2. Reads(w, "sw", 0, a)
    BY <2>1, ReadsSB
  <2> QED
    BY <1>1, <1>4, <1>8, <2>2 DEF Reads, Role
<1>9. CASE q = 1 /\ f = 0
  <2>1. w = buildI(19, 0, r, r, signExtend(Imm6(h), 6))
    BY <1>1, <1>2, <1>9, DecompressCases DEF Addi
  <2>2. Reads(w, "addi", r, r)
    BY <2>1, ReadsI
  <2> QED
    BY <1>1, <1>9, <2>2 DEF Reads, Role
<1>10. CASE q = 1 /\ f \in {1, 5}
  <2>1. PICK link \in Unsigned(5) : link = IF f = 1 THEN 1 ELSE 0
    BY <1>3
  <2>2. w = buildJ(111, link, ImmJ(h))
    BY <1>1, <1>10, <2>1, DecompressCases
  <2>3. Reads(w, "jal", link, 0)
    BY <2>2, ReadsUJ
  <2> QED
    BY <1>1, <1>10, <2>1, <2>3 DEF Reads, Role
<1>11. CASE q = 1 /\ f = 2
  <2>1. w = buildI(19, 0, r, 0, signExtend(Imm6(h), 6)) /\ r # 0
    BY <1>1, <1>2, <1>11, DecompressCases DEF Li
  <2>2. Reads(w, "addi", r, 0)
    BY <1>3, <2>1, ReadsI
  <2> QED
    BY <1>1, <1>11, <2>1, <2>2 DEF Reads, Role
<1>12. CASE q = 1 /\ f = 3
  <2>1. \/ w = buildI(19, 0, 2, 2, Imm16sp(h))
        \/ w = buildU(55, r, {k + 12 : k \in signExtend(Imm6(h), 6)})
    BY <1>1, <1>2, <1>12, DecompressCases DEF LuiOrAddi16sp
  <2>2. signExtend(Imm6(h), 6) \subseteq Bit
    BY DEF Extended
  <2>3. Reads(w, "addi", 2, 2) \/ Reads(w, "lui", r, 0)
    <3>1. Reads(buildI(19, 0, 2, 2, Imm16sp(h)), "addi", 2, 2)
      BY <1>3, ReadsI
    <3>2. Reads(buildU(55, r, {k + 12 : k \in signExtend(Imm6(h), 6)}), "lui", r, 0)
      BY <2>2, ReadsUJ
    <3> QED
      BY <2>1, <3>1, <3>2
  <2> QED
    BY <1>1, <1>12, <2>3 DEF Reads, Role
<1>13. CASE q = 1 /\ f = 4
  <2>1. w = MiscAlu(h)
    BY <1>1, <1>13, DecompressCases
  <2>2. Field(h, 10, 11) \in {0, 1, 2, 3} /\ Field(h, 5, 6) \in {0, 1, 2, 3}
    BY CompressedRegisters
  <2>3. w \in {buildI(19, 5, a, a, Imm6(h)), buildI(19, 5, a, a, SraiImm(h)),
               buildI(19, 7, a, a, signExtend(Imm6(h), 6)),
               buildR(51, 0, 32, a, a, d), buildR(51, 4, 0, a, a, d),
               buildR(51, 6, 0, a, a, d), buildR(51, 7, 0, a, a, d)}
    BY <1>2, <2>1, <2>2 DEF MiscAlu
  <2>4. /\ Decode(buildI(19, 5, a, a, Imm6(h))).op \in {"slli", "srli", "srai"}
        /\ Decode(buildI(19, 5, a, a, SraiImm(h))).op \in {"slli", "srli", "srai"}
    BY <1>5, ShiftsDecoded
  <2>5. Decode(buildI(19, 7, a, a, signExtend(Imm6(h), 6))).op = "andi"
    BY ReadsI DEF Reads
  <2>6. /\ Decode(buildR(51, 0, 32, a, a, d)).op = "sub"
        /\ Decode(buildR(51, 4, 0, a, a, d)).op = "xor"
        /\ Decode(buildR(51, 6, 0, a, a, d)).op = "or"
        /\ Decode(buildR(51, 7, 0, a, a, d)).op = "and"
    BY ReadsR DEF Reads
  <2>7. i.op \in {"slli", "srli", "srai", "andi", "sub", "xor", "or", "and"}
    BY <1>1, <2>3, <2>4, <2>5, <2>6
  <2> QED
    BY <1>1, <1>13, <2>7 DEF Role
<1>14. CASE q = 1 /\ f \in {6, 7}
  <2>1. w = IF f = 6 THEN buildB(99, 0, a, 0, ImmB(h)) ELSE buildB(99, 1, a, 0, ImmB(h))
    BY <1>1, <1>2, <1>14, DecompressCases DEF Branch
  <2>2. Reads(w, IF f = 6 THEN "beq" ELSE "bne", 0, a)
    BY <1>3, <2>1, ReadsSB
  <2> QED
    BY <1>1, <1>14, <2>2 DEF Reads, Role
<1>15. CASE q = 2 /\ f = 0
  <2>1. w = buildI(19, 1, r, r, Imm6(h))
    BY <1>1, <1>2, <1>15, DecompressCases DEF Slli
  <2> QED
    BY <1>1, <1>5, <1>15, <2>1, ShiftsDecoded DEF Role
<1>16. CASE q = 2 /\ f = 2
  <2>1. w = buildI(3, 2, r, 2, ImmLwsp(h))
    BY <1>1, <1>2, <1>16, DecompressCases DEF Lwsp
  <2>2. Reads(w, "lw", r, 2)
    BY <1>3, <2>1, ReadsI
  <2> QED
    BY <1>1, <1>16, <2>2 DEF Reads, Role
<1>17. CASE q = 2 /\ f = 4
  <2>1. w \in {buildI(103, 0, 0, r, {}), buildI(103, 0, 1, r, {}),
               buildR(51, 0, 0, r, r, b), buildR(51, 0, 0, r, 0, b), Ebreak}
    <3>1. w = JumpMoveAdd(h)
      BY <1>1, <1>17, DecompressCases
    <3> QED
      BY <1>1, <1>2, <3>1 DEF JumpMoveAdd
  <2>2. /\ Decode(buildI(103, 0, 0, r, {})).op = "jalr" /\ Decode(buildI(103, 0, 1, r, {})).op = "jalr"
    BY <1>3, ReadsI DEF Reads
  <2>3. /\ Decode(buildR(51, 0, 0, r, r, b)).op = "add" /\ Decode(buildR(51, 0, 0, r, 0, b)).op = "add"
    BY <1>3, ReadsR DEF Reads
  <2>4. Decode(Ebreak).op = "ebreak"
    BY EbreakExpands DEF Expands, Instr
  <2>5. i.op \in {"jalr", "add", "ebreak"}
    BY <1>1, <2>1, <2>2, <2>3, <2>4
  <2> QED
    BY <1>1, <1>17, <2>5 DEF Role
<1>18. CASE q = 2 /\ f = 6
  <2>1. w = buildS(35, 2, 2, b, ImmSwsp(h))
    BY <1>1, <1>2, <1>18, DecompressCases
  <2>2. Reads(w, "sw", 0, 2)
    BY <1>3, <2>1, ReadsSB
  <2> QED
    BY <1>1, <1>18, <2>2 DEF Reads, Role
<1>19. \/ q = 0 /\ f \in {0, 2, 6}
       \/ q = 1 /\ f \in {0, 1, 2, 3, 4, 5, 6, 7}
       \/ q = 2 /\ f \in {0, 2, 4, 6}
  BY <1>1, DecompressCases
<1> QED
  BY <1>1, <1>6, <1>7, <1>8, <1>9, <1>10, <1>11, <1>12, <1>13, <1>14, <1>15, <1>16, <1>17, <1>18, <1>19

\* The bits 0, 1, 13, 14 and 15 lead from one case to another.
Neighbours(q, f, p, g) ==
  \/ f = g /\ {q, p} \in {{0, 1}, {0, 2}, {1, 3}, {2, 3}}
  \/ q = p /\ {f, g} \in {{0, 1}, {2, 3}, {4, 5}, {6, 7}, {0, 2}, {1, 3}, {4, 6}, {5, 7},
                          {0, 4}, {1, 5}, {2, 6}, {3, 7}}

LEMMA RolesApart ==
  ASSUME NEW q, NEW f, NEW p, NEW g, NEW i, Neighbours(q, f, p, g), Role(q, f, i)
  PROVE  ~ Role(p, g, i)
<1>1. CASE f = g /\ {q, p} \in {{0, 1}, {0, 2}, {1, 3}, {2, 3}}
  BY <1>1 DEF Role
<1>2. CASE q = p /\ {f, g} \in {{0, 1}, {2, 3}, {4, 5}, {6, 7}, {0, 2}, {1, 3}, {4, 6}, {5, 7},
                          {0, 4}, {1, 5}, {2, 6}, {3, 7}}
  BY <1>2 DEF Role
<1> QED
  BY <1>1, <1>2 DEF Neighbours

LEMMA NeighbouringCases ==
  ASSUME NEW h, NEW k \in {0, 1, 13, 14, 15}
  PROVE  Neighbours(Field(h, 0, 1), Field(h, 13, 15),
                    Field(Flip(h, k), 0, 1), Field(Flip(h, k), 13, 15))
<1> DEFINE one(u, j) == IF j \in u THEN 1 ELSE 0
<1>1. \A u : Field(u, 0, 1) = one(u, 0) + 2 * one(u, 1)
  <2> TAKE u
  <2>1. PICK b : b = Move(u, 0, 1, 0) /\ (0 \in b <=> 0 \in u) /\ (1 \in b <=> 1 \in u)
    <3>1. \A j \in 0..1 : j - 0 + 0 = j
      OBVIOUS
    <3> QED
      BY <3>1, MovedUp
  <2>2. Field(u, 0, 1) = Number(b, 0 + 1 + 1)
    BY <2>1 DEF Field
  <2>3. /\ Number(b, 0) = 0
        /\ Number(b, 0 + 1) = Number(b, 0) + (IF 0 \in b THEN Pow2[0] ELSE 0)
        /\ Number(b, 0 + 1 + 1) = Number(b, 0 + 1) + (IF 0 + 1 \in b THEN Pow2[0 + 1] ELSE 0)
    BY NumberSteps
  <2>4. Pow2[0] = 1 /\ Pow2[0 + 1] = 2
    BY Pow2Next, Pow2Values
  <2> QED
    BY <2>1, <2>2, <2>3, <2>4
<1>2. \A u : Field(u, 13, 15) = one(u, 13) + 2 * one(u, 14) + 4 * one(u, 15)
  <2> TAKE u
  <2>1. PICK b : b = Move(u, 13, 15, 0) /\ (0 \in b <=> 13 \in u) /\ (1 \in b <=> 14 \in u)
                   /\ (2 \in b <=> 15 \in u)
    <3>1. \A j \in 13..15 : j - 13 + 0 \in Move(u, 13, 15, 0) <=> j \in u
      BY MovedUp
    <3> QED
      BY <3>1
  <2>2. Field(u, 13, 15) = Number(b, 0 + 1 + 1 + 1)
    BY <2>1 DEF Field
  <2>3. /\ Number(b, 0) = 0
        /\ Number(b, 0 + 1) = Number(b, 0) + (IF 0 \in b THEN Pow2[0] ELSE 0)
        /\ Number(b, 0 + 1 + 1) = Number(b, 0 + 1) + (IF 0 + 1 \in b THEN Pow2[0 + 1] ELSE 0)
        /\ Number(b, 0 + 1 + 1 + 1)
             = Number(b, 0 + 1 + 1) + (IF 0 + 1 + 1 \in b THEN Pow2[0 + 1 + 1] ELSE 0)
    BY NumberSteps
  <2>4. Pow2[0] = 1 /\ Pow2[0 + 1] = 2 /\ Pow2[0 + 1 + 1] = 4
    BY Pow2Next, Pow2Values
  <2> QED
    BY <2>1, <2>2, <2>3, <2>4
<1>3. PICK g : g = Flip(h, k)
  OBVIOUS
<1>4. k \in g <=> k \notin h
  BY <1>3, FlippedBit
<1>5. \A j \in {0, 1, 13, 14, 15} : j # k => one(g, j) = one(h, j)
  BY <1>3, FlippedBit
<1>6. one(g, k) = 1 - one(h, k)
  BY <1>4
<1>7. \A u, j : one(u, j) \in {0, 1}
  OBVIOUS
<1> HIDE DEF one
<1>8. CASE k = 0
  BY <1>1, <1>2, <1>3, <1>5, <1>6, <1>7, <1>8 DEF Neighbours
<1>9. CASE k = 1
  BY <1>1, <1>2, <1>3, <1>5, <1>6, <1>7, <1>9 DEF Neighbours
<1>10. CASE k = 13
  BY <1>1, <1>2, <1>3, <1>5, <1>6, <1>7, <1>10 DEF Neighbours
<1>11. CASE k = 14
  BY <1>1, <1>2, <1>3, <1>5, <1>6, <1>7, <1>11 DEF Neighbours
<1>12. CASE k = 15
  BY <1>1, <1>2, <1>3, <1>5, <1>6, <1>7, <1>12 DEF Neighbours
<1> QED
  BY <1>8, <1>9, <1>10, <1>11, <1>12

----------------------------------------------------------------------------
(* Halfwords that differ in one bit: words that are alike                   *)

LEMMA IRead ==
  ASSUME NEW opcode \in {19, 3, 103}, NEW f \in Unsigned(3), NEW d \in Unsigned(5),
         NEW a \in Unsigned(5), NEW imm, NEW w, w = buildI(opcode, f, d, a, imm)
  PROVE  /\ Field(w, 0, 6) = opcode /\ funct3(w) = f /\ rd(w) = d /\ rs1(w) = a
         /\ Move(w, 20, 31, 0) = imm \cap (0..11)
<1>1. w = encodeIType(imm, a, f, d, opcode)
  BY CodeBits DEF buildI, buildR, encodeIType
<1>2. PICK m \in SUBSET (20..31) : m = Move(imm, 0, 11, 20)
  <2>1. Move(imm, 0, 11, 20) \subseteq 20..20 + 11 - 0
    BY MoveRange
  <2> QED
    BY <2>1
<1>3. PICK p25 \in SUBSET (25..31), p20 \in SUBSET (20..24) : m = p25 \cup p20
  <2>1. m = (m \cap (25..31)) \cup (m \cap (20..24))
    BY <1>2
  <2> QED
    BY <2>1
<1>4. PICK p7 \in SUBSET (7..11) : p7 = Place(d, 7)
  <2>1. Place(d, 7) \subseteq 7..7 + 4
    BY PlaceRanges
  <2> QED
    BY <2>1
<1>5. Built(w, p25, p20, a, f, p7, opcode)
  BY <1>1, <1>2, <1>3, <1>4, Opcodes DEF Built, encodeIType
<1>6. /\ Field(w, 0, 6) = opcode /\ funct3(w) = f /\ rd(w) = d /\ rs1(w) = a
      /\ w \cap (20..31) = Move(imm, 0, 11, 20)
  BY <1>2, <1>3, <1>4, <1>5, Fields
<1>7. Holds(w, 20, 31, imm, 0, 11)
  BY <1>6 DEF Holds
<1> QED
  BY <1>6, <1>7, MoveBack

LEMMA SameI ==
  ASSUME NEW opcode \in {19, 3, 103}, NEW f \in Unsigned(3), NEW d \in Unsigned(5),
         NEW a \in Unsigned(5), NEW imm,
         NEW opcode2 \in {19, 3, 103}, NEW f2 \in Unsigned(3), NEW d2 \in Unsigned(5),
         NEW a2 \in Unsigned(5), NEW imm2,
         buildI(opcode, f, d, a, imm) = buildI(opcode2, f2, d2, a2, imm2)
  PROVE  /\ opcode = opcode2 /\ f = f2 /\ d = d2 /\ a = a2
         /\ imm \cap (0..11) = imm2 \cap (0..11)
<1>1. PICK w : w = buildI(opcode, f, d, a, imm) /\ w = buildI(opcode2, f2, d2, a2, imm2)
  OBVIOUS
<1>2. /\ Field(w, 0, 6) = opcode /\ funct3(w) = f /\ rd(w) = d /\ rs1(w) = a
      /\ Move(w, 20, 31, 0) = imm \cap (0..11)
  BY <1>1, IRead
<1>3. /\ Field(w, 0, 6) = opcode2 /\ funct3(w) = f2 /\ rd(w) = d2 /\ rs1(w) = a2
      /\ Move(w, 20, 31, 0) = imm2 \cap (0..11)
  BY <1>1, IRead
<1> QED
  BY <1>2, <1>3

\* Words with the same bits below m + 1, that bit being the sign of both.
LEMMA SameExtended ==
  ASSUME NEW x, NEW y, NEW m, Extended(x, m), Extended(y, m), x \cap (0..m) = y \cap (0..m)
  PROVE  x = y
<1>1. m \in 0..30 /\ x \subseteq 0..31 /\ y \subseteq 0..31 /\ m \in 0..m
  BY DEF Extended, Bit
<1>2. m \in x <=> m \in y
  BY <1>1
<1>3. \A k \in 0..31 : k \in x <=> k \in y
  <2> TAKE k \in 0..31
  <2>1. CASE k \in m..31
    BY <1>2, <2>1 DEF Extended
  <2>2. CASE k \in 0..m
    BY <2>2
  <2> QED
    BY <1>1, <2>1, <2>2
<1> QED
  BY <1>1, <1>3

\* The instruction executed is one, and gives back the immediate it was made of.
LEMMA SameInstr ==
  ASSUME NEW w, NEW op, NEW d, NEW a, NEW b, NEW n, Expands(w, Instr(op, d, a, b, n)),
         NEW op2, NEW d2, NEW a2, NEW b2, NEW n2, Expands(w, Instr(op2, d2, a2, b2, n2))
  PROVE  op = op2 /\ d = d2 /\ a = a2 /\ b = b2 /\ n = n2
BY DEF Expands, Instr

LEMMA SameOperands ==
  ASSUME NEW w,
         NEW op, NEW d, NEW a, NEW b, NEW x, Expands(w, Instr(op, d, a, b, ToInt(x))),
         NEW op2, NEW d2, NEW a2, NEW b2, NEW y, Expands(w, Instr(op2, d2, a2, b2, ToInt(y))),
         x \subseteq Bit, y \subseteq Bit
  PROVE  op = op2 /\ d = d2 /\ a = a2 /\ b = b2 /\ x = y
<1>1. op = op2 /\ d = d2 /\ a = a2 /\ b = b2 /\ ToInt(x) = ToInt(y)
  BY SameInstr
<1>2. x = y
  BY <1>1, NumberOfWord
<1> QED
  BY <1>1, <1>2

LEMMA SameU ==
  ASSUME NEW d \in Unsigned(5), NEW imm, Extended(imm, 11),
         NEW d2 \in Unsigned(5), NEW imm2, Extended(imm2, 11),
         buildU(55, d, {k + 12 : k \in imm}) = buildU(55, d2, {k + 12 : k \in imm2})
  PROVE  d = d2 /\ imm = imm2
<1>1. Expands(buildU(55, d, {k + 12 : k \in imm}), Instr("lui", d, 0, 0, Number(imm, 20)))
  BY UExpands DEF Extended
<1>2. Expands(buildU(55, d2, {k + 12 : k \in imm2}), Instr("lui", d2, 0, 0, Number(imm2, 20)))
  BY UExpands DEF Extended
<1>3. d = d2 /\ Number(imm, 20) = Number(imm2, 20)
  BY <1>1, <1>2 DEF Expands, Instr
<1>4. imm \cap 0 .. 20 - 1 = imm2 \cap 0 .. 20 - 1
  BY <1>3, BitsOfNumber
<1>5. imm \cap (0..11) = imm2 \cap (0..11)
  BY <1>4
<1> QED
  BY <1>3, <1>5, SameExtended

----------------------------------------------------------------------------
(* Halfwords that differ in one bit: no two are expanded alike              *)

LEMMA FlippedOperands ==
  ASSUME NEW h, NEW k \in 0..15, NEW g, g = Flip(h, k)
  PROVE  /\ getRvcRegister(g, 2) = getRvcRegister(h, 2) <=> k \notin 2..4
         /\ getRvcRegister(g, 7) = getRvcRegister(h, 7) <=> k \notin 7..9
         /\ Register5(g) = Register5(h) <=> k \notin 7..11
         /\ Field(g, 2, 6) = Field(h, 2, 6) <=> k \notin 2..6
         /\ Field(g, 10, 11) = Field(h, 10, 11) <=> k \notin 10..11
         /\ Field(g, 5, 6) = Field(h, 5, 6) <=> k \notin 5..6
         /\ Field(g, 0, 1) = Field(h, 0, 1) <=> k \notin 0..1
         /\ Field(g, 13, 15) = Field(h, 13, 15) <=> k \notin 13..15
         /\ (12 \in g <=> 12 \in h) <=> k # 12
<1>1. \A x, y \in Int : x <= y => (Field(g, x, y) = Field(h, x, y) <=> k \notin x..y)
  BY FlippedField
<1>2. /\ Field(g, 2, 4) = Field(h, 2, 4) <=> k \notin 2..4
      /\ Field(g, 7, 9) = Field(h, 7, 9) <=> k \notin 7..9
      /\ Field(g, 7, 11) = Field(h, 7, 11) <=> k \notin 7..11
      /\ Field(g, 2, 6) = Field(h, 2, 6) <=> k \notin 2..6
      /\ Field(g, 10, 11) = Field(h, 10, 11) <=> k \notin 10..11
      /\ Field(g, 5, 6) = Field(h, 5, 6) <=> k \notin 5..6
      /\ Field(g, 0, 1) = Field(h, 0, 1) <=> k \notin 0..1
      /\ Field(g, 13, 15) = Field(h, 13, 15) <=> k \notin 13..15
  BY <1>1
<1>3. \A u : Field(u, 2, 4) \in Int /\ Field(u, 7, 9) \in Int
  <2>1. 4 - 2 + 1 \in Nat /\ 9 - 7 + 1 \in Nat
    OBVIOUS
  <2>2. \A u : /\ Field(u, 2, 4) \in 0 .. Pow2[4 - 2 + 1] - 1
               /\ Field(u, 7, 9) \in 0 .. Pow2[9 - 7 + 1] - 1
    BY <2>1, NumberType DEF Field
  <2> QED
    BY <2>2
<1>4. \A u : getRvcRegister(u, 2) = 8 + Field(u, 2, 4) /\ getRvcRegister(u, 7) = 8 + Field(u, 7, 9)
  <2>1. 2 + 2 = 4 /\ 7 + 2 = 9
    OBVIOUS
  <2> QED
    BY <2>1 DEF getRvcRegister
<1>5. (12 \in g <=> 12 \in h) <=> k # 12
  BY FlippedBit
<1> QED
  BY <1>2, <1>3, <1>4, <1>5 DEF Register5

LEMMA FlippedImmediates ==
  ASSUME NEW h, NEW k \in 2..12, NEW g, g = Flip(h, k)
  PROVE  /\ k \in 5..12 => Imm4spn(g) # Imm4spn(h)
         /\ k \in {5, 6, 10, 11, 12} => ImmLwSw(g) # ImmLwSw(h)
         /\ k \in {2, 3, 4, 5, 6, 12} =>
              /\ Imm6(g) # Imm6(h) /\ SraiImm(g) # SraiImm(h)
              /\ signExtend(Imm6(g), 6) # signExtend(Imm6(h), 6)
              /\ Imm16sp(g) # Imm16sp(h)
              /\ ImmLwsp(g) # ImmLwsp(h)
         /\ ImmJ(g) # ImmJ(h)
         /\ k \in {2, 3, 4, 5, 6, 10, 11, 12} => ImmB(g) # ImmB(h)
         /\ k \in 7..12 => ImmSwsp(g) # ImmSwsp(h)
<1>1. /\ k \in 5..12 => Imm4spn(g) # Imm4spn(h)
      /\ k \in 7..12 => ImmSwsp(g) # ImmSwsp(h)
  BY Imm4spnHas, ImmSwspHas
<1>2. k \in {5, 6, 10, 11, 12} => ImmLwSw(g) # ImmLwSw(h)
  BY ImmLwSwHas
<1>3. k \in {2, 3, 4, 5, 6, 10, 11, 12} => ImmB(g) # ImmB(h)
  BY ImmBHas
<1>4. ImmJ(g) # ImmJ(h)
  BY ImmJHas
<1>5. ASSUME k \in {2, 3, 4, 5, 6, 12}
      PROVE  /\ Imm6(g) # Imm6(h) /\ SraiImm(g) # SraiImm(h)
             /\ signExtend(Imm6(g), 6) # signExtend(Imm6(h), 6)
             /\ Imm16sp(g) # Imm16sp(h) /\ ImmLwsp(g) # ImmLwsp(h)
  <2>1. Imm16sp(g) # Imm16sp(h) /\ ImmLwsp(g) # ImmLwsp(h)
    BY <1>5, Imm16spHas, ImmLwspHas
  <2>2. Imm6(g) # Imm6(h)
    BY <1>5, Imm6Has
  <2>3. \A u : Imm6(u) \subseteq 0..5
    BY Imm6Bits
  <2>4. PICK p \in 0..5 : ~ (p \in Imm6(g) <=> p \in Imm6(h))
    BY <2>2, <2>3
  <2>5. ~ (p \in SraiImm(g) <=> p \in SraiImm(h))
    BY <2>4 DEF SraiImm
  <2>6. ~ (p \in signExtend(Imm6(g), 6) <=> p \in signExtend(Imm6(h), 6))
    BY <2>4 DEF signExtend
  <2> QED
    BY <2>1, <2>2, <2>5, <2>6
<1> QED
  BY <1>1, <1>2, <1>3, <1>4, <1>5

\* The immediates of I that were not extended.
LEMMA SameShort ==
  ASSUME NEW h, NEW g, Imm6(h) \cap (0..11) = Imm6(g) \cap (0..11)
  PROVE  Imm6(h) = Imm6(g)
<1>1. \A k \in Imm6(h) \cup Imm6(g) : k \in 0..11
  BY Imm6Bits
<1> QED
  BY <1>1

\* The fields of the register and shift forms of quadrant 1.
LEMMA MiscAluRead ==
  ASSUME NEW h, NEW w, w = MiscAlu(h)
  PROVE  /\ rd(w) = getRvcRegister(h, 7)
         /\ Field(h, 10, 11) \in {0, 1, 2, 3} /\ Field(h, 5, 6) \in {0, 1, 2, 3}
         /\ Field(h, 10, 11) = 0 => /\ Field(w, 0, 6) = 19 /\ funct3(w) = 5
                                    /\ Move(w, 20, 31, 0) = Imm6(h) \cap (0..11)
         /\ Field(h, 10, 11) = 1 => /\ Field(w, 0, 6) = 19 /\ funct3(w) = 5
                                    /\ Move(w, 20, 31, 0) = SraiImm(h) \cap (0..11)
         /\ Field(h, 10, 11) = 2 => /\ Field(w, 0, 6) = 19 /\ funct3(w) = 7
                                    /\ Move(w, 20, 31, 0) = signExtend(Imm6(h), 6) \cap (0..11)
         /\ Field(h, 10, 11) = 3 => /\ Field(w, 0, 6) = 51 /\ rs2(w) = getRvcRegister(h, 2)
                                    /\ Field(h, 5, 6) = 0 => funct3(w) = 0
                                    /\ Field(h, 5, 6) = 1 => funct3(w) = 4
                                    /\ Field(h, 5, 6) = 2 => funct3(w) = 6
                                    /\ Field(h, 5, 6) = 3 => funct3(w) = 7
<1>1. PICK a \in Unsigned(5), b \in Unsigned(5) :
        a = getRvcRegister(h, 7) /\ b = getRvcRegister(h, 2)
  BY CompressedRegisters
<1>2. PICK s \in {0, 1, 2, 3}, t \in {0, 1, 2, 3} : s = Field(h, 10, 11) /\ t = Field(h, 5, 6)
  BY CompressedRegisters
<1>3. /\ 5 \in Unsigned(3) /\ 7 \in Unsigned(3) /\ 0 \in Unsigned(3) /\ 4 \in Unsigned(3)
      /\ 6 \in Unsigned(3) /\ 0 \in Unsigned(7) /\ 32 \in Unsigned(7) /\ 51 \in Unsigned(7)
  BY SmallNumbers, Opcodes
<1>4. CASE s = 0
  <2>1. w = buildI(19, 5, a, a, Imm6(h))
    BY <1>1, <1>2, <1>4 DEF MiscAlu
  <2>2. /\ Field(w, 0, 6) = 19 /\ funct3(w) = 5 /\ rd(w) = a
        /\ Move(w, 20, 31, 0) = Imm6(h) \cap (0..11)
    BY <1>3, <2>1, IRead
  <2> QED
    BY <1>1, <1>2, <1>4, <2>2
<1>5. CASE s = 1
  <2>1. w = buildI(19, 5, a, a, SraiImm(h))
    BY <1>1, <1>2, <1>5 DEF MiscAlu
  <2>2. /\ Field(w, 0, 6) = 19 /\ funct3(w) = 5 /\ rd(w) = a
        /\ Move(w, 20, 31, 0) = SraiImm(h) \cap (0..11)
    BY <1>3, <2>1, IRead
  <2> QED
    BY <1>1, <1>2, <1>5, <2>2
<1>6. CASE s = 2
  <2>1. w = buildI(19, 7, a, a, signExtend(Imm6(h), 6))
    BY <1>1, <1>2, <1>6 DEF MiscAlu
  <2>2. /\ Field(w, 0, 6) = 19 /\ funct3(w) = 7 /\ rd(w) = a
        /\ Move(w, 20, 31, 0) = signExtend(Imm6(h), 6) \cap (0..11)
    BY <1>3, <2>1, IRead
  <2> QED
    BY <1>1, <1>2, <1>6, <2>2
<1>7. CASE s = 3
  <2>1. PICK f \in Unsigned(3), f7 \in Unsigned(7) :
          /\ w = buildR(51, f, f7, a, a, b)
          /\ t = 0 => f = 0
          /\ t = 1 => f = 4
          /\ t = 2 => f = 6
          /\ t = 3 => f = 7
    <3>1. /\ t = 0 => w = buildR(51, 0, 32, a, a, b)
          /\ t = 1 => w = buildR(51, 4, 0, a, a, b)
          /\ t = 2 => w = buildR(51, 6, 0, a, a, b)
          /\ t = 3 => w = buildR(51, 7, 0, a, a, b)
      BY <1>1, <1>2, <1>7 DEF MiscAlu
    <3> QED
      BY <1>3, <3>1
  <2>2. w = encodeRType(f7, b, a, f, a, 51)
    BY <2>1 DEF buildR, encodeRType
  <2>3. Field(w, 0, 6) = 51 /\ rd(w) = a /\ funct3(w) = f /\ rs2(w) = b
    BY <1>3, <2>2, RFields
  <2> QED
    BY <1>1, <1>2, <1>7, <2>1, <2>3
<1> QED
  BY <1>2, <1>4, <1>5, <1>6, <1>7

LEMMA MiscAluInjective ==
  ASSUME NEW h, NEW k \in 2..12, MiscAlu(Flip(h, k)) = MiscAlu(h)
  PROVE  k = 12 /\ Field(h, 10, 11) = 3
<1>1. PICK g, w : g = Flip(h, k) /\ w = MiscAlu(h) /\ w = MiscAlu(g)
  OBVIOUS
<1>2. PICK s \in {0, 1, 2, 3}, s2 \in {0, 1, 2, 3}, t \in {0, 1, 2, 3}, t2 \in {0, 1, 2, 3} :
        /\ s = Field(h, 10, 11) /\ s2 = Field(g, 10, 11)
        /\ t = Field(h, 5, 6) /\ t2 = Field(g, 5, 6)
  BY CompressedRegisters
<1>3. k \in 0..15
  OBVIOUS
<1>4. /\ getRvcRegister(g, 7) = getRvcRegister(h, 7) <=> k \notin 7..9
      /\ getRvcRegister(g, 2) = getRvcRegister(h, 2) <=> k \notin 2..4
      /\ s2 = s <=> k \notin 10..11
      /\ t2 = t <=> k \notin 5..6
  BY <1>1, <1>2, <1>3, FlippedOperands
<1>5. rd(w) = getRvcRegister(h, 7) /\ rd(w) = getRvcRegister(g, 7)
  BY <1>1, MiscAluRead
<1>6. k \notin 7..9
  BY <1>4, <1>5
<1>7. \A u : 10 \notin Imm6(u) /\ 10 \in SraiImm(u)
  BY Imm6Bits DEF SraiImm
<1>8. s = s2
  <2>1. /\ s = 3 <=> Field(w, 0, 6) = 51
        /\ s = 2 <=> (Field(w, 0, 6) = 19 /\ funct3(w) = 7)
        /\ s = 1 => 10 \in Move(w, 20, 31, 0)
        /\ s = 0 => 10 \notin Move(w, 20, 31, 0)
    BY <1>1, <1>2, <1>7, MiscAluRead
  <2>2. /\ s2 = 3 <=> Field(w, 0, 6) = 51
        /\ s2 = 2 <=> (Field(w, 0, 6) = 19 /\ funct3(w) = 7)
        /\ s2 = 1 => 10 \in Move(w, 20, 31, 0)
        /\ s2 = 0 => 10 \notin Move(w, 20, 31, 0)
    BY <1>1, <1>2, <1>7, MiscAluRead
  <2> QED
    BY <2>1, <2>2
<1>9. k \in {2, 3, 4, 5, 6, 12}
  BY <1>4, <1>6, <1>8
<1>10. /\ Imm6(g) # Imm6(h) /\ SraiImm(g) # SraiImm(h)
       /\ signExtend(Imm6(g), 6) # signExtend(Imm6(h), 6)
  BY <1>1, <1>9, FlippedImmediates
<1>11. s # 0
  <2>1. s = 0 => Imm6(h) \cap (0..11) = Imm6(g) \cap (0..11)
    BY <1>1, <1>2, <1>8, MiscAluRead
  <2> QED
    BY <1>10, <2>1, SameShort
<1>12. s # 1
  <2>1. s = 1 => SraiImm(h) \cap (0..11) = SraiImm(g) \cap (0..11)
    BY <1>1, <1>2, <1>8, MiscAluRead
  <2>2. \A u : SraiImm(u) \subseteq 0..11
    <3>1. \A u : \A j \in Imm6(u) : j \in 0..11
      BY Imm6Bits
    <3> QED
      BY <3>1 DEF SraiImm
  <2>3. \A u : SraiImm(u) \cap (0..11) = SraiImm(u)
    BY <2>2
  <2> QED
    BY <1>10, <2>1, <2>3
<1>13. s # 2
  <2>1. s = 2 => signExtend(Imm6(h), 6) \cap (0..11) = signExtend(Imm6(g), 6) \cap (0..11)
    BY <1>1, <1>2, <1>8, MiscAluRead
  <2> QED
    BY <1>10, <2>1, CompressedImmediates, SameExtended
<1>14. CASE s = 3
  <2>1. getRvcRegister(g, 2) = getRvcRegister(h, 2)
    BY <1>1, <1>2, <1>8, <1>14, MiscAluRead
  <2>2. /\ t = 0 => funct3(w) = 0
        /\ t = 1 => funct3(w) = 4
        /\ t = 2 => funct3(w) = 6
        /\ t = 3 => funct3(w) = 7
    BY <1>1, <1>2, <1>14, MiscAluRead
  <2>3. /\ t2 = 0 => funct3(w) = 0
        /\ t2 = 1 => funct3(w) = 4
        /\ t2 = 2 => funct3(w) = 6
        /\ t2 = 3 => funct3(w) = 7
    BY <1>1, <1>2, <1>8, <1>14, MiscAluRead
  <2>4. t = t2
    BY <2>2, <2>3
  <2> QED
    BY <1>2, <1>4, <1>9, <1>14, <2>1, <2>4
<1> QED
  BY <1>2, <1>11, <1>12, <1>13, <1>14

\* LuiOrAddi16sp makes two instructions, JumpMoveAdd three: the word tells which.
LEMMA LuiOrAddi16spInjective ==
  ASSUME NEW h, NEW k \in 2..12, LuiOrAddi16sp(h) # Illegal
  PROVE  LuiOrAddi16sp(Flip(h, k)) # LuiOrAddi16sp(h)
<1>1. PICK g, w : g = Flip(h, k) /\ w = LuiOrAddi16sp(h)
  OBVIOUS
<1>2. PICK r \in Unsigned(5), s \in Unsigned(5) : r = Register5(h) /\ s = Register5(g)
  BY CompressedRegisters
<1>3. \A u : /\ signExtend(Imm6(u), 6) \subseteq Bit /\ Extended(signExtend(Imm6(u), 6), 11)
             /\ Extended(Imm16sp(u), 11)
  BY CompressedImmediates DEF Extended
<1>4. /\ Reads(buildI(19, 0, 2, 2, Imm16sp(h)), "addi", 2, 2)
      /\ Reads(buildI(19, 0, 2, 2, Imm16sp(g)), "addi", 2, 2)
      /\ Reads(buildU(55, r, {j + 12 : j \in signExtend(Imm6(h), 6)}), "lui", r, 0)
      /\ Reads(buildU(55, s, {j + 12 : j \in signExtend(Imm6(g), 6)}), "lui", s, 0)
  <2>1. 2 \in Unsigned(5)
    BY SmallNumbers
  <2>2. /\ Reads(buildI(19, 0, 2, 2, Imm16sp(h)), "addi", 2, 2)
        /\ Reads(buildI(19, 0, 2, 2, Imm16sp(g)), "addi", 2, 2)
    BY <1>3, <2>1, ReadsI
  <2>3. /\ Reads(buildU(55, r, {j + 12 : j \in signExtend(Imm6(h), 6)}), "lui", r, 0)
        /\ Reads(buildU(55, s, {j + 12 : j \in signExtend(Imm6(g), 6)}), "lui", s, 0)
    BY <1>2, <1>3, ReadsUJ
  <2> QED
    BY <2>2, <2>3
<1>5. r = s <=> k \notin 7..11
  BY <1>1, <1>2, FlippedOperands
<1>6. ASSUME w = LuiOrAddi16sp(g) PROVE FALSE
  <2>1. CASE w = buildI(19, 0, 2, 2, Imm16sp(h)) /\ r = 2
    <3>1. w = buildI(19, 0, 2, 2, Imm16sp(g)) /\ s = 2
      BY <1>1, <1>2, <1>4, <1>6, <2>1 DEF LuiOrAddi16sp, Reads
    <3>2. 2 \in Unsigned(5)
      BY SmallNumbers
    <3>3. /\ Expands(w, Instr("addi", 2, 2, 0, ToInt(Imm16sp(h))))
          /\ Expands(w, Instr("addi", 2, 2, 0, ToInt(Imm16sp(g))))
      BY <1>3, <2>1, <3>1, <3>2, ExpandedI
    <3>4. Imm16sp(h) = Imm16sp(g)
      BY <1>3, <3>3, SameOperands DEF Extended
    <3> QED
      BY <1>1, <1>5, <2>1, <3>1, <3>4, FlippedImmediates
  <2>2. CASE w = buildU(55, r, {j + 12 : j \in signExtend(Imm6(h), 6)})
    <3>1. w = buildU(55, s, {j + 12 : j \in signExtend(Imm6(g), 6)})
      BY <1>1, <1>2, <1>4, <1>6, <2>2 DEF LuiOrAddi16sp, Reads
    <3>2. r = s /\ signExtend(Imm6(h), 6) = signExtend(Imm6(g), 6)
      BY <1>3, <2>2, <3>1, SameU
    <3> QED
      BY <1>1, <1>5, <3>2, FlippedImmediates
  <2> QED
    BY <1>1, <1>2, <2>1, <2>2 DEF LuiOrAddi16sp
<1> QED
  BY <1>1, <1>6

LEMMA JumpMoveAddInjective ==
  ASSUME NEW h, NEW k \in 2..12, JumpMoveAdd(h) # Illegal
  PROVE  JumpMoveAdd(Flip(h, k)) # JumpMoveAdd(h)
<1>1. PICK g, w : g = Flip(h, k) /\ w = JumpMoveAdd(h)
  OBVIOUS
<1>2. PICK r \in Unsigned(5), s \in Unsigned(5), b \in Unsigned(5), c \in Unsigned(5) :
        /\ r = Register5(h) /\ s = Register5(g)
        /\ b = Field(h, 2, 6) /\ c = Field(g, 2, 6)
  BY CompressedRegisters
<1>3. /\ s = r <=> k \notin 7..11
      /\ c = b <=> k \notin 2..6
      /\ (12 \in g <=> 12 \in h) <=> k # 12
  BY <1>1, <1>2, FlippedOperands
<1>4. /\ 0 \in Unsigned(5) /\ 1 \in Unsigned(5) /\ 0 \in Unsigned(3) /\ 0 \in Unsigned(7)
  BY SmallNumbers
<1> DEFINE link(u) == IF 12 \in u THEN 1 ELSE 0
           base(u, x) == IF 12 \in u THEN x ELSE 0
           jalr(u, x) == buildI(103, 0, link(u), x, {})
           add(u, x, y) == buildR(51, 0, 0, x, base(u, x), y)
<1>5. /\ link(h) \in Unsigned(5) /\ link(g) \in Unsigned(5)
      /\ base(h, r) \in Unsigned(5) /\ base(g, s) \in Unsigned(5)
  BY <1>4
<1>6. /\ Expands(jalr(h, r), Instr("jalr", link(h), r, 0, ToInt({})))
      /\ Expands(jalr(g, s), Instr("jalr", link(g), s, 0, ToInt({})))
      /\ Expands(add(h, r, b), Instr("add", r, base(h, r), b, 0))
      /\ Expands(add(g, s, c), Instr("add", s, base(g, s), c, 0))
      /\ Expands(Ebreak, Instr("ebreak", 0, 0, 0, 0))
  <2>1. /\ Expands(jalr(h, r), Instr("jalr", link(h), r, 0, ToInt({})))
        /\ Expands(jalr(g, s), Instr("jalr", link(g), s, 0, ToInt({})))
    BY <1>5, CompressedImmediates, ExpandedI
  <2>2. /\ Expands(add(h, r, b), Instr("add", r, base(h, r), b, 0))
        /\ Expands(add(g, s, c), Instr("add", s, base(g, s), c, 0))
    BY <1>5, ExpandedR
  <2> QED
    BY <2>1, <2>2, EbreakExpands
<1>7. ASSUME w = JumpMoveAdd(g) PROVE FALSE
  <2>1. /\ r # 0 /\ b = 0 => w = jalr(h, r)
        /\ r # 0 /\ b # 0 => w = add(h, r, b)
        /\ r = 0 => b = 0 /\ 12 \in h /\ w = Ebreak
    BY <1>1, <1>2 DEF JumpMoveAdd
  <2>2. /\ s # 0 /\ c = 0 => w = jalr(g, s)
        /\ s # 0 /\ c # 0 => w = add(g, s, c)
        /\ s = 0 => c = 0 /\ 12 \in g /\ w = Ebreak
    BY <1>1, <1>2, <1>7 DEF JumpMoveAdd
  <2> HIDE DEF jalr, add
  <2>3. CASE r = 0
    BY <1>3, <1>6, <2>1, <2>2, <2>3, SameInstr
  <2>4. CASE r # 0 /\ b = 0
    <3>1. c = 0 /\ s # 0
      BY <1>6, <2>1, <2>2, <2>4, SameInstr
    <3>2. link(h) = link(g) /\ r = s
      BY <1>6, <2>1, <2>2, <2>4, <3>1, SameInstr
    <3> QED
      BY <1>3, <2>4, <3>1, <3>2
  <2>5. CASE r # 0 /\ b # 0
    <3>1. c # 0 /\ s # 0
      BY <1>6, <2>1, <2>2, <2>5, SameInstr
    <3>2. r = s /\ base(h, r) = base(g, s) /\ b = c
      BY <1>6, <2>1, <2>2, <2>5, <3>1, SameInstr
    <3> QED
      BY <1>3, <2>5, <3>2
  <2> QED
    BY <2>3, <2>4, <2>5
<1> QED
  BY <1>1, <1>7

\* The bits 2 to 12, which stay within a case of decompress.
LEMMA QuadrantsInjective ==
  ASSUME NEW h, NEW k \in 2..12, decompress(h) # Illegal, decompress(Flip(h, k)) = decompress(h)
  PROVE  k = 12 /\ Reserved(h)
<1>1. PICK g, w, q, f : /\ g = Flip(h, k) /\ w = decompress(h) /\ w = decompress(g)
                        /\ q = Field(h, 0, 1) /\ f = Field(h, 13, 15)
  OBVIOUS
<1>2. k \in 0..15
  OBVIOUS
<1>3. q = Field(g, 0, 1) /\ f = Field(g, 13, 15) /\ w # Illegal
  BY <1>1, <1>2, FlippedOperands
<1>4. PICK d \in Unsigned(5), a \in Unsigned(5), r \in Unsigned(5), b \in Unsigned(5) :
        /\ d = getRvcRegister(h, 2) /\ a = getRvcRegister(h, 7)
        /\ r = Register5(h) /\ b = Field(h, 2, 6)
  BY CompressedRegisters
<1>5. PICK d2 \in Unsigned(5), a2 \in Unsigned(5), r2 \in Unsigned(5), b2 \in Unsigned(5) :
        /\ d2 = getRvcRegister(g, 2) /\ a2 = getRvcRegister(g, 7)
        /\ r2 = Register5(g) /\ b2 = Field(g, 2, 6)
  BY CompressedRegisters
<1>6. /\ d2 = d <=> k \notin 2..4
      /\ a2 = a <=> k \notin 7..9
      /\ r2 = r <=> k \notin 7..11
      /\ b2 = b <=> k \notin 2..6
  BY <1>1, <1>2, <1>4, <1>5, FlippedOperands
<1>7. 0 \in Unsigned(5) /\ 1 \in Unsigned(5) /\ 2 \in Unsigned(5) /\ 1 \in Unsigned(3)
  BY SmallNumbers
<1>8. \A u : /\ Extended(Imm4spn(u), 11) /\ Extended(ImmLwSw(u), 11) /\ Extended(ImmLwsp(u), 11)
             /\ Extended(ImmSwsp(u), 11) /\ Extended(signExtend(Imm6(u), 6), 11)
             /\ Extended(ImmB(u), 12) /\ 0 \notin ImmB(u)
             /\ Extended(ImmJ(u), 20) /\ 0 \notin ImmJ(u)
  BY CompressedImmediates
<1>9. CASE q = 0 /\ f = 0
  <2>1. w = buildI(19, 0, d, 2, Imm4spn(h)) /\ w = buildI(19, 0, d2, 2, Imm4spn(g))
    BY <1>1, <1>3, <1>4, <1>5, <1>9, DecompressCases DEF Addi4spn
  <2>2. /\ Expands(w, Instr("addi", d, 2, 0, ToInt(Imm4spn(h))))
        /\ Expands(w, Instr("addi", d2, 2, 0, ToInt(Imm4spn(g))))
    BY <1>7, <1>8, <2>1, ExpandedI
  <2>3. d = d2 /\ Imm4spn(h) = Imm4spn(g)
    BY <1>8, <2>2, SameOperands DEF Extended
  <2> QED
    BY <1>1, <1>6, <2>3, FlippedImmediates
<1>10. CASE q = 0 /\ f = 2
  <2>1. w = buildI(3, 2, d, a, ImmLwSw(h)) /\ w = buildI(3, 2, d2, a2, ImmLwSw(g))
    BY <1>1, <1>3, <1>4, <1>5, <1>10, DecompressCases
  <2>2. /\ Expands(w, Instr("lw", d, a, 0, ToInt(ImmLwSw(h))))
        /\ Expands(w, Instr("lw", d2, a2, 0, ToInt(ImmLwSw(g))))
    BY <1>7, <1>8, <2>1, ExpandedI
  <2>3. d = d2 /\ a = a2 /\ ImmLwSw(h) = ImmLwSw(g)
    BY <1>8, <2>2, SameOperands DEF Extended
  <2> QED
    BY <1>1, <1>6, <2>3, FlippedImmediates
<1>11. CASE q = 0 /\ f = 6
  <2>1. w = buildS(35, 2, a, d, ImmLwSw(h)) /\ w = buildS(35, 2, a2, d2, ImmLwSw(g))
    BY <1>1, <1>3, <1>4, <1>5, <1>11, DecompressCases
  <2>2. /\ Expands(w, Instr("sw", 0, a, d, ToInt(ImmLwSw(h))))
        /\ Expands(w, Instr("sw", 0, a2, d2, ToInt(ImmLwSw(g))))
    BY <1>7, <1>8, <2>1, ExpandedSB
  <2>3. d = d2 /\ a = a2 /\ ImmLwSw(h) = ImmLwSw(g)
    BY <1>8, <2>2, SameOperands DEF Extended
  <2> QED
    BY <1>1, <1>6, <2>3, FlippedImmediates
<1>12. CASE q = 1 /\ f = 0
  <2>1. /\ w = buildI(19, 0, r, r, signExtend(Imm6(h), 6))
        /\ w = buildI(19, 0, r2, r2, signExtend(Imm6(g), 6))
    BY <1>1, <1>3, <1>4, <1>5, <1>12, DecompressCases DEF Addi
  <2>2. /\ Expands(w, Instr("addi", r, r, 0, ToInt(signExtend(Imm6(h), 6))))
        /\ Expands(w, Instr("addi", r2, r2, 0, ToInt(signExtend(Imm6(g), 6))))
    BY <1>7, <1>8, <2>1, ExpandedI
  <2>3. r = r2 /\ signExtend(Imm6(h), 6) = signExtend(Imm6(g), 6)
    BY <1>8, <2>2, SameOperands DEF Extended
  <2> QED
    BY <1>1, <1>6, <2>3, FlippedImmediates
<1>13. CASE q = 1 /\ f \in {1, 5}
  <2>1. PICK link \in Unsigned(5) : (f = 1 /\ link = 1) \/ (f = 5 /\ link = 0)
    BY <1>7, <1>13
  <2>2. w = buildJ(111, link, ImmJ(h)) /\ w = buildJ(111, link, ImmJ(g))
    <3>1. w = buildJ(111, link, ImmJ(h))
      BY <1>1, <1>3, <1>4, <1>13, <2>1, DecompressCases
    <3>2. w = buildJ(111, link, ImmJ(g))
      BY <1>1, <1>3, <1>4, <1>13, <2>1, DecompressCases
    <3> QED
      BY <3>1, <3>2
  <2>3. /\ Expands(w, Instr("jal", link, 0, 0, ToInt(ImmJ(h))))
        /\ Expands(w, Instr("jal", link, 0, 0, ToInt(ImmJ(g))))
    BY <1>8, <2>2, JExpands
  <2>4. ImmJ(h) = ImmJ(g)
    BY <1>8, <2>3, SameOperands DEF Extended
  <2> QED
    BY <1>1, <2>4, FlippedImmediates
<1>14. CASE q = 1 /\ f = 2
  <2>1. /\ w = buildI(19, 0, r, 0, signExtend(Imm6(h), 6))
        /\ w = buildI(19, 0, r2, 0, signExtend(Imm6(g), 6))
    BY <1>1, <1>3, <1>4, <1>5, <1>14, DecompressCases DEF Li
  <2>2. /\ Expands(w, Instr("addi", r, 0, 0, ToInt(signExtend(Imm6(h), 6))))
        /\ Expands(w, Instr("addi", r2, 0, 0, ToInt(signExtend(Imm6(g), 6))))
    BY <1>7, <1>8, <2>1, ExpandedI
  <2>3. r = r2 /\ signExtend(Imm6(h), 6) = signExtend(Imm6(g), 6)
    BY <1>8, <2>2, SameOperands DEF Extended
  <2> QED
    BY <1>1, <1>6, <2>3, FlippedImmediates
<1>15. CASE q = 1 /\ f = 3
  <2>1. w = LuiOrAddi16sp(h) /\ w = LuiOrAddi16sp(g)
    BY <1>1, <1>3, <1>15, DecompressCases
  <2> QED
    BY <1>1, <1>3, <1>15, <2>1, LuiOrAddi16spInjective
<1>16. CASE q = 1 /\ f = 4
  <2>1. w = MiscAlu(h) /\ w = MiscAlu(g)
    BY <1>1, <1>3, <1>16, DecompressCases
  <2>2. k = 12 /\ Field(h, 10, 11) = 3
    BY <1>1, <2>1, MiscAluInjective
  <2> QED
    BY <1>1, <1>16, <2>2 DEF Reserved
<1>17. CASE q = 1 /\ f \in {6, 7}
  <2>1. PICK op : (f = 6 /\ op = "beq") \/ (f = 7 /\ op = "bne")
    BY <1>17
  <2>2. \/ w = buildB(99, 0, a, 0, ImmB(h)) /\ w = buildB(99, 0, a2, 0, ImmB(g)) /\ op = "beq"
        \/ w = buildB(99, 1, a, 0, ImmB(h)) /\ w = buildB(99, 1, a2, 0, ImmB(g)) /\ op = "bne"
    <3>1. /\ op = "beq" => w = buildB(99, 0, a, 0, ImmB(h))
          /\ op = "bne" => w = buildB(99, 1, a, 0, ImmB(h))
      BY <1>1, <1>3, <1>4, <1>17, <2>1, DecompressCases DEF Branch
    <3>2. /\ op = "beq" => w = buildB(99, 0, a2, 0, ImmB(g))
          /\ op = "bne" => w = buildB(99, 1, a2, 0, ImmB(g))
      BY <1>1, <1>3, <1>5, <1>17, <2>1, DecompressCases DEF Branch
    <3> QED
      BY <2>1, <3>1, <3>2
  <2>3. /\ Expands(w, Instr(op, 0, a, 0, ToInt(ImmB(h))))
        /\ Expands(w, Instr(op, 0, a2, 0, ToInt(ImmB(g))))
    BY <1>7, <1>8, <2>2, ExpandedSB
  <2>4. a = a2 /\ ImmB(h) = ImmB(g)
    BY <1>8, <2>3, SameOperands DEF Extended
  <2> QED
    BY <1>1, <1>6, <2>4, FlippedImmediates
<1>18. CASE q = 2 /\ f = 0
  <2>1. w = buildI(19, 1, r, r, Imm6(h)) /\ w = buildI(19, 1, r2, r2, Imm6(g))
    BY <1>1, <1>3, <1>4, <1>5, <1>18, DecompressCases DEF Slli
  <2>2. r = r2 /\ Imm6(h) = Imm6(g)
    BY <1>7, <2>1, SameI, SameShort
  <2> QED
    BY <1>1, <1>6, <2>2, FlippedImmediates
<1>19. CASE q = 2 /\ f = 2
  <2>1. w = buildI(3, 2, r, 2, ImmLwsp(h)) /\ w = buildI(3, 2, r2, 2, ImmLwsp(g))
    BY <1>1, <1>3, <1>4, <1>5, <1>19, DecompressCases DEF Lwsp
  <2>2. /\ Expands(w, Instr("lw", r, 2, 0, ToInt(ImmLwsp(h))))
        /\ Expands(w, Instr("lw", r2, 2, 0, ToInt(ImmLwsp(g))))
    BY <1>7, <1>8, <2>1, ExpandedI
  <2>3. r = r2 /\ ImmLwsp(h) = ImmLwsp(g)
    BY <1>8, <2>2, SameOperands DEF Extended
  <2> QED
    BY <1>1, <1>6, <2>3, FlippedImmediates
<1>20. CASE q = 2 /\ f = 4
  <2>1. w = JumpMoveAdd(h) /\ w = JumpMoveAdd(g)
    BY <1>1, <1>3, <1>20, DecompressCases
  <2> QED
    BY <1>1, <1>3, <1>20, <2>1, JumpMoveAddInjective
<1>21. CASE q = 2 /\ f = 6
  <2>1. w = buildS(35, 2, 2, b, ImmSwsp(h)) /\ w = buildS(35, 2, 2, b2, ImmSwsp(g))
    BY <1>1, <1>3, <1>4, <1>5, <1>21, DecompressCases
  <2>2. /\ Expands(w, Instr("sw", 0, 2, b, ToInt(ImmSwsp(h))))
        /\ Expands(w, Instr("sw", 0, 2, b2, ToInt(ImmSwsp(g))))
    BY <1>7, <1>8, <2>1, ExpandedSB
  <2>3. b = b2 /\ ImmSwsp(h) = ImmSwsp(g)
    BY <1>8, <2>2, SameOperands DEF Extended
  <2> QED
    BY <1>1, <1>6, <2>3, FlippedImmediates
<1>22. \/ q = 0 /\ f \in {0, 2, 6}
       \/ q = 1 /\ f \in {0, 1, 2, 3, 4, 5, 6, 7}
       \/ q = 2 /\ f \in {0, 2, 4, 6}
  BY <1>1, <1>3, DecompressCases
<1> QED
  BY <1>9, <1>10, <1>11, <1>12, <1>13, <1>14, <1>15, <1>16, <1>17, <1>18, <1>19, <1>20, <1>21, <1>22

(* The decompressor loses nothing of a halfword: whatever is fetched and not *)
(* refused, no halfword that differs from it in one bit is expanded to the  *)
(* same word, but for bit 12 of the register forms of quadrant 1.  A field  *)
(* of CType.cpp one bit too short, one written over by its neighbour, or    *)
(* two encodings taken for the same instruction would break it.             *)
THEOREM EveryBitReachesTheWord == Spec => []NoBitIsIgnored
<1>1. ASSUME NEW h, NEW k \in 0..15, decompress(h) # Illegal, decompress(Flip(h, k)) = decompress(h)
      PROVE  k = 12 /\ Reserved(h)
  <2>1. PICK g, w : g = Flip(h, k) /\ w = decompress(h) /\ w = decompress(g) /\ w # Illegal
    BY <1>1
  <2>2. CASE k \in {0, 1, 13, 14, 15}
    <3>1. Neighbours(Field(h, 0, 1), Field(h, 13, 15), Field(g, 0, 1), Field(g, 13, 15))
      BY <2>1, <2>2, NeighbouringCases
    <3>2. /\ Role(Field(h, 0, 1), Field(h, 13, 15), Decode(w))
          /\ Role(Field(g, 0, 1), Field(g, 13, 15), Decode(w))
      BY <2>1, Roles
    <3> QED
      BY <3>1, <3>2, RolesApart
  <2>3. CASE k \in 2..12
    BY <1>1, <2>3, QuadrantsInjective
  <2> QED
    BY <2>2, <2>3
<1>2. WordOfHalfword => NoBitIsIgnored
  BY <1>1 DEF WordOfHalfword, FromHalfword, NoBitIsIgnored
<1> QED
  BY <1>2, SpecHalfword, PTL
=============================================================================
