------------------------ MODULE VirtualMemoryProofs ------------------------
(***************************************************************************)
(* Theorems about VirtualMemory, for every page size, memory image and      *)
(* program.                                                                 *)
(***************************************************************************)
EXTENDS VirtualMemory, TLAPS

\* What the type invariant says of the state that the walk reads.
SatpOK == satp \in [on : BOOLEAN, root : Page]

-----------------------------------------------------------------------------
(* Addresses and translations *)

LEMMA AddressParts ==
  ASSUME NEW a \in Address
  PROVE  a[1] \in Offset /\ a[2] \in Offset /\ a[3] \in Offset /\ a = <<a[1], a[2], a[3]>>
BY DEF Address

LEMMA PageParts ==
  ASSUME NEW p \in Page
  PROVE  p[1] \in Offset /\ p[2] \in Offset /\ p = <<p[1], p[2]>>
BY DEF Page

LEMMA MakeAddress ==
  ASSUME NEW i \in Offset, NEW j \in Offset, NEW k \in Offset
  PROVE  /\ <<i, j, k>> \in Address /\ Frame(<<i, j, k>>) = <<i, j>>
         /\ <<i, j, k>>[1] = i /\ <<i, j, k>>[2] = j /\ <<i, j, k>>[3] = k
BY DEF Address, Frame

LEMMA ZeroOffset == 0 \in Offset
BY NAssumption DEF Offset

\* The address after an address is an address; within a page it has the same frame.
LEMMA SuccAddress ==
  ASSUME NEW a \in Address
  PROVE  /\ Succ(a) \in Address
         /\ InPage(a, 2) => Succ(a) = <<a[1], a[2], a[3] + 1>> /\ a[3] + 1 \in Offset
<1>1. a[1] \in Offset /\ a[2] \in Offset /\ a[3] \in Offset
  BY AddressParts
<1>2. ASSUME NEW i \in Offset, i < N - 1 PROVE i + 1 \in Offset
  BY <1>2, NAssumption DEF Offset
<1>3. InPage(a, 2) => a[3] < N - 1
  BY <1>1, NAssumption DEF InPage, Offset
<1>4. a[3] < N - 1 => Succ(a) = <<a[1], a[2], a[3] + 1>>
  BY <1>1, NAssumption DEF Succ, Offset
<1>5. Succ(a) \in Address
  <2>1. CASE a[3] < N - 1
    BY <1>1, <1>2, <1>4, <2>1, MakeAddress
  <2>2. CASE a[3] = N - 1 /\ a[2] < N - 1
    BY <1>1, <1>2, <2>2, ZeroOffset, MakeAddress, NAssumption DEF Succ, Offset
  <2>3. CASE a[3] = N - 1 /\ a[2] = N - 1 /\ a[1] < N - 1
    <3>1. Succ(a) = <<a[1] + 1, 0, 0>>
      BY <2>3, <1>1, NAssumption DEF Succ, Offset
    <3> QED
      BY <1>1, <1>2, <2>3, <3>1, ZeroOffset, MakeAddress
  <2>4. CASE a[3] = N - 1 /\ a[2] = N - 1 /\ ~(a[1] < N - 1)
    <3>1. Succ(a) = <<0, 0, 0>>
      BY <2>4, <1>1, NAssumption DEF Succ, Offset
    <3> QED
      BY <3>1, ZeroOffset, MakeAddress
  <2> QED
    BY <1>1, <2>1, <2>2, <2>3, <2>4, NAssumption DEF Offset
<1> QED
  BY <1>1, <1>2, <1>3, <1>4, <1>5

\* The entries that the walk of `va` reads.
Entry1(va) == <<satp.root[1], satp.root[2], va[1]>>
Entry0(m, va) == <<m[Entry1(va)].ppn[1], m[Entry1(va)].ppn[2], va[2]>>

LEMMA Entries ==
  ASSUME SatpOK, NEW m \in [Address -> Word], NEW va \in Address
  PROVE  /\ Entry1(va) \in Address /\ m[Entry1(va)] \in Word /\ m[Entry1(va)].ppn \in Page
         /\ Entry0(m, va) \in Address /\ m[Entry0(m, va)] \in Word /\ m[Entry0(m, va)].ppn \in Page
<1>1. satp.root \in Page
  BY DEF SatpOK
<1>2. satp.root[1] \in Offset /\ satp.root[2] \in Offset
  BY <1>1, PageParts
<1>3. va[1] \in Offset /\ va[2] \in Offset
  BY AddressParts
<1>4. Entry1(va) \in Address
  BY <1>2, <1>3, MakeAddress DEF Entry1
<1>5. \A w \in Word : w.ppn \in Page
  BY DEF Word
<1>6. m[Entry1(va)] \in Word /\ m[Entry1(va)].ppn \in Page
  BY <1>4, <1>5
<1>7. Entry0(m, va) \in Address
  BY <1>3, <1>6, PageParts, MakeAddress DEF Entry0
<1> QED
  BY <1>4, <1>5, <1>6, <1>7

\* The three ways to translate: not at all, by a superpage, by a page.
LEMMA TranslateCases ==
  ASSUME NEW m, NEW va, NEW type
  PROVE  \/ ~Translated /\ Translate(m, va, type) = va
         \/ /\ Translated /\ IsLeaf(m[Entry1(va)]) /\ m[Entry1(va)].ppn[2] = 0
            /\ "V" \in m[Entry1(va)].flags /\ Permits(m[Entry1(va)], type)
            /\ Translate(m, va, type) = <<m[Entry1(va)].ppn[1], va[2], va[3]>>
         \/ /\ Translated /\ ~IsLeaf(m[Entry1(va)]) /\ IsLeaf(m[Entry0(m, va)])
            /\ "V" \in m[Entry1(va)].flags
            /\ "V" \in m[Entry0(m, va)].flags /\ Permits(m[Entry0(m, va)], type)
            /\ Translate(m, va, type) =
                 <<m[Entry0(m, va)].ppn[1], m[Entry0(m, va)].ppn[2], va[3]>>
         \/ Translated /\ Translate(m, va, type) = NoAddress
BY DEF Translate, Entry1, Entry0

LEMMA TranslateAddress ==
  ASSUME SatpOK, NEW m \in [Address -> Word], NEW va \in Address, NEW type,
         Translate(m, va, type) # NoAddress
  PROVE  Translate(m, va, type) \in Address /\ Translate(m, va, type)[3] = va[3]
<1>1. va[1] \in Offset /\ va[2] \in Offset /\ va[3] \in Offset
  BY AddressParts
<1>2. /\ m[Entry1(va)].ppn[1] \in Offset
      /\ m[Entry0(m, va)].ppn[1] \in Offset /\ m[Entry0(m, va)].ppn[2] \in Offset
  BY Entries, PageParts
<1>3. CASE Translate(m, va, type) = va
  BY <1>3
<1>4. CASE Translate(m, va, type) = <<m[Entry1(va)].ppn[1], va[2], va[3]>>
  BY <1>1, <1>2, <1>4, MakeAddress
<1>5. CASE Translate(m, va, type) = <<m[Entry0(m, va)].ppn[1], m[Entry0(m, va)].ppn[2], va[3]>>
  BY <1>1, <1>2, <1>5, MakeAddress
<1> QED
  BY <1>3, <1>4, <1>5, TranslateCases

-----------------------------------------------------------------------------
(* Writes *)

\* A write of one cell either faults and leaves memory alone, or stores the cell where
\* the walk says.
CellWritten(m, va, cell, pa, r) ==
  \/ pa = NoAddress /\ r.mem = m /\ r.at = {} /\ r.fault = va
  \/ pa # NoAddress /\ r.mem = [m EXCEPT ![pa] = cell] /\ r.at = {<<va, pa>>}
       /\ r.fault = NoAddress

LEMMA WriteCellCases ==
  ASSUME NEW m, NEW va, NEW cell
  PROVE  CellWritten(m, va, cell, Translate(m, va, "store"), WriteCell(m, va, cell))
BY DEF WriteCell, CellWritten

\* A write of a word: at once in a page, else cell by cell up to the first fault.
WordWritten(m, va, w, pa, first, second, r) ==
  \/ InPage(va, 2) /\ pa = NoAddress /\ r.mem = m /\ r.at = {} /\ r.fault = va
  \/ /\ InPage(va, 2) /\ pa # NoAddress
     /\ r.mem = [m EXCEPT ![pa] = w[1], ![Succ(pa)] = w[2]]
     /\ r.at = {<<va, pa>>, <<Succ(va), Succ(pa)>>} /\ r.fault = NoAddress
  \/ ~InPage(va, 2) /\ r = first
  \/ ~InPage(va, 2) /\ r.mem = second.mem /\ r.fault = second.fault
       /\ r.at = second.at \cup first.at

FirstHalf(m, va, w) == WriteCell(m, va, w[1])
SecondHalf(m, va, w) == WriteCell(FirstHalf(m, va, w).mem, Succ(va), w[2])

LEMMA WriteWordCases ==
  ASSUME NEW m, NEW va, NEW w
  PROVE  WordWritten(m, va, w, Translate(m, va, "store"), FirstHalf(m, va, w),
                     SecondHalf(m, va, w), WriteWord(m, va, w))
<1> DEFINE first  == FirstHalf(m, va, w)
           second == SecondHalf(m, va, w)
<1>1. CASE InPage(va, 2)
  BY <1>1 DEF WriteWord, WordWritten
<1>2. CASE ~InPage(va, 2) /\ first.fault # NoAddress
  BY <1>2 DEF WriteWord, WordWritten, FirstHalf
<1>3. CASE ~InPage(va, 2) /\ ~(first.fault # NoAddress)
  <2>1. WriteWord(m, va, w) = [second EXCEPT !.at = @ \cup first.at]
    BY <1>3 DEF WriteWord, FirstHalf, SecondHalf
  <2>2. second = [mem |-> second.mem, at |-> second.at, fault |-> second.fault]
    BY DEF WriteCell, SecondHalf
  <2>3. [second EXCEPT !.at = @ \cup first.at] =
          [mem |-> second.mem, at |-> second.at \cup first.at, fault |-> second.fault]
    BY <2>2
  <2> QED
    BY <1>3, <2>1, <2>3 DEF WordWritten
<1> QED
  BY <1>1, <1>2, <1>3

\* Memory keeps its type.
LEMMA WriteCellType ==
  ASSUME NEW m \in [Address -> Word], NEW va, NEW cell \in Word
  PROVE  WriteCell(m, va, cell).mem \in [Address -> Word]
<1>1. \A a : [m EXCEPT ![a] = cell] \in [Address -> Word]
  OBVIOUS
<1>2. PICK pa : pa = Translate(m, va, "store")
  OBVIOUS
<1>3. PICK r : r = WriteCell(m, va, cell)
  OBVIOUS
<1>4. CellWritten(m, va, cell, pa, r)
  BY <1>2, <1>3, WriteCellCases
<1>5. r.mem \in [Address -> Word]
  BY <1>1, <1>4 DEF CellWritten
<1> QED
  BY <1>3, <1>5

LEMMA WriteType ==
  ASSUME NEW m \in [Address -> Word], NEW va, NEW n \in {1, 2}, NEW w \in Word \X Word
  PROVE  Write(m, va, n, w).mem \in [Address -> Word]
         /\ WriteWord(m, va, w).mem \in [Address -> Word]
<1>1. w[1] \in Word /\ w[2] \in Word
  OBVIOUS
<1>2. FirstHalf(m, va, w).mem \in [Address -> Word]
  BY <1>1, WriteCellType DEF FirstHalf
<1>3. SecondHalf(m, va, w).mem \in [Address -> Word]
  BY <1>1, <1>2, WriteCellType DEF SecondHalf
<1>4. ASSUME NEW a, NEW b PROVE [m EXCEPT ![a] = w[1], ![b] = w[2]] \in [Address -> Word]
  <2>1. [m EXCEPT ![a] = w[1]] \in [Address -> Word]
    BY <1>1
  <2> QED
    BY <1>1, <2>1
<1>5. WriteWord(m, va, w).mem \in [Address -> Word]
  <2>1. PICK pa : pa = Translate(m, va, "store")
    OBVIOUS
  <2>2. PICK r : r = WriteWord(m, va, w)
    OBVIOUS
  <2>3. WordWritten(m, va, w, pa, FirstHalf(m, va, w), SecondHalf(m, va, w), r)
    BY <2>1, <2>2, WriteWordCases
  <2>4. r.mem \in [Address -> Word]
    BY <1>2, <1>3, <1>4, <2>3 DEF WordWritten
  <2> QED
    BY <2>2, <2>4
<1> QED
  BY <1>2, <1>5 DEF Write, FirstHalf

-----------------------------------------------------------------------------
(* Type correctness *)

LEMMA TopSpan ==
  ASSUME NEW a \in Address, NEW n
  PROVE  Span(a, n) \subseteq Address
BY SuccAddress DEF Span

LEMMA TrapTypes ==
  ASSUME TypeOK, TakeTrap
  PROVE  mode' \in {U, S, M} /\ SatpOK' /\ sum' \in BOOLEAN /\ fate' \in Fate
         /\ res' \in [valid : BOOLEAN, addr : Address]
BY DEF TypeOK, TakeTrap, Recorded, Fate, Cancelled, SatpOK

LEMMA WrittenTypes ==
  ASSUME TypeOK, NEW r \in [valid : BOOLEAN, addr : Address], NEW va, NEW by, NEW w,
         w.mem \in [Address -> Word], Written(r, va, by, w)
  PROVE  TypeOK'
<1>1. FateAfter(va, by, w.at) \in Fate
  BY DEF FateAfter, Fate, TypeOK
<1>2. CASE w.fault # NoAddress /\ TakeTrap
  BY <1>2, TrapTypes DEF Written, TypeOK, SatpOK
<1>3. CASE res' = r /\ Recorded(FateAfter(va, by, w.at)) /\ UNCHANGED <<mode, satp, sum>>
  BY <1>1, <1>3 DEF Written, TypeOK, Recorded, Fate
<1> QED
  BY <1>2, <1>3 DEF Written

LEMMA NotifyType ==
  ASSUME TypeOK, NEW va, NEW n
  PROVE  /\ AfterNotify(va, n) \in [valid : BOOLEAN, addr : Address]
         /\ Cancelled \in [valid : BOOLEAN, addr : Address]
BY DEF TypeOK, AfterNotify, Cancelled

LEMMA InitType == Init => TypeOK
<1>1. <<0, 0, 0>> \in Address
  BY ZeroOffset, MakeAddress
<1> QED
  <2> SUFFICES ASSUME Init PROVE TypeOK
    OBVIOUS
  <2>1. mem \in [Address -> Word]
    BY ImageAssumption DEF Init
  <2>2. satp \in [on : BOOLEAN, root : Page]
    BY RootAssumption DEF Init
  <2>3. res \in [valid : BOOLEAN, addr : Address]
    BY <1>1 DEF Init
  <2> QED
    BY <2>1, <2>2, <2>3 DEF Init, TypeOK, Fate

LEMMA NextType == TypeOK /\ [Next]_vars => TypeOK'
<1> SUFFICES ASSUME TypeOK, [Next]_vars
             PROVE  TypeOK'
  OBVIOUS
<1>s. SatpOK
  BY DEF TypeOK, SatpOK
<1>m. mem \in [Address -> Word]
  BY DEF TypeOK
<1>d. \A w \in Data : w \in Word \X Word /\ w[1] \in Word
  BY DataAssumption
<1>1. CASE Trap
  BY <1>1, TrapTypes DEF Trap, TypeOK, SatpOK
<1>2. CASE Return
  BY <1>2 DEF Return, TypeOK
<1>3. ASSUME NEW va \in Address, NEW n \in {1, 2}, Load(va, n) PROVE TypeOK'
  BY <1>3, TrapTypes DEF Load, TypeOK, SatpOK
<1>4. ASSUME NEW va \in Address, Fetch(va) PROVE TypeOK'
  BY <1>4, TrapTypes DEF Fetch, TypeOK, SatpOK
<1>5. ASSUME NEW va \in Address, NEW n \in {1, 2}, NEW w \in Data, Store(va, n, w)
      PROVE  TypeOK'
  <2>1. Write(mem, va, n, w).mem \in [Address -> Word]
    BY <1>m, <1>d, WriteType
  <2>2. Written(AfterNotify(va, n), va, "cpu", Write(mem, va, n, w))
    BY <1>5 DEF Store
  <2> QED
    BY <2>1, <2>2, NotifyType, WrittenTypes
<1>6. ASSUME NEW va \in Address, Lr(va) PROVE TypeOK'
  <2>1. CASE TakeTrap
    BY <1>6, <2>1, TrapTypes DEF Lr, TypeOK, SatpOK
  <2>2. CASE /\ ReadFault(mem, va, 2, "load") = NoAddress
             /\ res' = [valid |-> TRUE, addr |-> Translate(mem, va, "load")]
             /\ fate' = "untouched"
             /\ UNCHANGED <<mode, satp, sum>>
    <3>1. va # NoAddress
      BY AddressParts, MakeAddress DEF NoAddress, Address
    <3>2. Translate(mem, va, "load") # NoAddress
      BY <2>2, <3>1 DEF ReadFault
    <3>3. Translate(mem, va, "load") \in Address
      BY <1>s, <1>m, <3>2, TranslateAddress
    <3> QED
      BY <1>6, <2>2, <3>3 DEF Lr, TypeOK, Fate
  <2> QED
    BY <1>6, <2>1, <2>2 DEF Lr
<1>7. ASSUME NEW va \in Address, NEW w \in Data, Sc(va, w) PROVE TypeOK'
  <2>1. CASE TakeTrap /\ UNCHANGED mem
    BY <2>1, TrapTypes DEF TypeOK, SatpOK
  <2>2. CASE Written(Cancelled, va, "cpu", WriteWord(mem, va, w))
    <3>1. WriteWord(mem, va, w).mem \in [Address -> Word]
      BY <1>m, <1>d, WriteType
    <3> QED
      BY <2>2, <3>1, NotifyType, WrittenTypes
  <2>3. CASE res' = Cancelled /\ Recorded(fate) /\ UNCHANGED <<mode, satp, sum, mem>>
    BY <2>3 DEF TypeOK, Cancelled, Recorded, Fate
  <2> QED
    BY <1>7, <2>1, <2>2, <2>3 DEF Sc
<1>8. ASSUME NEW va \in Address, NEW w \in Data, Amo(va, w) PROVE TypeOK'
  <2>1. CASE TakeTrap /\ UNCHANGED mem
    BY <2>1, TrapTypes DEF TypeOK, SatpOK
  <2>2. CASE Written(AfterNotify(va, 2), va, "cpu", WriteWord(mem, va, w))
    <3>1. WriteWord(mem, va, w).mem \in [Address -> Word]
      BY <1>m, <1>d, WriteType
    <3> QED
      BY <2>2, <3>1, NotifyType, WrittenTypes
  <2> QED
    BY <1>8, <2>1, <2>2 DEF Amo
<1>9. ASSUME NEW va \in Address, NEW w \in Data, SysRead(va, w) PROVE TypeOK'
  <2>1. WriteCell(mem, va, w[1]).mem \in [Address -> Word]
    BY <1>m, <1>d, WriteCellType
  <2>2. res \in [valid : BOOLEAN, addr : Address]
    BY DEF TypeOK
  <2> QED
    BY <1>9, <2>1, <2>2, WrittenTypes DEF SysRead
<1>10. ASSUME NEW on \in BOOLEAN, NEW root \in Root, SetSatp(on, root) PROVE TypeOK'
  BY <1>10, RootAssumption DEF SetSatp, TypeOK
<1>11. ASSUME NEW b \in BOOLEAN, SetSum(b) PROVE TypeOK'
  BY <1>11 DEF SetSum, TypeOK
<1>12. CASE UNCHANGED vars
  BY <1>12 DEF vars, TypeOK
<1> QED
  BY <1>1, <1>2, <1>3, <1>4, <1>5, <1>6, <1>7, <1>8, <1>9, <1>10, <1>11, <1>12 DEF Next

\* Modes, translation registers, memory and the reservation keep their types: no walk
\* leads out of memory and no reservation is made at an address that faulted.
THEOREM TypeCorrect == Spec => []TypeOK
<1> QED
  BY InitType, NextType, PTL DEF Spec

-----------------------------------------------------------------------------
(* The reservation *)

\* A trap leaves no reservation.
LEMMA TrapHonest ==
  ASSUME TypeOK, TakeTrap
  PROVE  ReservationIsHonest'
<1>1. res'.valid = FALSE
  BY DEF TakeTrap, Cancelled, TypeOK
<1> QED
  BY <1>1 DEF ReservationIsHonest

\* An instruction that has given up the reservation, and one that has notified a range
\* in which its written cells lie, keep the history of a held reservation good.
LEMMA CancelledHonest ==
  ASSUME TypeOK, NEW va, NEW by, NEW w, Written(Cancelled, va, by, w)
  PROVE  ReservationIsHonest'
<1>1. CASE w.fault # NoAddress /\ TakeTrap
  BY <1>1, TrapHonest
<1>2. CASE res' = Cancelled
  <2>1. res'.valid = FALSE
    BY <1>2 DEF Cancelled, TypeOK
  <2> QED
    BY <2>1 DEF ReservationIsHonest
<1> QED
  BY <1>1, <1>2 DEF Written

LEMMA NotifiedHonest ==
  ASSUME TypeOK, ReservationIsHonest, NEW va, NEW n, NEW w,
         \A p \in w.at : p[1] \in Span(va, 2) => p[1] \in Span(va, n),
         Written(AfterNotify(va, n), va, "cpu", w)
  PROVE  ReservationIsHonest'
<1>1. CASE w.fault # NoAddress /\ TakeTrap
  BY <1>1, TrapHonest
<1>2. CASE res' = AfterNotify(va, n) /\ Recorded(FateAfter(va, "cpu", w.at))
  <2>1. CASE Span(va, n) \cap Span(res.addr, 2) # {}
    <3>1. res'.valid = FALSE
      BY <1>2, <2>1 DEF AfterNotify, TypeOK
    <3> QED
      BY <3>1 DEF ReservationIsHonest
  <2>2. CASE Span(va, n) \cap Span(res.addr, 2) = {}
    <3>1. res' = res
      BY <1>2, <2>2 DEF AfterNotify
    <3>2. ~ \E p \in w.at : p[2] \in Span(res.addr, 2) /\ p[1] = p[2] /\ p[1] \in Span(va, 2)
      BY <2>2
    <3>3. FateAfter(va, "cpu", w.at) \in {fate, "wrapped", "aliased"}
      <4> DEFINE hit == {p \in w.at : p[2] \in Span(res.addr, 2)}
      <4>1. ~ \E p \in hit : p[1] = p[2] /\ p[1] \in Span(va, 2)
        BY <3>2
      <4> QED
        BY <4>1, Zenon DEF FateAfter
    <3> QED
      BY <1>2, <3>1, <3>3 DEF ReservationIsHonest, Recorded
  <2> QED
    BY <2>1, <2>2
<1> QED
  BY <1>1, <1>2 DEF Written

LEMMA WriteReported ==
  ASSUME NEW va, NEW n \in {1, 2}, NEW w
  PROVE  \A p \in Write(mem, va, n, w).at : p[1] \in Span(va, 2) => p[1] \in Span(va, n)
<1>1. CASE n = 2
  BY <1>1
<1>2. CASE n = 1
  <2>1. PICK pa : pa = Translate(mem, va, "store")
    OBVIOUS
  <2>2. PICK r : r = WriteCell(mem, va, w[1])
    OBVIOUS
  <2>3. CellWritten(mem, va, w[1], pa, r)
    BY <2>1, <2>2, WriteCellCases
  <2>4. \A p \in r.at : p[1] = va
    BY <2>3 DEF CellWritten
  <2>5. Write(mem, va, n, w) = r
    BY <1>2, <2>2 DEF Write
  <2> QED
    BY <2>4, <2>5 DEF Span
<1> QED
  BY <1>1, <1>2

LEMMA NextHonest == TypeOK /\ ReservationIsHonest /\ [Next]_vars => ReservationIsHonest'
<1> SUFFICES ASSUME TypeOK, ReservationIsHonest, [Next]_vars
             PROVE  ReservationIsHonest'
  OBVIOUS
<1>1. CASE Trap
  BY <1>1, TrapHonest DEF Trap
<1>2. CASE Return
  BY <1>2 DEF Return, ReservationIsHonest
<1>3. ASSUME NEW va \in Address, NEW n \in {1, 2}, Load(va, n) PROVE ReservationIsHonest'
  BY <1>3, TrapHonest DEF Load
<1>4. ASSUME NEW va \in Address, Fetch(va) PROVE ReservationIsHonest'
  BY <1>4, TrapHonest DEF Fetch
<1>5. ASSUME NEW va \in Address, NEW n \in {1, 2}, NEW w \in Data, Store(va, n, w)
      PROVE  ReservationIsHonest'
  BY <1>5, WriteReported, NotifiedHonest DEF Store
<1>6. ASSUME NEW va \in Address, Lr(va) PROVE ReservationIsHonest'
  <2>1. CASE TakeTrap
    BY <2>1, TrapHonest
  <2>2. CASE fate' = "untouched"
    BY <2>2 DEF ReservationIsHonest
  <2> QED
    BY <1>6, <2>1, <2>2 DEF Lr
<1>7. ASSUME NEW va \in Address, NEW w \in Data, Sc(va, w) PROVE ReservationIsHonest'
  <2>1. CASE TakeTrap
    BY <2>1, TrapHonest
  <2>2. CASE Written(Cancelled, va, "cpu", WriteWord(mem, va, w))
    BY <2>2, CancelledHonest
  <2>3. CASE res' = Cancelled /\ Recorded(fate)
    <3>1. res'.valid = FALSE
      BY <2>3 DEF Cancelled, TypeOK
    <3> QED
      BY <3>1 DEF ReservationIsHonest
  <2> QED
    BY <1>7, <2>1, <2>2, <2>3 DEF Sc
<1>8. ASSUME NEW va \in Address, NEW w \in Data, Amo(va, w) PROVE ReservationIsHonest'
  <2>1. CASE TakeTrap
    BY <2>1, TrapHonest
  <2>2. CASE Written(AfterNotify(va, 2), va, "cpu", WriteWord(mem, va, w))
    BY <2>2, NotifiedHonest
  <2> QED
    BY <1>8, <2>1, <2>2 DEF Amo
<1>9. ASSUME NEW va \in Address, NEW w \in Data, SysRead(va, w) PROVE ReservationIsHonest'
  <2> DEFINE c == WriteCell(mem, va, w[1])
  <2>1. FateAfter(va, "host", c.at) \in {fate, "host"}
    BY Zenon DEF FateAfter
  <2>2. CASE c.fault # NoAddress /\ TakeTrap
    BY <2>2, TrapHonest
  <2>3. CASE res' = res /\ Recorded(FateAfter(va, "host", c.at))
    BY <2>1, <2>3 DEF ReservationIsHonest, Recorded
  <2> QED
    BY <1>9, <2>2, <2>3 DEF SysRead, Written
<1>10. ASSUME NEW on \in BOOLEAN, NEW root \in Root, SetSatp(on, root)
       PROVE  ReservationIsHonest'
  BY <1>10 DEF SetSatp, ReservationIsHonest
<1>11. ASSUME NEW b \in BOOLEAN, SetSum(b) PROVE ReservationIsHonest'
  BY <1>11 DEF SetSum, ReservationIsHonest
<1>12. CASE UNCHANGED vars
  BY <1>12 DEF vars, ReservationIsHonest
<1> QED
  BY <1>1, <1>2, <1>3, <1>4, <1>5, <1>6, <1>7, <1>8, <1>9, <1>10, <1>11, <1>12 DEF Next

\* SC accepts a reservation only if no trap was taken since the LR and no instruction
\* stored to the reserved word by its own address, whatever the sizes and offsets.
THEOREM ReservationsAreHonest == Spec => []ReservationIsHonest
<1>1. Init => ReservationIsHonest
  BY DEF Init, ReservationIsHonest
<1> QED
  BY <1>1, NextHonest, TypeCorrect, PTL DEF Spec

-----------------------------------------------------------------------------
(* User mode *)

\* Every cell that differs lies in a page that the tables of `m` let U-mode write.
Confined(m, m2) == \A c \in Address : m2[c] # m[c] => Frame(c) \in UserWritable(m)

UserPte(pte) == {"V", "R", "W", "U", "A", "D"} \subseteq pte.flags

LEMMA UserWritableIntro ==
  ASSUME NEW m
  PROVE  /\ \A c \in LeafTables(m) : UserPte(m[c]) => m[c].ppn \in UserWritable(m)
         /\ \A c \in RootTable, j \in Offset :
              UserPte(m[c]) /\ m[c].ppn[2] = 0 => <<m[c].ppn[1], j>> \in UserWritable(m)
BY DEF UserWritable, UserPte

\* The walk gives a U-mode store a page that the tables let U-mode write.
LEMMA UserStoreTarget ==
  ASSUME SatpOK, mode = U, satp.on, NEW m \in [Address -> Word], NEW va \in Address,
         Translate(m, va, "store") # NoAddress
  PROVE  Frame(Translate(m, va, "store")) \in UserWritable(m)
<1> DEFINE e1 == Entry1(va)
           e0 == Entry0(m, va)
<1>1. va[1] \in Offset /\ va[2] \in Offset
  BY AddressParts
<1>2. Translated
  BY DEF Translated, U, M
<1>3. \A pte : "V" \in pte.flags /\ Permits(pte, "store") => UserPte(pte)
  BY DEF Permits, UserPte
<1>4. e1 \in RootTable
  BY <1>1 DEF RootTable, Entry1
<1>5. CASE /\ "V" \in m[e1].flags /\ Permits(m[e1], "store") /\ m[e1].ppn[2] = 0
           /\ Translate(m, va, "store") = <<m[e1].ppn[1], va[2], va[3]>>
  <2>1. <<m[e1].ppn[1], va[2]>> \in UserWritable(m)
    BY <1>1, <1>3, <1>4, <1>5, UserWritableIntro
  <2> QED
    BY <1>5, <2>1 DEF Frame
<1>6. CASE /\ ~IsLeaf(m[e1]) /\ "V" \in m[e1].flags /\ "V" \in m[e0].flags
           /\ Permits(m[e0], "store")
           /\ Translate(m, va, "store") = <<m[e0].ppn[1], m[e0].ppn[2], va[3]>>
  <2>1. e1 \in Pointers(m)
    BY <1>4, <1>6 DEF Pointers
  <2>2. e0 \in LeafTables(m)
    BY <1>1, <2>1 DEF LeafTables, Entry0
  <2>3. m[e0].ppn \in UserWritable(m)
    BY <1>3, <1>6, <2>2, UserWritableIntro
  <2>4. m[e0].ppn = <<m[e0].ppn[1], m[e0].ppn[2]>>
    BY Entries, PageParts
  <2> QED
    BY <1>6, <2>3, <2>4 DEF Frame
<1> QED
  BY <1>2, <1>5, <1>6, TranslateCases

\* The tables decide what is writable: memories that agree on them agree on that.
LEMMA TablesDecide ==
  ASSUME NEW m, NEW m2, \A c \in Tables(m) : m2[c] = m[c]
  PROVE  /\ Tables(m2) = Tables(m)
         /\ UserWritable(m2) = UserWritable(m)
         /\ Sealed(m) => Sealed(m2)
<1>1. \A c \in RootTable : m2[c] = m[c]
  BY DEF Tables
<1>2. Pointers(m2) = Pointers(m)
  BY <1>1 DEF Pointers
<1>3. \A c \in Pointers(m) : m2[c] = m[c]
  BY <1>1 DEF Pointers
<1>4. LeafTables(m2) = LeafTables(m)
  BY <1>2, <1>3 DEF LeafTables
<1>5. \A c \in LeafTables(m) : m2[c] = m[c]
  BY DEF Tables
<1>6. Tables(m2) = Tables(m)
  BY <1>4 DEF Tables
<1>7. UserWritable(m2) = UserWritable(m)
  <2>1. {d \in LeafTables(m2) : UserPte(m2[d])} = {d \in LeafTables(m) : UserPte(m[d])}
    BY <1>4, <1>5
  <2>2. {d \in RootTable : UserPte(m2[d]) /\ m2[d].ppn[2] = 0} =
          {d \in RootTable : UserPte(m[d]) /\ m[d].ppn[2] = 0}
    BY <1>1
  <2> DEFINE leaves == {d \in LeafTables(m) : UserPte(m[d])}
             roots  == {d \in RootTable : UserPte(m[d]) /\ m[d].ppn[2] = 0}
  <2>3. \A x : x \in UserWritable(m) <=>
          \/ \E c \in leaves : x = m[c].ppn
          \/ \E c \in roots, j \in Offset : x = <<m[c].ppn[1], j>>
    BY DEF UserWritable, UserPte
  <2>4. \A x : x \in UserWritable(m2) <=>
          \/ \E c \in leaves : x = m2[c].ppn
          \/ \E c \in roots, j \in Offset : x = <<m2[c].ppn[1], j>>
    BY <2>1, <2>2 DEF UserWritable, UserPte
  <2>5. \A c \in leaves \cup roots : m2[c] = m[c]
    BY <1>1, <1>5
  <2> HIDE DEF leaves, roots
  <2>6. \A x : x \in UserWritable(m2) <=> x \in UserWritable(m)
    BY <2>3, <2>4, <2>5
  <2> QED
    BY <2>3, <2>4, <2>6 DEF UserWritable
<1> QED
  BY <1>6, <1>7 DEF Sealed

LEMMA TablesInMemory ==
  ASSUME SatpOK, NEW m \in [Address -> Word]
  PROVE  Tables(m) \subseteq Address
<1>1. RootTable \subseteq Address
  <2>1. satp.root[1] \in Offset /\ satp.root[2] \in Offset
    BY PageParts DEF SatpOK
  <2> QED
    BY <2>1, MakeAddress DEF RootTable
<1>2. \A c \in Pointers(m) : m[c].ppn[1] \in Offset /\ m[c].ppn[2] \in Offset
  <2>1. \A c \in Pointers(m) : m[c] \in Word
    BY <1>1 DEF Pointers
  <2> QED
    BY <2>1, PageParts DEF Word
<1>3. LeafTables(m) \subseteq Address
  BY <1>2, MakeAddress DEF LeafTables
<1> QED
  BY <1>1, <1>3 DEF Tables

\* Confinement keeps sealed tables as they are.
LEMMA ConfinedKeepsTables ==
  ASSUME SatpOK, NEW m \in [Address -> Word], NEW m2, Sealed(m), Confined(m, m2)
  PROVE  Sealed(m2) /\ UserWritable(m2) = UserWritable(m)
<1>1. \A c \in Tables(m) : m2[c] = m[c]
  BY TablesInMemory DEF Sealed, Confined
<1> QED
  BY <1>1, TablesDecide

\* One cell, then a word, written in U-mode.
LEMMA UserCellConfined ==
  ASSUME SatpOK, mode = U, satp.on, NEW m \in [Address -> Word], NEW va \in Address, NEW cell
  PROVE  Confined(m, WriteCell(m, va, cell).mem)
<1>1. PICK pa : pa = Translate(m, va, "store")
  OBVIOUS
<1>2. PICK r : r = WriteCell(m, va, cell)
  OBVIOUS
<1>3. CellWritten(m, va, cell, pa, r)
  BY <1>1, <1>2, WriteCellCases
<1>4. pa # NoAddress => Frame(pa) \in UserWritable(m)
  BY <1>1, UserStoreTarget
<1>5. Confined(m, r.mem)
  BY <1>3, <1>4 DEF CellWritten, Confined
<1> QED
  BY <1>2, <1>5

LEMMA UserWordConfined ==
  ASSUME SatpOK, mode = U, satp.on, NEW m \in [Address -> Word], Sealed(m),
         NEW va \in Address, NEW w \in Word \X Word
  PROVE  Confined(m, WriteWord(m, va, w).mem)
<1>1. PICK pa : pa = Translate(m, va, "store")
  OBVIOUS
<1>2. PICK r : r = WriteWord(m, va, w)
  OBVIOUS
<1>3. PICK m1 : m1 = FirstHalf(m, va, w).mem
  OBVIOUS
<1>4. PICK m2 : m2 = SecondHalf(m, va, w).mem
  OBVIOUS
<1>5. w[1] \in Word /\ w[2] \in Word
  OBVIOUS
<1>6. m1 \in [Address -> Word]
  BY <1>3, <1>5, WriteCellType DEF FirstHalf
<1>7. Confined(m, m1)
  BY <1>3, UserCellConfined DEF FirstHalf
<1>8. UserWritable(m1) = UserWritable(m)
  BY <1>7, ConfinedKeepsTables
<1>9. Confined(m1, m2)
  BY <1>3, <1>4, <1>6, UserCellConfined, SuccAddress DEF SecondHalf
<1>10. Confined(m, m2)
  BY <1>7, <1>8, <1>9 DEF Confined
<1>11. ASSUME InPage(va, 2), pa # NoAddress
       PROVE  Confined(m, [m EXCEPT ![pa] = w[1], ![Succ(pa)] = w[2]])
  <2>1. pa \in Address /\ pa[3] = va[3]
    BY <1>1, <1>11, TranslateAddress
  <2>2. Succ(pa) = <<pa[1], pa[2], pa[3] + 1>>
    BY <1>11, <2>1, SuccAddress DEF InPage
  <2>3. Frame(Succ(pa)) = Frame(pa)
    BY <2>2 DEF Frame
  <2>4. Frame(pa) \in UserWritable(m)
    BY <1>1, <1>11, UserStoreTarget
  <2> QED
    BY <2>3, <2>4 DEF Confined
<1>12. WordWritten(m, va, w, pa, FirstHalf(m, va, w), SecondHalf(m, va, w), r)
  BY <1>1, <1>2, WriteWordCases
<1>13. Confined(m, m)
  BY DEF Confined
<1>14. Confined(m, r.mem)
  BY <1>3, <1>4, <1>7, <1>10, <1>11, <1>12, <1>13 DEF WordWritten
<1> QED
  BY <1>2, <1>14

\* A step from U-mode keeps SATP and is confined.
LEMMA UserStepConfined ==
  ASSUME TypeOK, Next, mode = U, satp.on, Sealed(mem)
  PROVE  satp' = satp /\ Confined(mem, mem')
<1>s. SatpOK /\ mem \in [Address -> Word]
  BY DEF TypeOK, SatpOK
<1>d. \A w \in Data : w \in Word \X Word
  BY DataAssumption
<1>0. Confined(mem, mem)
  BY DEF Confined
<1>t. TakeTrap => satp' = satp
  BY DEF TakeTrap
<1>w. ASSUME NEW r, NEW va, NEW by, NEW w, Written(r, va, by, w)
      PROVE  satp' = satp /\ mem' = w.mem
  BY <1>t, <1>w DEF Written
<1>1. CASE Trap
  BY <1>0, <1>1, <1>t DEF Trap
<1>2. CASE Return
  BY <1>2 DEF Return
<1>3. ASSUME NEW va \in Address, NEW n \in {1, 2}, Load(va, n)
      PROVE  satp' = satp /\ Confined(mem, mem')
  BY <1>0, <1>3, <1>t DEF Load
<1>4. ASSUME NEW va \in Address, Fetch(va) PROVE satp' = satp /\ Confined(mem, mem')
  BY <1>0, <1>4, <1>t DEF Fetch
<1>5. ASSUME NEW va \in Address, NEW n \in {1, 2}, NEW w \in Data, Store(va, n, w)
      PROVE  satp' = satp /\ Confined(mem, mem')
  <2>1. satp' = satp /\ mem' = Write(mem, va, n, w).mem
    BY <1>5, <1>w DEF Store
  <2>2. Write(mem, va, n, w) \in {WriteCell(mem, va, w[1]), WriteWord(mem, va, w)}
    BY DEF Write
  <2> QED
    BY <1>s, <1>d, <2>1, <2>2, UserCellConfined, UserWordConfined
<1>6. ASSUME NEW va \in Address, Lr(va) PROVE satp' = satp /\ Confined(mem, mem')
  BY <1>0, <1>6, <1>t DEF Lr
<1>7. ASSUME NEW va \in Address, NEW w \in Data, Sc(va, w)
      PROVE  satp' = satp /\ Confined(mem, mem')
  <2>1. CASE Written(Cancelled, va, "cpu", WriteWord(mem, va, w))
    BY <1>s, <1>d, <1>w, <2>1, UserWordConfined
  <2>2. CASE satp' = satp /\ mem' = mem
    BY <1>0, <2>2
  <2> QED
    BY <1>7, <1>t, <2>1, <2>2 DEF Sc
<1>8. ASSUME NEW va \in Address, NEW w \in Data, Amo(va, w)
      PROVE  satp' = satp /\ Confined(mem, mem')
  <2>1. CASE Written(AfterNotify(va, 2), va, "cpu", WriteWord(mem, va, w))
    BY <1>s, <1>d, <1>w, <2>1, UserWordConfined
  <2>2. CASE satp' = satp /\ mem' = mem
    BY <1>0, <2>2
  <2> QED
    BY <1>8, <1>t, <2>1, <2>2 DEF Amo
<1>9. ASSUME NEW va \in Address, NEW w \in Data, SysRead(va, w)
      PROVE  satp' = satp /\ Confined(mem, mem')
  BY <1>s, <1>9, <1>w, UserCellConfined DEF SysRead
<1>10. ASSUME NEW on \in BOOLEAN, NEW root \in Root, SetSatp(on, root)
       PROVE  satp' = satp /\ Confined(mem, mem')
  BY <1>10 DEF SetSatp
<1>11. ASSUME NEW b \in BOOLEAN, SetSum(b) PROVE satp' = satp /\ Confined(mem, mem')
  BY <1>11 DEF SetSum
<1> QED
  BY <1>1, <1>2, <1>3, <1>4, <1>5, <1>6, <1>7, <1>8, <1>9, <1>10, <1>11 DEF Next

\* A U-mode program under sealed page tables writes only to the pages they give it, and
\* leaves them giving it the same pages: it never escapes, however many steps it takes.
THEOREM UserIsConfined == Spec => UserConfined
<1>1. ASSUME TypeOK, [Next]_vars, mode = U, satp.on, Sealed(mem)
      PROVE  /\ \A c \in Address : mem'[c] # mem[c] => Frame(c) \in UserWritable(mem)
             /\ Sealed(mem)' /\ UserWritable(mem)' = UserWritable(mem)
  <2>1. satp' = satp /\ Confined(mem, mem')
    <3>1. CASE Next
      BY <1>1, <3>1, UserStepConfined
    <3>2. CASE UNCHANGED vars
      BY <3>2 DEF vars, Confined
    <3> QED
      BY <1>1, <3>1, <3>2
  <2>2. SatpOK /\ mem \in [Address -> Word]
    BY <1>1 DEF TypeOK, SatpOK
  <2>3. PICK m2 : m2 = mem'
    OBVIOUS
  <2>4. Sealed(m2) /\ UserWritable(m2) = UserWritable(mem)
    BY <1>1, <2>1, <2>2, <2>3, ConfinedKeepsTables
  <2>5. RootTable' = RootTable
    BY <2>1 DEF RootTable
  <2>6. Pointers(mem)' = Pointers(m2)
    BY <2>3, <2>5 DEF Pointers
  <2>7. LeafTables(mem)' = LeafTables(m2)
    BY <2>3, <2>6 DEF LeafTables
  <2>8. Tables(mem)' = Tables(m2)
    BY <2>5, <2>7 DEF Tables
  <2>9. UserWritable(mem)' = UserWritable(m2)
    BY <2>3, <2>5, <2>7 DEF UserWritable
  <2>10. Sealed(mem)'
    BY <2>4, <2>8, <2>9 DEF Sealed
  <2> QED
    BY <2>1, <2>4, <2>9, <2>10 DEF Confined
<1>2. TypeOK /\ [Next]_vars =>
        [mode = U /\ satp.on /\ Sealed(mem) =>
           /\ \A c \in Address : mem'[c] # mem[c] => Frame(c) \in UserWritable(mem)
           /\ Sealed(mem)' /\ UserWritable(mem)' = UserWritable(mem)]_vars
  BY <1>1
<1> QED
  BY <1>2, TypeCorrect, PTL DEF Spec, UserConfined
=============================================================================
