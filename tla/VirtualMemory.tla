--------------------------- MODULE VirtualMemory ---------------------------
(***************************************************************************)
(* Memory as instructions see it: the Sv32 walk of Memory::                *)
(* translateAddress, the reads and writes of Memory.cpp, which translate a  *)
(* page-crossing access byte by byte, and the reservation of LR, SC and the *)
(* AMOs, which stores report to by virtual address and which remembers a    *)
(* physical one.                                                            *)
(*                                                                          *)
(* An address is <<hi, lo, off>>: for a virtual one VPN1, VPN0 and the page *)
(* offset, for a physical one the two halves of the frame number and the    *)
(* offset.  The two PPN bits above the 32-bit physical address, which       *)
(* ppn * PAGE_SIZE drops in uint32_t, are not modelled.  A page has N cells *)
(* and a table N entries; a page table entry fills one cell and a word two, *)
(* so that words can straddle pages.  Loaded values, MMIO and the choice of *)
(* the trap's target by medeleg (module Hart) are abstracted.               *)
(***************************************************************************)
EXTENDS Integers, FiniteSets

CONSTANTS
  N,         \* cells in a page (4096 bytes) and entries in a table (1024)
  Image,     \* memory contents when the program starts
  Data,      \* words that the program stores, as their two cells
  Root,      \* frames that the program uses as root tables
  Program    \* kinds of instructions that the program executes

Offset  == 0 .. N - 1
Page    == Offset \X Offset
Address == Offset \X Offset \X Offset
Flag    == {"V", "R", "W", "X", "U", "A", "D"}
Word    == [flags : SUBSET Flag, ppn : Page]
Kind    == {"load", "fetch", "store", "lr", "sc", "amo", "sysread", "satp", "sum"}

U == 0
S == 1
M == 3

ASSUME NAssumption == N \in Nat /\ N > 1
ASSUME ImageAssumption == Image # {} /\ Image \subseteq [Address -> Word]
ASSUME DataAssumption == Data \subseteq Word \X Word
ASSUME RootAssumption == Root \subseteq Page /\ Root # {}
ASSUME ProgramAssumption == Program \subseteq Kind

VARIABLES
  mode,   \* RiscvCpu::_privilegeMode
  satp,   \* Memory::_currentSatp: MODE and the root table's frame
  sum,    \* MSTATUS.SUM
  mem,    \* Memory::_pages
  res,    \* _reservationValid and _reservationAddress
  fate    \* history: what has happened to the reserved word since the LR

vars == <<mode, satp, sum, mem, res, fate>>

NoAddress == <<>>

-----------------------------------------------------------------------------
(* translateAddress *)

IsLeaf(pte) == "R" \in pte.flags \/ "X" \in pte.flags

\* Mutant: the U bit is not looked at in U-mode.
Permits_anyuser(pte, type) ==
  /\ "W" \in pte.flags => "R" \in pte.flags
  /\ (CASE type = "fetch" -> "X" [] type = "load" -> "R" [] OTHER -> "W") \in pte.flags
  /\ "A" \in pte.flags /\ (type = "store" => "D" \in pte.flags)

\* The checks on a leaf, which are the same at both levels.
Permits(pte, type) ==
  /\ "W" \in pte.flags => "R" \in pte.flags
  /\ (CASE type = "fetch" -> "X" [] type = "load" -> "R" [] OTHER -> "W") \in pte.flags
  /\ mode = U => "U" \in pte.flags
  /\ mode = S /\ "U" \in pte.flags => type # "fetch" /\ sum
  /\ "A" \in pte.flags /\ (type = "store" => "D" \in pte.flags)

\* MSTATUS never holds MPRV (bit 17 is outside MSTATUS_MASK): M-mode is not translated.
Translated == mode # M /\ satp.on

\* The physical address, or NoAddress where the code throws a PageFaultException.  A
\* level-1 entry with neither R nor X is a pointer, whatever its W bit.
Translate(m, va, type) ==
  LET pte1 == m[<<satp.root[1], satp.root[2], va[1]>>]
      pte0 == m[<<pte1.ppn[1], pte1.ppn[2], va[2]>>]
  IN  CASE ~Translated -> va
        [] Translated /\ "V" \in pte1.flags /\ IsLeaf(pte1)
             /\ pte1.ppn[2] = 0 /\ Permits(pte1, type) -> <<pte1.ppn[1], va[2], va[3]>>
        [] Translated /\ "V" \in pte1.flags /\ ~IsLeaf(pte1)
             /\ "V" \in pte0.flags /\ IsLeaf(pte0) /\ Permits(pte0, type) ->
               <<pte0.ppn[1], pte0.ppn[2], va[3]>>
        [] OTHER -> NoAddress

-----------------------------------------------------------------------------
(* Reads and writes of `n` cells at a virtual address *)

\* address + 1 in uint32_t.
Succ(a) == CASE a[3] < N - 1 -> <<a[1], a[2], a[3] + 1>>
             [] a[3] = N - 1 /\ a[2] < N - 1 -> <<a[1], a[2] + 1, 0>>
             [] a[3] = N - 1 /\ a[2] = N - 1 /\ a[1] < N - 1 -> <<a[1] + 1, 0, 0>>
             [] OTHER -> <<0, 0, 0>>

InPage(va, n) == va[3] + n <= N

\* The address that a read faults on.  A word in one page is translated once; one that
\* crosses is read by read8, a load even for a fetch.
ReadFault(m, va, n, type) ==
  LET bad(a, t) == Translate(m, a, t) = NoAddress
  IN  IF InPage(va, n) THEN IF bad(va, type) THEN va ELSE NoAddress
      ELSE CASE bad(va, "load") -> va
             [] ~bad(va, "load") /\ bad(Succ(va), "load") -> Succ(va)
             [] OTHER -> NoAddress

\* write8.  `at` lists the virtual and the physical address of every cell written.
WriteCell(m, va, cell) ==
  LET pa == Translate(m, va, "store")
  IN  IF pa = NoAddress THEN [mem |-> m, at |-> {}, fault |-> va]
      ELSE [mem |-> [m EXCEPT ![pa] = cell], at |-> {<<va, pa>>}, fault |-> NoAddress]

\* write16 and write32: a crossing write leaves its first half in memory when the
\* second one faults.
WriteWord(m, va, w) ==
  LET pa     == Translate(m, va, "store")
      first  == WriteCell(m, va, w[1])
      second == WriteCell(first.mem, Succ(va), w[2])
  IN  CASE InPage(va, 2) /\ pa = NoAddress -> [mem |-> m, at |-> {}, fault |-> va]
        [] InPage(va, 2) /\ pa # NoAddress ->
             [mem |-> [m EXCEPT ![pa] = w[1], ![Succ(pa)] = w[2]],
              at  |-> {<<va, pa>>, <<Succ(va), Succ(pa)>>}, fault |-> NoAddress]
        [] ~InPage(va, 2) /\ first.fault # NoAddress -> first
        [] OTHER -> [second EXCEPT !.at = @ \cup first.at]

Write(m, va, n, w) == IF n = 1 THEN WriteCell(m, va, w[1]) ELSE WriteWord(m, va, w)

-----------------------------------------------------------------------------
(* The reservation *)

\* The cells in [a, a + n), computed in 64 bits: the range does not wrap.
Span(a, n) == {a} \cup (IF n = 1 \/ a = <<N - 1, N - 1, N - 1>> THEN {} ELSE {Succ(a)})

\* Mutant: only the first byte of the store is looked up in the reserved word.
AfterNotify_start(va, n) ==
  IF va \in Span(res.addr, 2) THEN [res EXCEPT !.valid = FALSE] ELSE res

\* notifyStore(va, n): the virtual range against the reserved physical word.
AfterNotify(va, n) ==
  IF Span(va, n) \cap Span(res.addr, 2) # {} THEN [res EXCEPT !.valid = FALSE] ELSE res

Cancelled == [res EXCEPT !.valid = FALSE]

\* History.  The reserved word was written: by the host, by an instruction that named it
\* by its physical address, past the top of the address space, or through a translation.
FateAfter(va, by, at) ==
  LET hit == {p \in at : p[2] \in Span(res.addr, 2)}
  IN  CASE hit = {} -> fate
        [] hit # {} /\ by = "host" -> "host"
        [] hit # {} /\ by # "host" /\ (\E p \in hit : p[1] = p[2] /\ p[1] \in Span(va, 2)) -> "stored"
        [] hit # {} /\ by # "host" /\ (\A p \in hit : p[1] \notin Span(va, 2)) -> "wrapped"
        [] OTHER -> "aliased"

Fate == {"untouched", "stored", "wrapped", "aliased", "host", "trapped"}

\* Only the fate of a reservation that is held is remembered.
Recorded(f) == fate' = IF res'.valid THEN f ELSE "untouched"

-----------------------------------------------------------------------------
(* Instructions *)

\* takeTrap: to S-mode when delegated, else to M-mode.  It cancels the reservation.
TakeTrap == /\ \E to \in {S, M} : to >= mode /\ mode' = to
            /\ res' = Cancelled
            /\ Recorded("trapped")
            /\ UNCHANGED <<satp, sum>>

\* Any trap that is not a page fault: ECALL, an illegal instruction, an interrupt.
Trap == TakeTrap /\ UNCHANGED mem

\* Mutant: the reserved encoding of MPP is returned to.
Return_reserved == \E to \in 0 .. 3 :
  /\ mode # U /\ to <= mode /\ mode' = to
  /\ UNCHANGED <<satp, sum, mem, res, fate>>

\* MRET and SRET: the mode does not rise, and the reservation stays.
Return == \E to \in {U, S, M} :
  /\ mode # U /\ to <= mode /\ mode' = to
  /\ UNCHANGED <<satp, sum, mem, res, fate>>

Load(va, n) ==
  /\ "load" \in Program
  /\ ReadFault(mem, va, n, "load") # NoAddress /\ TakeTrap /\ UNCHANGED mem

\* read32(_pc, true): also for a compressed instruction in the page's last half-word.
Fetch(va) ==
  /\ "fetch" \in Program
  /\ ReadFault(mem, va, 2, "fetch") # NoAddress /\ TakeTrap /\ UNCHANGED mem

\* The write of an instruction that has left the reservation as `r`: it completes, or it
\* faults and traps.
Written(r, va, by, w) ==
  /\ mem' = w.mem
  /\ \/ /\ w.fault = NoAddress
        /\ res' = r
        /\ Recorded(FateAfter(va, by, w.at))
        /\ UNCHANGED <<mode, satp, sum>>
     \/ w.fault # NoAddress /\ TakeTrap

Store(va, n, w) == /\ "store" \in Program
                   /\ Written(AfterNotify(va, n), va, "cpu", Write(mem, va, n, w))

Lr(va) ==
  /\ "lr" \in Program
  /\ UNCHANGED mem
  /\ \/ ReadFault(mem, va, 2, "load") # NoAddress /\ TakeTrap
     \/ /\ ReadFault(mem, va, 2, "load") = NoAddress
        /\ res' = [valid |-> TRUE, addr |-> Translate(mem, va, "load")]
        /\ fate' = "untouched"
        /\ UNCHANGED <<mode, satp, sum>>

Sc(va, w) ==
  LET pa == Translate(mem, va, "load")
  IN  /\ "sc" \in Program
      /\ \/ pa = NoAddress /\ TakeTrap /\ UNCHANGED mem
         \/ pa # NoAddress /\ res.valid /\ res.addr = pa
              /\ Written(Cancelled, va, "cpu", WriteWord(mem, va, w))
         \/ pa # NoAddress /\ ~(res.valid /\ res.addr = pa)
              /\ res' = Cancelled /\ Recorded(fate) /\ UNCHANGED <<mode, satp, sum, mem>>

Amo(va, w) ==
  /\ "amo" \in Program
  /\ \/ ReadFault(mem, va, 2, "load") # NoAddress /\ TakeTrap /\ UNCHANGED mem
     \/ ReadFault(mem, va, 2, "load") = NoAddress
          /\ Written(AfterNotify(va, 2), va, "cpu", WriteWord(mem, va, w))

\* The semihosting call SYSREAD: write8 without notifyStore.
SysRead(va, w) == /\ "sysread" \in Program
                  /\ Written(res, va, "host", WriteCell(mem, va, w[1]))

\* A CSR write to SATP and the setSATP that follows it; to SUM in MSTATUS or SSTATUS.
SetSatp(on, root) == /\ "satp" \in Program /\ mode # U
                     /\ satp' = [on |-> on, root |-> root]
                     /\ UNCHANGED <<mode, sum, mem, res, fate>>

SetSum(b) == /\ "sum" \in Program /\ mode # U
             /\ sum' = b
             /\ UNCHANGED <<mode, satp, mem, res, fate>>

-----------------------------------------------------------------------------

\* The program starts under the translation that the M-mode code before it set up.
Init == /\ mode = M
        /\ satp \in [on : BOOLEAN, root : Root]
        /\ sum = FALSE
        /\ mem \in Image
        /\ res = [valid |-> FALSE, addr |-> <<0, 0, 0>>]
        /\ fate = "untouched"

Next == \/ Trap
        \/ Return
        \/ \E va \in Address : \/ \E n \in {1, 2} : Load(va, n)
                               \/ Fetch(va)
                               \/ \E n \in {1, 2}, w \in Data : Store(va, n, w)
                               \/ Lr(va)
                               \/ \E w \in Data : Sc(va, w) \/ Amo(va, w) \/ SysRead(va, w)
        \/ \E on \in BOOLEAN, root \in Root : SetSatp(on, root)
        \/ \E b \in BOOLEAN : SetSum(b)

Spec == Init /\ [][Next]_vars

-----------------------------------------------------------------------------
(* Properties *)

TypeOK == /\ mode \in {U, S, M}
          /\ satp \in [on : BOOLEAN, root : Page]
          /\ sum \in BOOLEAN
          /\ mem \in [Address -> Word]
          /\ res \in [valid : BOOLEAN, addr : Address]
          /\ fate \in Fate

\* What a page table says, without the walk: the leaf entries and the pages they map.
RootTable == {<<satp.root[1], satp.root[2], i>> : i \in Offset}
Pointers(m) == {c \in RootTable : "V" \in m[c].flags /\ ~IsLeaf(m[c])}
LeafTables(m) == {<<m[c].ppn[1], m[c].ppn[2], j>> : c \in Pointers(m), j \in Offset}
Tables(m) == RootTable \cup LeafTables(m)
UserWritable(m) ==
  LET user(c) == {"V", "R", "W", "U", "A", "D"} \subseteq m[c].flags
  IN  {m[c].ppn : c \in {d \in LeafTables(m) : user(d)}}
        \cup {<<m[c].ppn[1], j>> : c \in {d \in RootTable : user(d) /\ m[d].ppn[2] = 0}, j \in Offset}
Frame(c) == <<c[1], c[2]>>

\* No page table lies in a page that U-mode can write.
Sealed(m) == \A c \in Tables(m) : Frame(c) \notin UserWritable(m)

\* The U-mode program writes only to pages that the tables give it, crossing stores
\* and semihosting calls included, and cannot change what the tables give it.
UserConfined ==
  [][mode = U /\ satp.on /\ Sealed(mem) =>
       /\ \A c \in Address : mem'[c] # mem[c] => Frame(c) \in UserWritable(mem)
       /\ Sealed(mem)' /\ UserWritable(mem)' = UserWritable(mem)]_vars

\* A reservation that SC would still accept has seen no trap, and no store to the
\* reserved word by its own address, wherever the store begins and whatever its size.
ReservationIsHonest == res.valid => fate \notin {"stored", "trapped"}

\* "LrSc_FailsOnInterveningStore" (RTypeInstructionsTests.cpp): a store to the reserved word
\* makes SC fail, under whichever virtual address it is made.
InterveningStoreBreaks == res.valid => fate # "aliased"
=============================================================================
