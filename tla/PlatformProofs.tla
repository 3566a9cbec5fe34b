--------------------------- MODULE PlatformProofs ---------------------------
(***************************************************************************)
(* Theorems about Hart, for every set of addresses, operands, exceptions    *)
(* and device lines, and then about Platform, the hart with its devices,    *)
(* for every width of the halves and every set of deadlines.                *)
(***************************************************************************)
EXTENDS Platform, TLAPS

\* A hart value that satisfies the type invariant.
HartOK(h) == h \in HartState /\ LegalCsr(h.csr)

-----------------------------------------------------------------------------
(* CsrUnit *)

\* Whatever software writes to whichever CSR, the storage stays legal.
LEMMA CsrWriteLegal ==
  ASSUME NEW c, LegalCsr(c), NEW a \in CsrName, NEW v \in Word
  PROVE  LegalCsr(CsrWrite(c, a, v))
<1> USE DEF LegalCsr, CsrName, Storage, Word, SoftWritable
<1>1. CASE a = "mstatus"
  <2>1. Warl(v \cap MSTATUS_MASK) \subseteq MSTATUS_MASK
    BY DEF Warl
  <2>2. Warl(v \cap MSTATUS_MASK) \cap MPP # {12}
    BY DEF Warl, MPP
  <2>3. Warl(v \cap MSTATUS_MASK) \in Word
    BY DEF Warl
  <2> QED
    BY <1>1, <2>1, <2>2, <2>3 DEF CsrWrite
<1>2. CASE a = "sstatus"
  <2> DEFINE w == (c["mstatus"] \ SSTATUS_MASK) \cup (v \cap SSTATUS_MASK)
  <2>1. w \subseteq MSTATUS_MASK
    BY DEF SSTATUS_MASK, MSTATUS_MASK, SIE, SPIE, SPP
  <2>2. w \cap MPP = c["mstatus"] \cap MPP
    BY DEF SSTATUS_MASK, MPP, SIE, SPIE, SPP
  <2>3. w \in Word
    OBVIOUS
  <2> QED
    BY <1>2, <2>1, <2>2, <2>3 DEF CsrWrite
<1>3. CASE a = "sie"
  BY <1>3 DEF CsrWrite
<1>4. CASE a = "sip"
  BY <1>4 DEF CsrWrite
<1>5. CASE a = "mip"
  BY <1>5 DEF CsrWrite
<1>6. CASE a = "cycle"
  BY <1>6 DEF CsrWrite
<1>7. CASE a \in Storage \ {"mstatus", "mip"}
  BY <1>7 DEF CsrWrite
<1> QED
  BY <1>1, <1>2, <1>3, <1>4, <1>5, <1>6, <1>7

\* A CSR read returns a word.
LEMMA CsrReadWord ==
  ASSUME NEW c, LegalCsr(c), NEW a \in CsrName
  PROVE  CsrRead(c, a) \in Word
BY DEF LegalCsr, CsrRead, CsrName, Storage, Word

-----------------------------------------------------------------------------
(* Traps and returns *)

\* A trap into S-mode or into M-mode leads from a legal hart to a legal hart.
LEMMA TrapToSOK ==
  ASSUME NEW h, HartOK(h), NEW kind \in {"exception", "interrupt"}, NEW cause \in 0 .. 31
  PROVE  HartOK(TrapToS(h, kind, cause)) /\ TrapToS(h, kind, cause).mode = S
<1> DEFINE acked == IF kind = "interrupt" THEN CsrWrite(h.csr, "sip", {cause}) ELSE h.csr
           saved == CsrWrite(acked, "sepc", h.pc)
           v     == Copy(CsrRead(saved, "sstatus"), SIE, SPIE) \ {SIE, SPP}
           w     == v \cup (IF h.mode = S THEN {SPP} ELSE {})
<1>1. LegalCsr(acked)
  BY CsrWriteLegal DEF HartOK, CsrName, Word
<1>2. LegalCsr(saved)
  BY <1>1, CsrWriteLegal DEF HartOK, HartState, CsrName
<1>3. w \in Word
  BY <1>2, CsrReadWord DEF Copy, CsrName, Word, SPP, SPIE, SIE
<1>4. LegalCsr(CsrWrite(saved, "sstatus", w))
  BY <1>2, <1>3, CsrWriteLegal DEF CsrName
<1>5. saved["stvec"] \ {0, 1} \in Word
  BY <1>2 DEF LegalCsr, Word, Storage, CsrName
<1>6. TrapToS(h, kind, cause) = [mode |-> S, pc |-> saved["stvec"] \ {0, 1},
         csr |-> CsrWrite(saved, "sstatus", w), trap |-> [kind |-> kind, cause |-> cause]]
  BY DEF TrapToS
<1> HIDE DEF acked, saved, w
<1> QED
  BY <1>4, <1>5, <1>6 DEF HartOK, HartState, TrapRecord, LegalCsr

LEMMA TrapToMOK ==
  ASSUME NEW h, HartOK(h), NEW kind \in {"exception", "interrupt"}, NEW cause \in 0 .. 31
  PROVE  HartOK(TrapToM(h, kind, cause)) /\ TrapToM(h, kind, cause).mode = M
<1> DEFINE saved == CsrWrite(h.csr, "mepc", h.pc)
           v     == Copy(CsrRead(saved, "mstatus"), MIE, MPIE) \ ({MIE} \cup MPP)
           w     == v \cup PrivilegeBits(h.mode)
<1>2. LegalCsr(saved)
  BY CsrWriteLegal DEF HartOK, HartState, CsrName
<1>3. w \in Word
  BY <1>2, CsrReadWord DEF Copy, CsrName, Word, MPP, MPIE, MIE, PrivilegeBits
<1>4. LegalCsr(CsrWrite(saved, "mstatus", w))
  BY <1>2, <1>3, CsrWriteLegal DEF CsrName
<1>5. saved["mtvec"] \ {0, 1} \in Word
  BY <1>2 DEF LegalCsr, Word, Storage, CsrName
<1>6. TrapToM(h, kind, cause) = [mode |-> M, pc |-> saved["mtvec"] \ {0, 1},
         csr |-> CsrWrite(saved, "mstatus", w), trap |-> [kind |-> kind, cause |-> cause]]
  BY DEF TrapToM
<1> HIDE DEF saved, w
<1> QED
  BY <1>4, <1>5, <1>6 DEF HartOK, HartState, TrapRecord, LegalCsr

\* A trap of either kind: the hart stays legal, and it lands in S-mode exactly when the
\* cause is delegated, in M-mode otherwise.
LEMMA TakeTrapOK ==
  ASSUME NEW h, HartOK(h), NEW kind \in {"exception", "interrupt"}, NEW cause \in 0 .. 31
  PROVE  /\ HartOK(TakeTrap(h, kind, cause))
         /\ TakeTrap(h, kind, cause).mode = IF Delegated(h, kind, cause) THEN S ELSE M
BY TrapToSOK, TrapToMOK DEF TakeTrap

\* SRET and MRET lead from a legal hart to a legal hart: the mode they take from the
\* trap stack is a mode because MPP = 2 is never stored.
LEMMA ReturnsOK ==
  ASSUME NEW h, HartOK(h)
  PROVE  HartOK(Sret(h)) /\ HartOK(Mret(h))
<1> DEFINE v == h.csr["mstatus"]
           ws == (Copy(v, SPIE, SIE) \ {SPP}) \cup {SPIE}
           wm == (Copy(v, MPIE, MIE) \ MPP) \cup {MPIE}
<1>1. v \in Word /\ v \cap MPP # {12}
  BY DEF HartOK, LegalCsr, Storage, CsrName
<1>2. ws \in Word /\ wm \in Word
  BY <1>1 DEF Copy, Word, SPIE, SIE, SPP, MPIE, MIE, MPP
<1>3. LegalCsr(CsrWrite(h.csr, "mstatus", ws)) /\ LegalCsr(CsrWrite(h.csr, "mstatus", wm))
  BY <1>2, CsrWriteLegal DEF HartOK, CsrName
<1>4. ModeOf(v \cap MPP) \in {U, S, M}
  BY <1>1 DEF ModeOf, U, S, M
<1>5. h.csr["sepc"] \in Word /\ h.csr["mepc"] \in Word
  BY DEF HartOK, LegalCsr, Storage, CsrName
<1>6. /\ Sret(h) = [h EXCEPT !.pc = h.csr["sepc"], !.mode = IF SPP \in v THEN S ELSE U,
                             !.csr = CsrWrite(h.csr, "mstatus", ws)]
      /\ Mret(h) = [h EXCEPT !.pc = h.csr["mepc"], !.mode = ModeOf(v \cap MPP),
                             !.csr = CsrWrite(h.csr, "mstatus", wm)]
  BY DEF Sret, Mret
<1> HIDE DEF v, ws, wm
<1>7. CsrWrite(h.csr, "mstatus", ws) \in [Storage -> Word] /\ CsrWrite(h.csr, "mstatus", wm) \in [Storage -> Word]
  BY <1>3 DEF LegalCsr
<1> QED
  BY <1>3, <1>4, <1>5, <1>6, <1>7 DEF HartOK, HartState

-----------------------------------------------------------------------------
(* The poll *)

\* The interrupt that the loop picks is one of those that may be taken.
LEMMA ChosenEligible ==
  ASSUME NEW h, Eligible(h) # {}
  PROVE  Chosen(h) \in Eligible(h)
<1>1. \A c \in Eligible(h) : c \in {1, 3, 5, 7, 9, 11}
  BY DEF Eligible, MachineInterrupts, SupervisorInterrupts, SSI, MSI, STI, MTI, SEI, MEI
<1>2. Rank[11] = 1 /\ Rank[3] = 2 /\ Rank[7] = 3 /\ Rank[9] = 4 /\ Rank[1] = 5 /\ Rank[5] = 6
  BY DEF Rank, MachineInterrupts, SupervisorInterrupts, SSI, MSI, STI, MTI, SEI, MEI
<1>3. \E c \in Eligible(h) : \A d \in Eligible(h) : Rank[c] <= Rank[d]
  <2>1. CASE 11 \in Eligible(h)
    BY <1>1, <1>2, <2>1
  <2>2. CASE 11 \notin Eligible(h) /\ 3 \in Eligible(h)
    BY <1>1, <1>2, <2>2
  <2>3. CASE 11 \notin Eligible(h) /\ 3 \notin Eligible(h) /\ 7 \in Eligible(h)
    BY <1>1, <1>2, <2>3
  <2>4. CASE Eligible(h) \cap {11, 3, 7} = {} /\ 9 \in Eligible(h)
    BY <1>1, <1>2, <2>4
  <2>5. CASE Eligible(h) \cap {11, 3, 7, 9} = {} /\ 1 \in Eligible(h)
    BY <1>1, <1>2, <2>5
  <2>6. CASE Eligible(h) \cap {11, 3, 7, 9, 1} = {}
    BY <1>1, <1>2, <2>6
  <2> QED
    BY <2>1, <2>2, <2>3, <2>4, <2>5, <2>6
<1> QED
  BY <1>3 DEF Chosen

\* Sampling the devices changes nothing but the device bits of mip.
LEMMA SampleOK ==
  ASSUME NEW h, HartOK(h), NEW lines
  PROVE  /\ HartOK(Sample(h, lines))
         /\ Sample(h, lines).mode = h.mode /\ Sample(h, lines).pc = h.pc
         /\ Sample(h, lines).trap = h.trap
         /\ \A a \in Storage \ {"mip"} : Sample(h, lines).csr[a] = h.csr[a]
         /\ SSI \in Sample(h, lines).csr["mip"] <=> SSI \in h.csr["mip"]
<1> DEFINE w == (h.csr["mip"] \ {MTI, STI, MEI, SEI}) \cup LineBits(lines)
<1>1. Sample(h, lines) = [h EXCEPT !.csr = [h.csr EXCEPT !["mip"] = w]]
  BY DEF Sample
<1>2. w \subseteq SoftWritable \cup {MTI, MEI} /\ w \in Word /\ (SSI \in w <=> SSI \in h.csr["mip"])
  BY DEF HartOK, LegalCsr, LineBits, SoftWritable, Word, SSI, MTI, STI, MEI, SEI
<1> HIDE DEF w
<1>3. LegalCsr([h.csr EXCEPT !["mip"] = w])
  BY <1>2 DEF HartOK, LegalCsr, Storage, CsrName
<1> QED
  BY <1>1, <1>2, <1>3 DEF HartOK, HartState, LegalCsr, Storage, CsrName

\* What a poll does: it samples, and takes the chosen interrupt if there is one.
LEMMA PollCases ==
  ASSUME NEW h, HartOK(h), NEW lines
  PROVE  LET s == Sample(h, lines)
             c == Chosen(s)
         IN  \/ Eligible(s) = {} /\ Poll(h, lines) = s
             \/ /\ c \in Eligible(s) /\ c \in 0 .. 31
                /\ Poll(h, lines) = TakeTrap(s, "interrupt", c)
<1> DEFINE s == Sample(h, lines)
<1>1. CASE Eligible(s) = {}
  BY <1>1 DEF Poll
<1>2. CASE Eligible(s) # {}
  <2>1. Chosen(s) \in Eligible(s)
    BY <1>2, ChosenEligible
  <2>2. Chosen(s) \in 0 .. 31
    BY <2>1 DEF Eligible, MachineInterrupts, SupervisorInterrupts, SSI, MSI, STI, MTI, SEI, MEI
  <2> QED
    BY <1>2, <2>1, <2>2 DEF Poll
<1> QED
  BY <1>1, <1>2

LEMMA PollOK ==
  ASSUME NEW h, HartOK(h), NEW lines
  PROVE  HartOK(Poll(h, lines))
BY PollCases, SampleOK, TakeTrapOK

-----------------------------------------------------------------------------
(* Type correctness *)

LEMMA CurOK == TypeOK => HartOK(Cur)
BY DEF TypeOK, HartOK, Cur, HartState, LegalCsr, TrapRecord, NoTrap

LEMMA CommitOK ==
  ASSUME TypeOK, NEW h, HartOK(h), Commit(h)
  PROVE  TypeOK'
BY DEF TypeOK, HartOK, HartState, Commit, LegalCsr

LEMMA RetireOK ==
  ASSUME TypeOK, NEW lines \in DeviceLines, NEW h, HartOK(h), Retire(h, lines)
  PROVE  TypeOK'
BY PollOK, CommitOK DEF Retire

\* Moving on to the next instruction, with the CSRs as an instruction left them.
LEMMA AdvanceOK ==
  ASSUME TypeOK, NEW next \in Addr, NEW c, LegalCsr(c)
  PROVE  HartOK([Cur EXCEPT !.pc = next]) /\ HartOK([Cur EXCEPT !.pc = next, !.csr = c])
BY CurOK, AddrAssumption DEF HartOK, HartState, LegalCsr, Cur

\* c is the CSR storage after software's write to the CSR a with rs1 = v.
CsrWritten(a, v, c, lines) ==
  /\ LegalCsr(c) /\ CanAccess(a, mode, TRUE)
  /\ \E new \in Word : c = CsrWrite(csr, a, new) /\ new \subseteq CsrRead(csr, a) \cup v
  /\ \E next \in Addr : Retire([Cur EXCEPT !.pc = next, !.csr = c], lines)

\* A CSR instruction that is not refused writes a legal value to the storage.
LEMMA CsrStep ==
  ASSUME TypeOK, NEW lines \in DeviceLines, NEW op \in {"rw", "rs", "rc"}, NEW a \in CsrName, NEW v \in Operand[a],
         ExecuteCsr(op, a, v, lines)
  PROVE  \E c : CsrWritten(a, v, c, lines)
<1> DEFINE old == CsrRead(csr, a)
           new == CASE op = "rw" -> v [] op = "rs" -> old \cup v [] op = "rc" -> old \ v
<1>1. v \in Word
  BY OperandAssumption
<1>2. old \in Word
  BY CsrReadWord DEF TypeOK
<1>3. new \in Word
  BY <1>1, <1>2 DEF Word
<1>4. LegalCsr(CsrWrite(csr, a, new))
  BY <1>3, CsrWriteLegal DEF TypeOK
<1>6. new \subseteq old \cup v
  OBVIOUS
<1>5. CanAccess(a, mode, TRUE) /\ \E next \in Addr : Retire([Cur EXCEPT !.pc = next, !.csr = CsrWrite(csr, a, new)], lines)
  BY DEF ExecuteCsr
<1> HIDE DEF new
<1> QED
  BY <1>3, <1>4, <1>5, <1>6 DEF CsrWritten

LEMMA TypeInductive == TypeOK /\ [Next]_vars => TypeOK'
<1> SUFFICES ASSUME TypeOK, [Next]_vars PROVE TypeOK'
  OBVIOUS
<1>0. HartOK(Cur)
  BY CurOK
<1>1. ASSUME NEW lines \in DeviceLines, ExecuteOther(lines) PROVE TypeOK'
  BY <1>1, AdvanceOK, RetireOK DEF ExecuteOther, TypeOK
<1>2. ASSUME NEW lines \in DeviceLines, NEW op \in {"rw", "rs", "rc"}, NEW a \in CsrName, NEW v \in Operand[a],
             ExecuteCsr(op, a, v, lines)
      PROVE  TypeOK'
  <2>1. PICK c : CsrWritten(a, v, c, lines)
    BY <1>2, CsrStep
  <2> QED
    BY <2>1, AdvanceOK, RetireOK DEF CsrWritten
<1>3. ASSUME NEW lines \in DeviceLines, CsrRefused(lines) PROVE TypeOK'
  BY <1>0, <1>3, TakeTrapOK, RetireOK DEF CsrRefused, IllegalInsn
<1>4. ASSUME NEW lines \in DeviceLines, ExecuteEcall(lines) PROVE TypeOK'
  <2>1. EcallFrom(mode) \in 0 .. 31
    BY DEF EcallFrom
  <2> QED
    BY <1>0, <1>4, <2>1, TakeTrapOK, RetireOK DEF ExecuteEcall
<1>5. ASSUME NEW lines \in DeviceLines, ExecuteEbreak(lines) PROVE TypeOK'
  BY <1>0, <1>5, TakeTrapOK, RetireOK DEF ExecuteEbreak, Breakpoint
<1>6. ASSUME NEW lines \in DeviceLines, ExecuteMret(lines) PROVE TypeOK'
  BY <1>0, <1>6, ReturnsOK, RetireOK DEF ExecuteMret
<1>7. ASSUME NEW lines \in DeviceLines, ExecuteSret(lines) PROVE TypeOK'
  BY <1>0, <1>7, ReturnsOK, RetireOK DEF ExecuteSret
<1>8. ASSUME NEW lines \in DeviceLines, PrivilegedRefused(lines) PROVE TypeOK'
  BY <1>0, <1>8, TakeTrapOK, RetireOK DEF PrivilegedRefused, IllegalInsn
<1>9. CASE IllegalInstruction
  BY <1>0, <1>9, TakeTrapOK, CommitOK DEF IllegalInstruction, IllegalInsn
<1>10. CASE PageFault
  BY <1>0, <1>10, TakeTrapOK, CommitOK DEF PageFault, PageFaults
<1>11. CASE Halt
  <2>1. NoTrap \in TrapRecord
    BY DEF NoTrap, TrapRecord
  <2> QED
    BY <1>11, <2>1, Zenon DEF Halt, TypeOK, LegalCsr
<1>12. CASE UNCHANGED vars
  BY <1>12 DEF vars, TypeOK, LegalCsr
<1> QED
  BY <1>1, <1>2, <1>3, <1>4, <1>5, <1>6, <1>7, <1>8, <1>9, <1>10, <1>11, <1>12 DEF Next, Retires

LEMMA InitOK == Init => TypeOK
BY AddrAssumption DEF Init, TypeOK, LegalCsr, ResetCsr, Word, Storage, CsrName, MPP,
       MSTATUS_MASK, SoftWritable, NoTrap, TrapRecord, U, S, M

\* The hart's types hold in every reachable state: in particular the mode is never the
\* reserved one, because no sequence of CSR writes and traps leaves MPP = 2.
THEOREM TypeCorrect == Spec => []TypeOK
BY InitOK, TypeInductive, PTL DEF Spec

-----------------------------------------------------------------------------
(* What a trap and a return do to the CSRs *)

\* t is the hart h after a trap that S-mode handles.
SupervisorTrap(h, t) ==
  /\ t.mode = S /\ t.pc = h.csr["stvec"] \ {0, 1}
  /\ t.csr["sepc"] = h.pc
  /\ SIE \notin t.csr["mstatus"]
  /\ SPIE \in t.csr["mstatus"] <=> SIE \in h.csr["mstatus"]
  /\ SPP \in t.csr["mstatus"] <=> h.mode = S
  /\ t.csr["mstatus"] \ {SIE, SPIE, SPP} = h.csr["mstatus"] \ {SIE, SPIE, SPP}
  /\ \A a \in Storage \ {"mstatus", "sepc", "mip"} : t.csr[a] = h.csr[a]
  /\ t.csr["mip"] \ h.csr["mideleg"] = h.csr["mip"] \ h.csr["mideleg"]

\* t is the hart h after a trap that M-mode handles.
MachineTrap(h, t) ==
  /\ t.mode = M /\ t.pc = h.csr["mtvec"] \ {0, 1}
  /\ t.csr["mepc"] = h.pc
  /\ MIE \notin t.csr["mstatus"]
  /\ MPIE \in t.csr["mstatus"] <=> MIE \in h.csr["mstatus"]
  /\ t.csr["mstatus"] \cap MPP = PrivilegeBits(h.mode)
  /\ t.csr["mstatus"] \ ({MIE, MPIE} \cup MPP) = h.csr["mstatus"] \ ({MIE, MPIE} \cup MPP)
  /\ \A a \in Storage \ {"mstatus", "mepc"} : t.csr[a] = h.csr[a]

\* r is the hart h after SRET, and after MRET.
SupervisorReturn(h, r) ==
  /\ r.pc = h.csr["sepc"] /\ r.mode = (IF SPP \in h.csr["mstatus"] THEN S ELSE U)
  /\ r.trap = h.trap
  /\ SIE \in r.csr["mstatus"] <=> SPIE \in h.csr["mstatus"]
  /\ r.csr["mstatus"] \ {SIE, SPIE, SPP} = h.csr["mstatus"] \ {SIE, SPIE, SPP}
  /\ \A a \in Storage \ {"mstatus"} : r.csr[a] = h.csr[a]
MachineReturn(h, r) ==
  /\ r.pc = h.csr["mepc"] /\ r.mode = ModeOf(h.csr["mstatus"] \cap MPP)
  /\ r.trap = h.trap
  /\ MIE \in r.csr["mstatus"] <=> MPIE \in h.csr["mstatus"]
  /\ r.csr["mstatus"] \ ({MIE, MPIE} \cup MPP) = h.csr["mstatus"] \ ({MIE, MPIE} \cup MPP)
  /\ \A a \in Storage \ {"mstatus"} : r.csr[a] = h.csr[a]

LEMMA TrapToSEffect ==
  ASSUME NEW h, HartOK(h), h.mode \in {U, S},
         NEW kind \in {"exception", "interrupt"}, NEW cause \in 0 .. 31
  PROVE  SupervisorTrap(h, TrapToS(h, kind, cause))
<1> DEFINE c     == h.csr
           acked == IF kind = "interrupt" THEN CsrWrite(c, "sip", {cause}) ELSE c
           saved == CsrWrite(acked, "sepc", h.pc)
           v     == Copy(CsrRead(saved, "sstatus"), SIE, SPIE) \ {SIE, SPP}
           w     == v \cup (IF h.mode = S THEN {SPP} ELSE {})
           n     == (saved["mstatus"] \ SSTATUS_MASK) \cup (w \cap SSTATUS_MASK)
<1>1. c \in [Storage -> Word] /\ c["mstatus"] \subseteq MSTATUS_MASK
  BY DEF HartOK, LegalCsr
<1>2. /\ acked \in [Storage -> Word]
      /\ \A a \in Storage \ {"mip"} : acked[a] = c[a]
      /\ acked["mip"] \ c["mideleg"] = c["mip"] \ c["mideleg"]
  BY <1>1 DEF CsrWrite, Storage, CsrName, SoftWritable, Word, SSI, STI, SEI
<1>3. /\ saved = [acked EXCEPT !["sepc"] = h.pc]
      /\ saved \in [Storage -> Word]
  BY <1>2 DEF CsrWrite, HartOK, HartState, Storage, CsrName
<1>4. saved["mstatus"] = c["mstatus"]
  BY <1>2, <1>3 DEF Storage, CsrName
<1>5. CsrRead(saved, "sstatus") = c["mstatus"] \cap SSTATUS_MASK
  BY <1>4 DEF CsrRead
<1>6. /\ SIE \notin n /\ (SPIE \in n <=> SIE \in c["mstatus"]) /\ (SPP \in n <=> h.mode = S)
      /\ n \ {SIE, SPIE, SPP} = c["mstatus"] \ {SIE, SPIE, SPP}
  BY <1>4, <1>5 DEF Copy, SSTATUS_MASK, SIE, SPIE, SPP
<1>7. TrapToS(h, kind, cause) = [mode |-> S, pc |-> saved["stvec"] \ {0, 1},
         csr |-> [saved EXCEPT !["mstatus"] = n], trap |-> [kind |-> kind, cause |-> cause]]
  BY DEF TrapToS, CsrWrite
<1> HIDE DEF acked, saved, n
<1> QED
  BY <1>2, <1>3, <1>6, <1>7 DEF SupervisorTrap, Storage, CsrName

LEMMA TrapToMEffect ==
  ASSUME NEW h, HartOK(h),
         NEW kind \in {"exception", "interrupt"}, NEW cause \in 0 .. 31
  PROVE  MachineTrap(h, TrapToM(h, kind, cause))
<1> DEFINE c     == h.csr
           saved == CsrWrite(c, "mepc", h.pc)
           v     == Copy(CsrRead(saved, "mstatus"), MIE, MPIE) \ ({MIE} \cup MPP)
           w     == v \cup PrivilegeBits(h.mode)
           n     == Warl(w \cap MSTATUS_MASK)
<1>1. c \in [Storage -> Word] /\ c["mstatus"] \subseteq MSTATUS_MASK /\ h.mode \in {U, S, M}
  BY DEF HartOK, LegalCsr, HartState
<1>2. saved = [c EXCEPT !["mepc"] = h.pc]
  BY DEF CsrWrite
<1>3. CsrRead(saved, "mstatus") = c["mstatus"]
  BY <1>1, <1>2 DEF CsrRead, Storage, CsrName
<1>4. PrivilegeBits(h.mode) \in {{}, {11}, MPP}
  BY <1>1 DEF PrivilegeBits
<1>5. w \cap MPP = PrivilegeBits(h.mode)
  BY <1>4 DEF MPP
<1>6. w \subseteq MSTATUS_MASK
  BY <1>1, <1>3, <1>4 DEF Copy, MSTATUS_MASK, MPP, MPIE, MIE
<1>7. n = w
  BY <1>4, <1>5, <1>6 DEF Warl, MPP
<1>8. /\ MIE \notin w /\ (MPIE \in w <=> MIE \in c["mstatus"])
      /\ w \ ({MIE, MPIE} \cup MPP) = c["mstatus"] \ ({MIE, MPIE} \cup MPP)
  BY <1>3, <1>4 DEF Copy, MPP, MPIE, MIE
<1>9. TrapToM(h, kind, cause) = [mode |-> M, pc |-> saved["mtvec"] \ {0, 1},
         csr |-> [saved EXCEPT !["mstatus"] = n], trap |-> [kind |-> kind, cause |-> cause]]
  BY DEF TrapToM, CsrWrite
<1> HIDE DEF saved, w, n
<1> QED
  BY <1>1, <1>2, <1>5, <1>7, <1>8, <1>9 DEF MachineTrap, Storage, CsrName

LEMMA ReturnEffect ==
  ASSUME NEW h, HartOK(h)
  PROVE  SupervisorReturn(h, Sret(h)) /\ MachineReturn(h, Mret(h))
<1> DEFINE m  == h.csr["mstatus"]
           ws == (Copy(m, SPIE, SIE) \ {SPP}) \cup {SPIE}
           wm == (Copy(m, MPIE, MIE) \ MPP) \cup {MPIE}
           ns == Warl(ws \cap MSTATUS_MASK)
           nm == Warl(wm \cap MSTATUS_MASK)
<1>1. h \in HartState /\ h.csr \in [Storage -> Word] /\ m \subseteq MSTATUS_MASK /\ m \cap MPP # {12}
  BY DEF HartOK, LegalCsr
<1>2. ws \subseteq MSTATUS_MASK /\ wm \subseteq MSTATUS_MASK
  BY <1>1 DEF Copy, MSTATUS_MASK, SIE, SPIE, SPP, MIE, MPIE, MPP
<1>3. ws \cap MPP = m \cap MPP /\ wm \cap MPP = {}
  BY DEF Copy, SIE, SPIE, SPP, MIE, MPIE, MPP
<1>4. ns = ws /\ nm = wm
  BY <1>1, <1>2, <1>3 DEF Warl
<1>5. /\ SIE \in ws <=> SPIE \in m
      /\ ws \ {SIE, SPIE, SPP} = m \ {SIE, SPIE, SPP}
      /\ MIE \in wm <=> MPIE \in m
      /\ wm \ ({MIE, MPIE} \cup MPP) = m \ ({MIE, MPIE} \cup MPP)
  BY DEF Copy, SIE, SPIE, SPP, MIE, MPIE, MPP
<1>6. /\ Sret(h) = [h EXCEPT !.pc = h.csr["sepc"], !.mode = IF SPP \in m THEN S ELSE U,
                             !.csr = [h.csr EXCEPT !["mstatus"] = ns]]
      /\ Mret(h) = [h EXCEPT !.pc = h.csr["mepc"], !.mode = ModeOf(m \cap MPP),
                             !.csr = [h.csr EXCEPT !["mstatus"] = nm]]
  BY DEF Sret, Mret, CsrWrite
<1> HIDE DEF m, ws, wm, ns, nm
<1> QED
  BY <1>1, <1>4, <1>5, <1>6 DEF SupervisorReturn, MachineReturn, HartState, Storage, CsrName, m

-----------------------------------------------------------------------------
(* Safety *)

\* A delegated trap followed by SRET, and a trap into M-mode followed by MRET.
LEMMA SupervisorRoundTrip ==
  ASSUME NEW h, HartOK(h), h.mode \in {U, S},
         NEW t, HartOK(t), SupervisorTrap(h, t)
  PROVE  /\ Sret(t).mode = h.mode /\ Sret(t).pc = h.pc
         /\ Sret(t).csr["mstatus"] \ {SPIE, SPP} = h.csr["mstatus"] \ {SPIE, SPP}
<1>1. SupervisorReturn(t, Sret(t))
  BY ReturnEffect
<1> QED
  BY <1>1 DEF SupervisorTrap, SupervisorReturn, SIE, SPIE, SPP

LEMMA MachineRoundTrip ==
  ASSUME NEW h, HartOK(h), NEW t, HartOK(t), MachineTrap(h, t)
  PROVE  /\ Mret(t).mode = h.mode /\ Mret(t).pc = h.pc
         /\ Mret(t).csr["mstatus"] \ ({MPIE} \cup MPP) = h.csr["mstatus"] \ ({MPIE} \cup MPP)
<1>1. MachineReturn(t, Mret(t))
  BY ReturnEffect
<1>2. ModeOf(PrivilegeBits(h.mode)) = h.mode
  BY DEF HartOK, HartState, ModeOf, PrivilegeBits, MPP, U, S, M
<1> QED
  BY <1>1, <1>2 DEF MachineTrap, MachineReturn, MIE, MPIE, MPP

\* Every trap that the hart can take in a reachable state is undone by the matching
\* return: mode, program counter, interrupt enables and the other level's trap stack.
THEOREM TrapsAreReversible == Spec => []TrapReturnRestores
<1>1. TypeOK => TrapReturnRestores
  <2> SUFFICES ASSUME TypeOK,
                      NEW kind \in {"exception", "interrupt"}, NEW cause \in 0 .. 15
               PROVE  LET t     == TakeTrap(Cur, kind, cause)
                          r     == IF t.mode = S THEN Sret(t) ELSE Mret(t)
                          stack == IF t.mode = S THEN {SPIE, SPP} ELSE {MPIE} \cup MPP
                      IN  /\ r.mode = mode /\ r.pc = pc
                          /\ r.csr["mstatus"] \ stack = csr["mstatus"] \ stack
    BY DEF TrapReturnRestores
  <2> DEFINE t == TakeTrap(Cur, kind, cause)
  <2>1. HartOK(Cur) /\ HartOK(t) /\ cause \in 0 .. 31
    BY CurOK, TakeTrapOK
  <2>2. Cur.mode = mode /\ Cur.pc = pc /\ Cur.csr = csr /\ mode \in {U, S, M}
    BY DEF Cur, TypeOK
  <2>3. CASE Delegated(Cur, kind, cause)
    <3>1. t = TrapToS(Cur, kind, cause) /\ Cur.mode \in {U, S}
      BY <2>2, <2>3 DEF TakeTrap, Delegated, U, S, M
    <3>2. SupervisorTrap(Cur, t)
      BY <2>1, <3>1, TrapToSEffect
    <3> HIDE DEF t
    <3>3. t.mode = S
      BY <3>2 DEF SupervisorTrap
    <3>4. /\ Sret(t).mode = mode /\ Sret(t).pc = pc
          /\ Sret(t).csr["mstatus"] \ {SPIE, SPP} = csr["mstatus"] \ {SPIE, SPP}
      BY <2>1, <2>2, <3>1, <3>2, SupervisorRoundTrip
    <3> QED
      BY <3>3, <3>4 DEF t
  <2>4. CASE ~Delegated(Cur, kind, cause)
    <3>1. t = TrapToM(Cur, kind, cause)
      BY <2>4 DEF TakeTrap
    <3>2. MachineTrap(Cur, t)
      BY <2>1, <3>1, TrapToMEffect
    <3> HIDE DEF t
    <3>3. t.mode # S
      BY <3>2 DEF MachineTrap, S, M
    <3>4. /\ Mret(t).mode = mode /\ Mret(t).pc = pc
          /\ Mret(t).csr["mstatus"] \ ({MPIE} \cup MPP) = csr["mstatus"] \ ({MPIE} \cup MPP)
      BY <2>1, <2>2, <3>2, MachineRoundTrip
    <3> QED
      BY <3>3, <3>4 DEF t
  <2> QED
    BY <2>3, <2>4
<1> QED
  BY <1>1, TypeCorrect, PTL

\* A poll that takes no interrupt leaves none that could have been taken.
LEMMA PollLeavesNone ==
  ASSUME TypeOK, NEW lines \in DeviceLines, NEW h, HartOK(h), Retire(h, lines), trap' = NoTrap
  PROVE  NoEnabledInterruptLeft'
<1>1. Commit(Poll(h, lines))
  BY DEF Retire
<1> DEFINE s == Sample(h, lines)
<1>2. HartOK(s)
  BY SampleOK
<1>3. ASSUME NEW c \in 0 .. 31 PROVE TakeTrap(s, "interrupt", c).trap # NoTrap
  <2>1. TakeTrap(s, "interrupt", c).trap = [kind |-> "interrupt", cause |-> c]
    BY DEF TakeTrap, TrapToS, TrapToM
  <2> QED
    BY <2>1 DEF NoTrap
<1>4. Eligible(s) = {} /\ Poll(h, lines) = s
  BY <1>1, <1>3, PollCases DEF Commit
<1>5. mode' = s.mode /\ csr' = s.csr
  BY <1>1, <1>4 DEF Commit
<1>6. s.mode \in {U, S, M}
  BY <1>2 DEF HartOK, HartState
<1> HIDE DEF s
<1>7. ASSUME NEW c \in 0 .. 15, Deliverable(c)' PROVE FALSE
  <2>1. /\ c \in s.csr["mip"] \cap s.csr["mie"]
        /\ c \in MachineInterrupts => MachineEnabled(s)
        /\ c \in SupervisorInterrupts => SupervisorEnabled(s)
    BY <1>5, <1>6, <1>7 DEF Deliverable, MachineInterrupts, SupervisorInterrupts,
         MachineEnabled, SupervisorEnabled, U, S, M
  <2>2. c \in MachineInterrupts \cup SupervisorInterrupts
    BY <1>2, <2>1 DEF HartOK, LegalCsr, MachineInterrupts, SupervisorInterrupts, SoftWritable
  <2> QED
    BY <1>4, <2>1, <2>2 DEF Eligible
<1> QED
  BY <1>7 DEF NoEnabledInterruptLeft

\* No interrupt that is pending, enabled and unmasked is left behind by an iteration
\* that took no trap.
THEOREM InterruptsAreTaken == Spec => []NoEnabledInterruptLeft
<1>1. Init => NoEnabledInterruptLeft
  BY DEF Init, NoEnabledInterruptLeft, Deliverable, ResetCsr, Storage, CsrName
<1>2. TypeOK /\ NoEnabledInterruptLeft /\ [Next]_vars => NoEnabledInterruptLeft'
  <2> SUFFICES ASSUME TypeOK, NoEnabledInterruptLeft, [Next]_vars, trap' = NoTrap
               PROVE  NoEnabledInterruptLeft'
    BY DEF NoEnabledInterruptLeft
  <2>0. HartOK(Cur)
    BY CurOK
  <2>1. ASSUME NEW lines \in DeviceLines, ExecuteOther(lines) PROVE NoEnabledInterruptLeft'
    BY <2>1, AdvanceOK, PollLeavesNone DEF ExecuteOther, TypeOK
  <2>2. ASSUME NEW lines \in DeviceLines, NEW op \in {"rw", "rs", "rc"}, NEW a \in CsrName, NEW v \in Operand[a],
             ExecuteCsr(op, a, v, lines)
        PROVE  NoEnabledInterruptLeft'
    <3>1. PICK c : CsrWritten(a, v, c, lines)
      BY <2>2, CsrStep
    <3> QED
      BY <3>1, AdvanceOK, PollLeavesNone DEF CsrWritten
  <2>3. ASSUME NEW lines \in DeviceLines, CsrRefused(lines) PROVE NoEnabledInterruptLeft'
    BY <2>0, <2>3, TakeTrapOK, PollLeavesNone DEF CsrRefused, IllegalInsn
  <2>4. ASSUME NEW lines \in DeviceLines, ExecuteEcall(lines) PROVE NoEnabledInterruptLeft'
    <3>1. EcallFrom(mode) \in 0 .. 31
      BY DEF EcallFrom
    <3> QED
      BY <2>0, <2>4, <3>1, TakeTrapOK, PollLeavesNone DEF ExecuteEcall
  <2>5. ASSUME NEW lines \in DeviceLines, ExecuteEbreak(lines) PROVE NoEnabledInterruptLeft'
    BY <2>0, <2>5, TakeTrapOK, PollLeavesNone DEF ExecuteEbreak, Breakpoint
  <2>6. ASSUME NEW lines \in DeviceLines, ExecuteMret(lines) PROVE NoEnabledInterruptLeft'
    BY <2>0, <2>6, ReturnsOK, PollLeavesNone DEF ExecuteMret
  <2>7. ASSUME NEW lines \in DeviceLines, ExecuteSret(lines) PROVE NoEnabledInterruptLeft'
    BY <2>0, <2>7, ReturnsOK, PollLeavesNone DEF ExecuteSret
  <2>8. ASSUME NEW lines \in DeviceLines, PrivilegedRefused(lines) PROVE NoEnabledInterruptLeft'
    BY <2>0, <2>8, TakeTrapOK, PollLeavesNone DEF PrivilegedRefused, IllegalInsn
  <2>9. CASE IllegalInstruction
    BY <2>9 DEF IllegalInstruction, Commit, TakeTrap, TrapToS, TrapToM, NoTrap
  <2>10. CASE PageFault
    BY <2>10 DEF PageFault, Commit, TakeTrap, TrapToS, TrapToM, NoTrap
  <2>11. CASE Halt
    BY <2>11 DEF Halt, NoEnabledInterruptLeft
  <2>12. CASE UNCHANGED vars
    BY <2>12 DEF vars, NoEnabledInterruptLeft, Deliverable
  <2> QED
    BY <2>1, <2>2, <2>3, <2>4, <2>5, <2>6, <2>7, <2>8, <2>9, <2>10, <2>11, <2>12 DEF Next, Retires
<1> QED
  BY <1>1, <1>2, TypeCorrect, PTL DEF Spec

-----------------------------------------------------------------------------
(* Where traps lead *)

\* t has entered the handler that the CSRs c name for its mode, interrupts masked.
Entered(c, t) ==
  /\ t.mode \in {S, M} /\ t.trap.kind # "none"
  /\ t.pc = c[IF t.mode = M THEN "mtvec" ELSE "stvec"] \ {0, 1}
  /\ (IF t.mode = M THEN MIE ELSE SIE) \notin t.csr["mstatus"]

\* The CSRs that no trap and no return changes.
Steering == {"mideleg", "medeleg", "mtvec", "stvec", "mie"}
SameSteering(c, d) == \A a \in Steering : c[a] = d[a]

LEMMA TakeTrapEnters ==
  ASSUME NEW h, HartOK(h), NEW kind \in {"exception", "interrupt"}, NEW cause \in 0 .. 31
  PROVE  /\ Entered(h.csr, TakeTrap(h, kind, cause))
         /\ SameSteering(TakeTrap(h, kind, cause).csr, h.csr)
<1>1. CASE Delegated(h, kind, cause)
  <2>1. h.mode \in {U, S} /\ TakeTrap(h, kind, cause) = TrapToS(h, kind, cause)
    BY <1>1 DEF Delegated, TakeTrap, HartOK, HartState, U, S, M
  <2>2. SupervisorTrap(h, TrapToS(h, kind, cause))
    BY <2>1, TrapToSEffect
  <2>3. TrapToS(h, kind, cause).trap.kind # "none"
    BY DEF TrapToS
  <2> QED
    BY <2>1, <2>2, <2>3 DEF SupervisorTrap, Entered, SameSteering, Steering, Storage, CsrName, S, M
<1>2. CASE ~Delegated(h, kind, cause)
  <2>1. TakeTrap(h, kind, cause) = TrapToM(h, kind, cause)
    BY <1>2 DEF TakeTrap
  <2>2. MachineTrap(h, TrapToM(h, kind, cause))
    BY TrapToMEffect
  <2>3. TrapToM(h, kind, cause).trap.kind # "none"
    BY DEF TrapToM
  <2> QED
    BY <2>1, <2>2, <2>3 DEF MachineTrap, Entered, SameSteering, Steering, Storage, CsrName
<1> QED
  BY <1>1, <1>2

\* p is the hart h after a poll that took no interrupt.
Undisturbed(h, p) ==
  /\ p.mode = h.mode /\ p.pc = h.pc /\ p.trap = h.trap
  /\ \A a \in Storage \ {"mip"} : p.csr[a] = h.csr[a]
  /\ SSI \in p.csr["mip"] <=> SSI \in h.csr["mip"]

\* A poll leaves the hart undisturbed or has it enter a handler.
LEMMA PollEnters ==
  ASSUME NEW h, HartOK(h), NEW lines
  PROVE  /\ Undisturbed(h, Poll(h, lines)) \/ Entered(h.csr, Poll(h, lines))
         /\ SameSteering(Poll(h, lines).csr, h.csr)
<1> DEFINE s == Sample(h, lines)
<1>1. HartOK(s) /\ Undisturbed(h, s) /\ SameSteering(s.csr, h.csr)
  BY SampleOK DEF Undisturbed, SameSteering, Steering, Storage, CsrName
<1>2. CASE Poll(h, lines) = s
  BY <1>1, <1>2
<1>3. ASSUME NEW c \in 0 .. 31, Poll(h, lines) = TakeTrap(s, "interrupt", c)
      PROVE  Entered(h.csr, Poll(h, lines)) /\ SameSteering(Poll(h, lines).csr, h.csr)
  <2>1. Entered(s.csr, Poll(h, lines)) /\ SameSteering(Poll(h, lines).csr, s.csr)
    BY <1>1, <1>3, TakeTrapEnters
  <2> QED
    BY <1>1, <2>1 DEF Entered, SameSteering, Steering
<1> QED
  BY <1>2, <1>3, PollCases

-----------------------------------------------------------------------------
(* Raising the mode *)

\* The step relation of RaiseEntersHandler, for an iteration that ends in the hart p.
Raise(p) == p.mode > mode => Entered(csr, p)

LEMMA RetireRaises ==
  ASSUME TypeOK, NEW h, HartOK(h), NEW lines,
         SameSteering(h.csr, csr) \/ (mode # U /\ h.csr["mtvec"] = csr["mtvec"]),
         Raise(h)
  PROVE  Raise(Poll(h, lines))
<1> DEFINE p == Poll(h, lines)
<1>1. Undisturbed(h, p) \/ Entered(h.csr, p)
  BY PollEnters
<1>2. HartOK(p) /\ p.mode \in {U, S, M} /\ mode \in {U, S, M}
  BY PollOK DEF HartOK, HartState, TypeOK
<1> SUFFICES Raise(p)
  OBVIOUS
<1> HIDE DEF p
<1>3. CASE Undisturbed(h, p)
  BY <1>3 DEF Undisturbed, Raise, Entered, Storage, CsrName
<1>4. CASE Entered(h.csr, p) /\ SameSteering(h.csr, csr)
  BY <1>4 DEF Raise, Entered, SameSteering, Steering
<1>5. CASE Entered(h.csr, p) /\ mode # U /\ h.csr["mtvec"] = csr["mtvec"]
  BY <1>2, <1>5 DEF Raise, Entered, U, S, M
<1> QED
  BY <1>1, <1>3, <1>4, <1>5

\* The mode rises only by entering the handler that the higher mode had installed.
THEOREM RaisesEnterHandlers == Spec => RaiseEntersHandler
<1> DEFINE Step == mode' > mode => /\ trap'.kind # "none"
                                   /\ pc' = csr[IF mode' = M THEN "mtvec" ELSE "stvec"] \ {0, 1}
                                   /\ (IF mode' = M THEN MIE ELSE SIE) \notin csr'["mstatus"]
<1>1. TypeOK /\ [Next]_vars => Step
  <2> SUFFICES ASSUME TypeOK, [Next]_vars PROVE Step
    OBVIOUS
  <2>0. HartOK(Cur) /\ Cur.mode = mode /\ Cur.csr = csr /\ mode \in {U, S, M}
    BY CurOK DEF Cur, TypeOK
  <2>1. ASSUME NEW h, Commit(h), Raise(h) PROVE Step
    BY <2>1 DEF Commit, Raise, Entered
  <2>2. ASSUME NEW lines \in DeviceLines, NEW h, HartOK(h), Retire(h, lines), Raise(h),
               SameSteering(h.csr, csr) \/ (mode # U /\ h.csr["mtvec"] = csr["mtvec"])
        PROVE  Step
    BY <2>1, <2>2, RetireRaises DEF Retire
  <2>3. ASSUME NEW kind \in {"exception", "interrupt"}, NEW cause \in 0 .. 31
        PROVE  /\ HartOK(TakeTrap(Cur, kind, cause)) /\ Raise(TakeTrap(Cur, kind, cause))
               /\ SameSteering(TakeTrap(Cur, kind, cause).csr, csr)
    BY <2>0, TakeTrapOK, TakeTrapEnters DEF Raise
  <2>4. ASSUME NEW lines \in DeviceLines, ExecuteOther(lines) PROVE Step
    <3>1. PICK next \in Addr : Retire([Cur EXCEPT !.pc = next], lines)
      BY <2>4 DEF ExecuteOther
    <3>2. HartOK([Cur EXCEPT !.pc = next])
      BY AdvanceOK DEF TypeOK
    <3>3. [Cur EXCEPT !.pc = next].mode = mode /\ [Cur EXCEPT !.pc = next].csr = csr
      BY DEF Cur
    <3>4. Raise([Cur EXCEPT !.pc = next])
      BY <2>0, <3>3 DEF Raise, U, S, M
    <3> QED
      BY <2>2, <3>1, <3>2, <3>3, <3>4 DEF SameSteering
  <2>5. ASSUME NEW lines \in DeviceLines, NEW op \in {"rw", "rs", "rc"}, NEW a \in CsrName, NEW v \in Operand[a],
             ExecuteCsr(op, a, v, lines)
        PROVE  Step
    <3>0. PICK c : CsrWritten(a, v, c, lines)
      BY <2>5, CsrStep
    <3>1. LegalCsr(c) /\ CanAccess(a, mode, TRUE) /\ \E new \in Word : c = CsrWrite(csr, a, new)
      BY <3>0 DEF CsrWritten
    <3>2. PICK next \in Addr : Retire([Cur EXCEPT !.pc = next, !.csr = c], lines)
      BY <3>0 DEF CsrWritten
    <3> DEFINE h == [Cur EXCEPT !.pc = next, !.csr = c]
    <3>3. HartOK(h) /\ h.mode = mode /\ h.csr = c
      BY <3>1, AdvanceOK DEF Cur
    <3>4. mode # U
      BY <3>1 DEF CanAccess, MinPrivilege, ReadOnly, CsrName, U, S, M
    <3>5. mode = M \/ a # "mtvec"
      BY <2>0, <3>1 DEF CanAccess, MinPrivilege, U, S, M
    <3>6. a # "mtvec" => c["mtvec"] = csr["mtvec"]
      BY <3>1 DEF CsrWrite, TypeOK, LegalCsr, Storage, CsrName
    <3>7. Raise(h)
      BY <2>0, <3>3 DEF Raise, U, S, M
    <3>8. CASE mode = M
      <4>1. mode' \in {U, S, M}
        BY TypeInductive DEF TypeOK
      <4> QED
        BY <3>8, <4>1 DEF U, S, M
    <3> HIDE DEF h
    <3> QED
      BY <2>2, <3>2, <3>3, <3>4, <3>5, <3>6, <3>7, <3>8 DEF h
  <2>6. ASSUME NEW lines \in DeviceLines, CsrRefused(lines) PROVE Step
    BY <2>2, <2>3, <2>6 DEF CsrRefused, IllegalInsn
  <2>7. ASSUME NEW lines \in DeviceLines, ExecuteEcall(lines) PROVE Step
    <3>1. EcallFrom(mode) \in 0 .. 31
      BY DEF EcallFrom
    <3> QED
      BY <2>2, <2>3, <2>7, <3>1 DEF ExecuteEcall
  <2>8. ASSUME NEW lines \in DeviceLines, ExecuteEbreak(lines) PROVE Step
    BY <2>2, <2>3, <2>8 DEF ExecuteEbreak, Breakpoint
  <2>9. ASSUME NEW lines \in DeviceLines, ExecuteMret(lines) PROVE Step
    <3>1. mode' \in {U, S, M} /\ mode = M
      BY <2>9, TypeInductive DEF TypeOK, ExecuteMret
    <3> QED
      BY <3>1 DEF U, S, M
  <2>10. ASSUME NEW lines \in DeviceLines, ExecuteSret(lines) PROVE Step
    <3>1. HartOK(Sret(Cur)) /\ SupervisorReturn(Cur, Sret(Cur)) /\ mode # U
      BY <2>0, <2>10, ReturnsOK, ReturnEffect DEF ExecuteSret
    <3>2. SameSteering(Sret(Cur).csr, csr) /\ Sret(Cur).mode \in {U, S}
      BY <2>0, <3>1 DEF SupervisorReturn, SameSteering, Steering, Storage, CsrName
    <3>3. Raise(Sret(Cur))
      BY <2>0, <3>1, <3>2 DEF Raise, U, S, M
    <3> QED
      BY <2>2, <2>10, <3>1, <3>2, <3>3 DEF ExecuteSret
  <2>11. ASSUME NEW lines \in DeviceLines, PrivilegedRefused(lines) PROVE Step
    BY <2>2, <2>3, <2>11 DEF PrivilegedRefused, IllegalInsn
  <2>12. CASE IllegalInstruction
    BY <2>1, <2>3, <2>12 DEF IllegalInstruction, IllegalInsn
  <2>13. CASE PageFault
    BY <2>1, <2>3, <2>13 DEF PageFault, PageFaults
  <2>14. CASE Halt
    BY <2>0, <2>14 DEF Halt, U, S, M
  <2>15. CASE UNCHANGED vars
    BY <2>0, <2>15 DEF vars, U, S, M
  <2> HIDE DEF Step
  <2> QED
    BY <2>4, <2>5, <2>6, <2>7, <2>8, <2>9, <2>10, <2>11, <2>12, <2>13, <2>14, <2>15 DEF Next, Retires
<1>2. TypeOK /\ [Next]_vars => [Step]_vars
  BY <1>1
<1> QED
  BY <1>2, TypeCorrect, PTL DEF Spec, RaiseEntersHandler

-----------------------------------------------------------------------------
(* Confinement of the lower modes *)

\* The step relations of LowerModesAreConfined, for an iteration that ends in p.
Confined(p) ==
  /\ p.mode < M => MachineView(p.csr) = MachineView(csr)
  /\ mode = U /\ p.mode = U => \A a \in Storage \ {"mip"} : p.csr[a] = csr[a]

\* A trap that is handled below M-mode was taken below M-mode, and nothing of M-mode's
\* state changed.
LEMMA TrapConfined ==
  ASSUME NEW h, HartOK(h), NEW kind \in {"exception", "interrupt"}, NEW cause \in 0 .. 31,
         NEW t, t = TakeTrap(h, kind, cause)
  PROVE  /\ t.mode \in {S, M}
         /\ t.mode < M => h.mode < M /\ MachineView(t.csr) = MachineView(h.csr)
<1>1. CASE Delegated(h, kind, cause)
  <2>1. h.mode \in {U, S} /\ t = TrapToS(h, kind, cause)
    BY <1>1 DEF Delegated, TakeTrap, HartOK, HartState, U, S, M
  <2>2. SupervisorTrap(h, t)
    BY <2>1, TrapToSEffect
  <2>3. t.csr["mstatus"] \cap ({MIE, MPIE} \cup MPP) = h.csr["mstatus"] \cap ({MIE, MPIE} \cup MPP)
    BY <2>2 DEF SupervisorTrap, SIE, SPIE, SPP, MIE, MPIE, MPP
  <2>4. \A a \in {"mie", "mideleg", "medeleg", "mtvec", "mepc"} : t.csr[a] = h.csr[a]
    BY <2>2 DEF SupervisorTrap, Storage, CsrName
  <2>5. t.csr["mip"] \cap ({SSI} \ t.csr["mideleg"]) = h.csr["mip"] \cap ({SSI} \ h.csr["mideleg"])
    BY <2>2, <2>4 DEF SupervisorTrap
  <2>6. MachineView(t.csr) = MachineView(h.csr)
    BY <2>3, <2>4, <2>5, Zenon DEF MachineView
  <2>7. t.mode = S
    BY <2>2 DEF SupervisorTrap
  <2> QED
    BY <2>1, <2>6, <2>7 DEF U, S, M
<1>2. CASE ~Delegated(h, kind, cause)
  <2>1. MachineTrap(h, t)
    BY <1>2, TrapToMEffect DEF TakeTrap
  <2>2. t.mode = M
    BY <2>1 DEF MachineTrap
  <2> QED
    BY <2>2 DEF S, M
<1> QED
  BY <1>1, <1>2

LEMMA PollConfined ==
  ASSUME NEW h, HartOK(h), NEW lines, Confined(h)
  PROVE  Confined(Poll(h, lines))
<1> DEFINE s == Sample(h, lines)
<1>1. HartOK(s) /\ Undisturbed(h, s) /\ s.mode \in {U, S, M}
  BY SampleOK DEF Undisturbed, HartOK, HartState
<1>2. MachineView(s.csr) = MachineView(h.csr)
  BY <1>1 DEF Undisturbed, MachineView, Storage, CsrName
<1> HIDE DEF s
<1>3. Confined(s)
  BY <1>1, <1>2 DEF Confined, Undisturbed
<1>4. ASSUME NEW c \in 0 .. 31 PROVE Confined(TakeTrap(s, "interrupt", c))
  <2>1. PICK t : t = TakeTrap(s, "interrupt", c)
    OBVIOUS
  <2>2. /\ t.mode \in {S, M}
        /\ t.mode < M => s.mode < M /\ MachineView(t.csr) = MachineView(s.csr)
    BY <1>1, <2>1, TrapConfined
  <2>3. Confined(t)
    BY <1>3, <2>2 DEF Confined, U, S, M
  <2> QED
    BY <2>1, <2>3
<1> QED
  BY <1>3, <1>4, PollCases DEF s

\* A CSR that code below M-mode may write is not part of M-mode's state.
LEMMA CsrConfined ==
  ASSUME TypeOK, mode < M, NEW a \in CsrName, NEW v, NEW c, NEW lines, CsrWritten(a, v, c, lines)
  PROVE  mode = S /\ MachineView(c) = MachineView(csr)
<1>1. PICK new \in Word : c = CsrWrite(csr, a, new)
  BY DEF CsrWritten
<1>2. mode = S /\ a \in {"sstatus", "sie", "sip", "stvec", "sepc"}
  BY DEF CsrWritten, CanAccess, MinPrivilege, ReadOnly, TypeOK, CsrName, U, S, M
<1>3. csr \in [Storage -> Word]
  BY DEF TypeOK, LegalCsr
<1>4. CASE a = "sstatus"
  <2> DEFINE w == (csr["mstatus"] \ SSTATUS_MASK) \cup (new \cap SSTATUS_MASK)
  <2>1. w \cap ({MIE, MPIE} \cup MPP) = csr["mstatus"] \cap ({MIE, MPIE} \cup MPP)
    BY DEF SSTATUS_MASK, SIE, SPIE, SPP, MIE, MPIE, MPP
  <2>2. c = [csr EXCEPT !["mstatus"] = w]
    BY <1>1, <1>4 DEF CsrWrite
  <2> HIDE DEF w
  <2> QED
    BY <1>2, <1>3, <2>1, <2>2 DEF MachineView, Storage, CsrName
<1>5. CASE a = "sie"
  <2>1. c = [csr EXCEPT !["mie"] = (csr["mie"] \ csr["mideleg"]) \cup (new \cap csr["mideleg"])]
    BY <1>1, <1>5 DEF CsrWrite
  <2>2. c["mie"] \ c["mideleg"] = csr["mie"] \ csr["mideleg"]
    BY <1>3, <2>1 DEF Storage, CsrName
  <2> QED
    BY <1>2, <1>3, <2>1, <2>2 DEF MachineView, Storage, CsrName
<1>6. CASE a = "sip"
  <2> DEFINE writable == csr["mideleg"] \cap SoftWritable
  <2>1. c = [csr EXCEPT !["mip"] = (csr["mip"] \ writable) \cup (new \cap writable)]
    BY <1>1, <1>6 DEF CsrWrite
  <2>2. c["mip"] \cap ({SSI} \ c["mideleg"]) = csr["mip"] \cap ({SSI} \ csr["mideleg"])
    BY <1>3, <2>1 DEF Storage, CsrName
  <2> QED
    BY <1>2, <1>3, <2>1, <2>2 DEF MachineView, Storage, CsrName
<1>7. CASE a \in {"stvec", "sepc"}
  BY <1>1, <1>2, <1>3, <1>7 DEF CsrWrite, MachineView, Storage, CsrName
<1> QED
  BY <1>2, <1>4, <1>5, <1>6, <1>7

\* Code below M-mode changes nothing that M-mode relies on, and U-mode code no CSR.
THEOREM LowerModesConfined == Spec => LowerModesAreConfined
<1> DEFINE Step == /\ mode < M /\ mode' < M => MachineView(csr') = MachineView(csr)
                   /\ mode = U /\ mode' = U => \A a \in Storage \ {"mip"} : csr'[a] = csr[a]
<1>1. TypeOK /\ [Next]_vars => Step
  <2> SUFFICES ASSUME TypeOK, [Next]_vars, mode < M PROVE Step
    BY DEF U, M
  <2>0. HartOK(Cur) /\ Cur.mode = mode /\ Cur.csr = csr /\ mode \in {U, S}
    BY CurOK DEF Cur, TypeOK, U, S, M
  <2>1. ASSUME NEW h, Commit(h), Confined(h) PROVE Step
    BY <2>1 DEF Commit, Confined
  <2>2. ASSUME NEW lines \in DeviceLines, NEW h, HartOK(h), Retire(h, lines), Confined(h) PROVE Step
    BY <2>1, <2>2, PollConfined DEF Retire
  <2>3. ASSUME NEW kind \in {"exception", "interrupt"}, NEW cause \in 0 .. 31
        PROVE  HartOK(TakeTrap(Cur, kind, cause)) /\ Confined(TakeTrap(Cur, kind, cause))
    <3>1. PICK t : t = TakeTrap(Cur, kind, cause)
      OBVIOUS
    <3>2. /\ t.mode \in {S, M}
          /\ t.mode < M => MachineView(t.csr) = MachineView(csr)
      BY <2>0, <3>1, TrapConfined
    <3>3. Confined(t)
      BY <3>2 DEF Confined, U, S, M
    <3> QED
      BY <2>0, <3>1, <3>3, TakeTrapOK
  <2>4. ASSUME NEW lines \in DeviceLines, ExecuteOther(lines) PROVE Step
    <3>1. PICK next \in Addr : Retire([Cur EXCEPT !.pc = next], lines)
      BY <2>4 DEF ExecuteOther
    <3> DEFINE h == [Cur EXCEPT !.pc = next]
    <3>2. HartOK(h)
      BY AdvanceOK DEF TypeOK
    <3>3. h.csr = csr
      BY DEF Cur
    <3> HIDE DEF h
    <3>4. Confined(h)
      BY <3>3 DEF Confined
    <3> QED
      BY <2>2, <3>1, <3>2, <3>4 DEF h
  <2>5. ASSUME NEW lines \in DeviceLines, NEW op \in {"rw", "rs", "rc"}, NEW a \in CsrName, NEW v \in Operand[a],
             ExecuteCsr(op, a, v, lines)
        PROVE  Step
    <3>1. PICK c : CsrWritten(a, v, c, lines)
      BY <2>5, CsrStep
    <3>2. mode = S /\ MachineView(c) = MachineView(csr)
      BY <3>1, CsrConfined
    <3>3. PICK next \in Addr : Retire([Cur EXCEPT !.pc = next, !.csr = c], lines)
      BY <3>1 DEF CsrWritten
    <3> DEFINE h == [Cur EXCEPT !.pc = next, !.csr = c]
    <3>4. HartOK(h) /\ h.csr = c
      BY <3>1, AdvanceOK DEF CsrWritten, Cur
    <3> HIDE DEF h
    <3>5. Confined(h)
      BY <3>2, <3>4 DEF Confined, U, S
    <3> QED
      BY <2>2, <3>3, <3>4, <3>5 DEF h
  <2>6. ASSUME NEW lines \in DeviceLines, CsrRefused(lines) PROVE Step
    BY <2>2, <2>3, <2>6 DEF CsrRefused, IllegalInsn
  <2>7. ASSUME NEW lines \in DeviceLines, ExecuteEcall(lines) PROVE Step
    <3>1. EcallFrom(mode) \in 0 .. 31
      BY DEF EcallFrom
    <3> QED
      BY <2>2, <2>3, <2>7, <3>1 DEF ExecuteEcall
  <2>8. ASSUME NEW lines \in DeviceLines, ExecuteEbreak(lines) PROVE Step
    BY <2>2, <2>3, <2>8 DEF ExecuteEbreak, Breakpoint
  <2>9. ASSUME NEW lines \in DeviceLines, ExecuteMret(lines) PROVE Step
    BY <2>9 DEF ExecuteMret, M
  <2>10. ASSUME NEW lines \in DeviceLines, ExecuteSret(lines) PROVE Step
    <3>1. HartOK(Sret(Cur)) /\ SupervisorReturn(Cur, Sret(Cur)) /\ mode # U
      BY <2>0, <2>10, ReturnsOK, ReturnEffect DEF ExecuteSret
    <3>2. PICK r : r = Sret(Cur)
      OBVIOUS
    <3>3. r.csr["mstatus"] \cap ({MIE, MPIE} \cup MPP) = csr["mstatus"] \cap ({MIE, MPIE} \cup MPP)
      BY <2>0, <3>1, <3>2 DEF SupervisorReturn, SIE, SPIE, SPP, MIE, MPIE, MPP
    <3>4. \A a \in Storage \ {"mstatus"} : r.csr[a] = csr[a]
      BY <2>0, <3>1, <3>2 DEF SupervisorReturn
    <3>5. /\ r.csr["mie"] = csr["mie"] /\ r.csr["mip"] = csr["mip"]
          /\ r.csr["mideleg"] = csr["mideleg"] /\ r.csr["medeleg"] = csr["medeleg"]
          /\ r.csr["mtvec"] = csr["mtvec"] /\ r.csr["mepc"] = csr["mepc"]
      BY <3>4 DEF Storage, CsrName
    <3>6. MachineView(r.csr) = MachineView(csr)
      BY <3>3, <3>5, Zenon DEF MachineView
    <3>7. Confined(r)
      BY <3>1, <3>2, <3>6, Zenon DEF Confined
    <3> QED
      BY <2>2, <2>10, <3>1, <3>2, <3>7 DEF ExecuteSret
  <2>11. ASSUME NEW lines \in DeviceLines, PrivilegedRefused(lines) PROVE Step
    BY <2>2, <2>3, <2>11 DEF PrivilegedRefused, IllegalInsn
  <2>12. CASE IllegalInstruction
    BY <2>1, <2>3, <2>12 DEF IllegalInstruction, IllegalInsn
  <2>13. CASE PageFault
    BY <2>1, <2>3, <2>13 DEF PageFault, PageFaults
  <2>14. CASE Halt
    BY <2>14 DEF Halt
  <2>15. CASE UNCHANGED vars
    BY <2>15 DEF vars
  <2> HIDE DEF Step
  <2> QED
    BY <2>4, <2>5, <2>6, <2>7, <2>8, <2>9, <2>10, <2>11, <2>12, <2>13, <2>14, <2>15 DEF Next, Retires
<1>2. TypeOK /\ [Next]_vars => [Step]_vars
  BY <1>1
<1> QED
  BY <1>2, TypeCorrect, PTL DEF Spec, LowerModesAreConfined

-----------------------------------------------------------------------------
(* Interrupts strike only where they are enabled *)

\* InterruptWasEnabled for an iteration that ends in the hart p.
Left(p) == IF p.mode = M THEN ModeOf(p.csr["mstatus"] \cap MPP)
                         ELSE IF SPP \in p.csr["mstatus"] THEN S ELSE U
Allowed(p) ==
  p.trap.kind = "interrupt" =>
    /\ p.trap.cause \in p.csr["mie"]
    /\ p.trap.cause \in MachineInterrupts => (Left(p) = M => MPIE \in p.csr["mstatus"])
    /\ p.trap.cause \in SupervisorInterrupts =>
         \/ Left(p) = U
         \/ Left(p) = S /\ (IF p.mode = M THEN SIE ELSE SPIE) \in p.csr["mstatus"]

LEMMA PollAllowed ==
  ASSUME NEW h, HartOK(h), NEW lines, h.trap.kind # "interrupt"
  PROVE  Allowed(Poll(h, lines))
<1> DEFINE s == Sample(h, lines)
<1>1. HartOK(s) /\ s.trap = h.trap /\ s.mode \in {U, S, M}
  BY SampleOK DEF HartOK, HartState
<1> HIDE DEF s
<1>2. Allowed(s)
  BY <1>1 DEF Allowed
<1>3. ASSUME NEW c \in 0 .. 31, c \in Eligible(s) PROVE Allowed(TakeTrap(s, "interrupt", c))
  <2>1. PICK t : t = TakeTrap(s, "interrupt", c)
    OBVIOUS
  <2>2. t.csr["mie"] = s.csr["mie"] /\ t.trap.cause = c
    BY <1>1, <2>1, TakeTrapEnters DEF SameSteering, Steering, TakeTrap, TrapToS, TrapToM
  <2>3. /\ c \in s.csr["mie"]
        /\ c \in MachineInterrupts => (s.mode = M => MIE \in s.csr["mstatus"])
        /\ c \in SupervisorInterrupts => s.mode = U \/ (s.mode = S /\ SIE \in s.csr["mstatus"])
    BY <1>1, <1>3 DEF Eligible, MachineEnabled, SupervisorEnabled, MachineInterrupts, SupervisorInterrupts,
         SSI, STI, SEI, MSI, MTI, MEI, U, S, M
  <2>4. CASE Delegated(s, "interrupt", c)
    <3>1. s.mode \in {U, S} /\ t = TrapToS(s, "interrupt", c)
      BY <1>1, <2>1, <2>4 DEF Delegated, TakeTrap, U, S, M
    <3>2. SupervisorTrap(s, t)
      BY <1>1, <3>1, TrapToSEffect
    <3>3. Left(t) = s.mode /\ t.mode = S /\ (SPIE \in t.csr["mstatus"] <=> SIE \in s.csr["mstatus"])
      BY <3>1, <3>2 DEF SupervisorTrap, Left, U, S, M
    <3> QED
      BY <2>1, <2>2, <2>3, <3>1, <3>3 DEF Allowed, U, S, M
  <2>5. CASE ~Delegated(s, "interrupt", c)
    <3>1. MachineTrap(s, t)
      BY <1>1, <2>1, <2>5, TrapToMEffect DEF TakeTrap
    <3>2. Left(t) = s.mode /\ t.mode = M
      BY <1>1, <3>1 DEF MachineTrap, Left, PrivilegeBits, ModeOf, MPP, U, S, M
    <3>3. /\ MPIE \in t.csr["mstatus"] <=> MIE \in s.csr["mstatus"]
          /\ SIE \in t.csr["mstatus"] <=> SIE \in s.csr["mstatus"]
      BY <3>1 DEF MachineTrap, SIE, MIE, MPIE, MPP
    <3> QED
      BY <2>1, <2>2, <2>3, <3>2, <3>3 DEF Allowed
  <2> QED
    BY <2>4, <2>5
<1> QED
  BY <1>2, <1>3, PollCases DEF s

\* Whatever software writes to the CSRs, an interrupt was enabled in mie and, for its level,
\* in the mode that it left; a machine-level one needs no enable bit below M-mode, also when
\* mideleg hands it to S-mode.
EnabledInv == TypeOK /\ InterruptWasEnabled

THEOREM OnlyEnabledInterrupts == Spec => []InterruptWasEnabled
<1>1. Init => EnabledInv
  <2>1. Init => InterruptWasEnabled
    BY DEF Init, InterruptWasEnabled, NoTrap
  <2> QED
    BY <2>1, InitOK DEF EnabledInv
<1>2. EnabledInv /\ [Next]_vars => InterruptWasEnabled'
  <2> SUFFICES ASSUME EnabledInv, [Next]_vars PROVE InterruptWasEnabled'
    OBVIOUS
  <2>0. TypeOK /\ HartOK(Cur) /\ Cur.trap.kind = "none"
    BY CurOK DEF EnabledInv, Cur, NoTrap
  <2>1. ASSUME NEW h, Commit(h), Allowed(h) PROVE InterruptWasEnabled'
    <3>1. mode' = h.mode /\ csr' = h.csr /\ trap' = h.trap
      BY <2>1 DEF Commit
    <3>2. ModeLeft' = Left(h)
      BY <3>1 DEF ModeLeft, Left
    <3> QED
      BY <2>1, <3>1, <3>2 DEF Allowed, InterruptWasEnabled
  <2>2. ASSUME NEW lines \in DeviceLines, NEW h, HartOK(h), Retire(h, lines), h.trap.kind # "interrupt"
        PROVE  InterruptWasEnabled'
    BY <2>1, <2>2, PollAllowed DEF Retire
  <2>3. ASSUME NEW cause \in 0 .. 31
        PROVE  /\ HartOK(TakeTrap(Cur, "exception", cause))
               /\ TakeTrap(Cur, "exception", cause).trap.kind = "exception"
    BY <2>0, TakeTrapOK DEF TakeTrap, TrapToS, TrapToM
  <2>4. ASSUME NEW lines \in DeviceLines, ExecuteOther(lines) PROVE InterruptWasEnabled'
    <3>1. PICK next \in Addr : Retire([Cur EXCEPT !.pc = next], lines)
      BY <2>4 DEF ExecuteOther
    <3> DEFINE h == [Cur EXCEPT !.pc = next]
    <3>2. HartOK(h) /\ h.trap.kind = "none"
      BY <2>0, AdvanceOK DEF TypeOK, Cur, NoTrap
    <3> HIDE DEF h
    <3> QED
      BY <2>2, <3>1, <3>2 DEF h
  <2>5. ASSUME NEW lines \in DeviceLines, NEW op \in {"rw", "rs", "rc"}, NEW a \in CsrName, NEW v \in Operand[a],
             ExecuteCsr(op, a, v, lines)
        PROVE  InterruptWasEnabled'
    <3>1. PICK c : CsrWritten(a, v, c, lines)
      BY <2>0, <2>5, CsrStep
    <3>2. PICK next \in Addr : Retire([Cur EXCEPT !.pc = next, !.csr = c], lines)
      BY <3>1 DEF CsrWritten
    <3> DEFINE h == [Cur EXCEPT !.pc = next, !.csr = c]
    <3>3. HartOK(h) /\ h.trap.kind = "none"
      BY <2>0, <3>1, AdvanceOK DEF CsrWritten, Cur, NoTrap
    <3> HIDE DEF h
    <3> QED
      BY <2>2, <3>2, <3>3 DEF h
  <2>6. ASSUME NEW lines \in DeviceLines, CsrRefused(lines) PROVE InterruptWasEnabled'
    BY <2>2, <2>3, <2>6 DEF CsrRefused, IllegalInsn
  <2>7. ASSUME NEW lines \in DeviceLines, ExecuteEcall(lines) PROVE InterruptWasEnabled'
    <3>1. EcallFrom(mode) \in 0 .. 31
      BY DEF EcallFrom
    <3> QED
      BY <2>2, <2>3, <2>7, <3>1 DEF ExecuteEcall
  <2>8. ASSUME NEW lines \in DeviceLines, ExecuteEbreak(lines) PROVE InterruptWasEnabled'
    BY <2>2, <2>3, <2>8 DEF ExecuteEbreak, Breakpoint
  <2>r. ASSUME NEW lines \in DeviceLines, NEW r \in {Sret(Cur), Mret(Cur)}, Retire(r, lines)
        PROVE  InterruptWasEnabled'
    <3>1. HartOK(r) /\ (SupervisorReturn(Cur, r) \/ MachineReturn(Cur, r))
      BY <2>0, ReturnsOK, ReturnEffect
    <3>2. r.trap.kind = "none"
      BY <2>0, <3>1 DEF SupervisorReturn, MachineReturn
    <3> QED
      BY <2>2, <2>r, <3>1, <3>2
  <2>9. ASSUME NEW lines \in DeviceLines, ExecuteMret(lines) PROVE InterruptWasEnabled'
    BY <2>9, <2>r DEF ExecuteMret
  <2>10. ASSUME NEW lines \in DeviceLines, ExecuteSret(lines) PROVE InterruptWasEnabled'
    BY <2>10, <2>r DEF ExecuteSret
  <2>11. ASSUME NEW lines \in DeviceLines, PrivilegedRefused(lines) PROVE InterruptWasEnabled'
    BY <2>2, <2>3, <2>11 DEF PrivilegedRefused, IllegalInsn
  <2>12. CASE IllegalInstruction
    BY <2>1, <2>3, <2>12 DEF IllegalInstruction, IllegalInsn, Allowed
  <2>13. CASE PageFault
    BY <2>1, <2>3, <2>13 DEF PageFault, PageFaults, Allowed
  <2>14. CASE Halt
    BY <2>14 DEF Halt, InterruptWasEnabled, NoTrap
  <2>15. CASE UNCHANGED vars
    BY <2>15 DEF vars, InterruptWasEnabled, ModeLeft, EnabledInv
  <2> QED
    BY <2>4, <2>5, <2>6, <2>7, <2>8, <2>9, <2>10, <2>11, <2>12, <2>13, <2>14, <2>15 DEF Next, Retires
<1>3. EnabledInv /\ [Next]_vars => EnabledInv'
  BY <1>2, TypeInductive DEF EnabledInv
<1>4. EnabledInv => InterruptWasEnabled
  BY DEF EnabledInv
<1> QED
  BY <1>1, <1>3, <1>4, PTL DEF Spec

-----------------------------------------------------------------------------
(* The platform's hart is Hart *)

LEMMA LinesAllowed ==
  ASSUME NEW t, NEW c, NEW u
  PROVE  Lines(t, c, u) \in DeviceLines
BY AllLinesAssumption DEF Lines, Timers

\* An iteration that ticks and polls is one of Hart's, with the lines that the devices
\* hold after it.
LEMMA TicksRetire ==
  ASSUME \/ OtherInstruction \/ ProgramBegins \/ ProgramHigh \/ ProgramLow
         \/ ReadTimeBegins \/ ReadTimeLow \/ ReadTimeCheck \/ UartAccess
  PROVE  mtime' = mtime + 1 /\ Retires(Lines(mtime', compare', uart'))
<1>1. Access => mtime' = mtime + 1 /\ Retires(Lines(mtime', compare', uart'))
  BY DEF Access, Tick, Ticked, Retires
<1>2. OtherInstruction => mtime' = mtime + 1 /\ Retires(Lines(mtime', compare', uart'))
  <2> SUFFICES ASSUME OtherInstruction
               PROVE  mtime' = mtime + 1 /\ Retires(Lines(mtime', compare', uart'))
    OBVIOUS
  <2>1. compare' = compare /\ uart' = uart /\ Retires(Lines(mtime', compare, uart))
    BY DEF OtherInstruction
  <2>2. Lines(mtime', compare', uart') = Lines(mtime', compare, uart)
    BY <2>1
  <2> QED
    BY <2>1, <2>2 DEF OtherInstruction, Tick, Ticked
<1> QED
  BY <1>1, <1>2 DEF ProgramBegins, ProgramHigh, ProgramLow, ReadTimeBegins, ReadTimeLow,
                    ReadTimeCheck, UartAccess

Ticking == mtime' = mtime + 1 /\ Retires(Lines(mtime', compare', uart'))

LEMMA StepKinds ==
  ASSUME [PlatformNext]_platformVars
  PROVE  \/ Ticking
         \/ UNCHANGED devices /\ (IllegalInstruction \/ PageFault \/ Halt)
         \/ KeyArrives
         \/ UNCHANGED platformVars
BY TicksRetire DEF PlatformNext, Ticking, NoTick

LEMMA StepIsHart == [PlatformNext]_platformVars => [Next]_vars
<1> SUFFICES ASSUME [PlatformNext]_platformVars PROVE [Next]_vars
  OBVIOUS
<1>1. CASE Ticking
  BY <1>1, LinesAllowed DEF Ticking, Next
<1>2. CASE IllegalInstruction \/ PageFault \/ Halt
  BY <1>2 DEF Next
<1>3. CASE KeyArrives \/ UNCHANGED platformVars
  BY <1>3 DEF KeyArrives, platformVars
<1> QED
  BY <1>1, <1>2, <1>3, StepKinds

\* The devices only choose the lines that Hart's polls find: every theorem about Hart
\* above holds of the platform.
THEOREM PlatformImplementsHart == PlatformSpec => Spec
<1>1. PlatformInit => Init
  BY DEF PlatformInit
<1> QED
  BY <1>1, StepIsHart, PTL DEF PlatformSpec, Spec

-----------------------------------------------------------------------------
(* Where an iteration leaves mip *)

\* What takeTrap leaves in mip, where it leads and what it records: an exception leaves
\* mip alone, an interrupt may write its own bit.
LEMMA TrapMip ==
  ASSUME NEW h, HartOK(h), NEW kind \in {"exception", "interrupt"}, NEW cause \in 0 .. 31,
         NEW t, t = TakeTrap(h, kind, cause)
  PROVE  /\ t.csr["mip"] \subseteq h.csr["mip"] \cup (IF kind = "interrupt" THEN {cause} ELSE {})
         /\ t.trap = [kind |-> kind, cause |-> cause]
         /\ t.mode \in {S, M}
<1>0. h.csr \in [Storage -> Word] /\ h.pc \in Word
  BY DEF HartOK, LegalCsr, HartState
<1>2. CASE ~Delegated(h, kind, cause)
  <2>1. t = TrapToM(h, kind, cause)
    BY <1>2 DEF TakeTrap
  <2>2. MachineTrap(h, TrapToM(h, kind, cause))
    BY TrapToMEffect
  <2>3. t.csr["mip"] = h.csr["mip"] /\ t.mode = M
    BY <2>1, <2>2 DEF MachineTrap, Storage, CsrName
  <2>4. t.trap = [kind |-> kind, cause |-> cause]
    BY <2>1 DEF TrapToM
  <2> QED
    BY <2>3, <2>4
<1>3. CASE Delegated(h, kind, cause)
  <2> DEFINE acked == IF kind = "interrupt" THEN CsrWrite(h.csr, "sip", {cause}) ELSE h.csr
             saved == CsrWrite(acked, "sepc", h.pc)
             v     == Copy(CsrRead(saved, "sstatus"), SIE, SPIE) \ {SIE, SPP}
             w     == v \cup (IF h.mode = S THEN {SPP} ELSE {})
             n     == (saved["mstatus"] \ SSTATUS_MASK) \cup (w \cap SSTATUS_MASK)
  <2>1. t = [mode |-> S, pc |-> saved["stvec"] \ {0, 1}, csr |-> [saved EXCEPT !["mstatus"] = n],
             trap |-> [kind |-> kind, cause |-> cause]]
    BY <1>3 DEF TakeTrap, TrapToS, CsrWrite
  <2>2. acked \in [Storage -> Word]
    BY <1>0 DEF CsrWrite, Storage, CsrName, Word, SoftWritable, SSI, STI, SEI
  <2>3. acked["mip"] \subseteq h.csr["mip"] \cup (IF kind = "interrupt" THEN {cause} ELSE {})
    BY <1>0 DEF CsrWrite, Storage, CsrName
  <2>4. saved = [acked EXCEPT !["sepc"] = h.pc]
    BY DEF CsrWrite
  <2> HIDE DEF acked, saved, n
  <2>5. saved \in [Storage -> Word] /\ saved["mip"] = acked["mip"]
    BY <1>0, <2>2, <2>4 DEF Storage, CsrName
  <2>6. t.csr["mip"] = saved["mip"]
    BY <2>1, <2>5 DEF Storage, CsrName
  <2> QED
    BY <2>1, <2>3, <2>5, <2>6
<1> QED
  BY <1>2, <1>3

LineOf(c) == CASE c = MTI -> "mtimer" [] c = STI -> "stimer" [] OTHER -> "uart"

\* Where a poll that finds `lines` leaves the hart: a device's bit in mip, and an entered
\* interrupt of a device, have their line; and U-mode goes on only when no timer
\* interrupt of M-mode is pending and enabled.
Polled(lines) ==
  /\ \A c \in {MTI, STI, SEI, MEI} : c \in csr'["mip"] => LineOf(c) \in lines
  /\ trap'.kind = "interrupt" /\ trap'.cause \in {MTI, STI, SEI, MEI} => LineOf(trap'.cause) \in lines
  /\ mode' = U /\ MTI \in csr'["mie"] => "mtimer" \notin lines

LEMMA RetirePolls ==
  ASSUME NEW h, HartOK(h), h.trap.kind # "interrupt", NEW lines, Retire(h, lines)
  PROVE  Polled(lines)
<1> DEFINE s == Sample(h, lines)
<1>0. HartOK(s) /\ s.trap = h.trap
  BY SampleOK
<1>1. h.csr \in [Storage -> Word] /\ "mip" \in Storage
  BY DEF HartOK, LegalCsr, Storage, CsrName
<1>2. s.csr["mip"] = (h.csr["mip"] \ {MTI, STI, MEI, SEI}) \cup LineBits(lines)
  BY <1>1 DEF Sample, HartOK, HartState
<1>3. \A c \in {MTI, STI, SEI, MEI} : c \in s.csr["mip"] => LineOf(c) \in lines
  BY <1>2 DEF LineBits, LineOf, MTI, STI, SEI, MEI
<1>4. "mtimer" \in lines => MTI \in s.csr["mip"]
  BY <1>2 DEF LineBits
<1>5. Commit(Poll(h, lines))
  BY DEF Retire
<1> HIDE DEF s
<1>6. CASE Eligible(s) = {} /\ Poll(h, lines) = s
  <2>1. mode' = s.mode /\ csr' = s.csr /\ trap' = s.trap
    BY <1>5, <1>6 DEF Commit
  <2>2. s.mode = U /\ MTI \in s.csr["mie"] => MTI \notin s.csr["mip"]
    BY <1>6 DEF Eligible, MachineInterrupts, MachineEnabled, U, M
  <2> QED
    BY <1>0, <1>3, <1>4, <2>1, <2>2 DEF Polled
<1>7. ASSUME Chosen(s) \in Eligible(s), Chosen(s) \in 0 .. 31,
             Poll(h, lines) = TakeTrap(s, "interrupt", Chosen(s))
      PROVE  Polled(lines)
  <2>1. PICK c \in 0 .. 31 : c = Chosen(s)
    BY <1>7
  <2>2. c \in s.csr["mip"]
    BY <1>7, <2>1 DEF Eligible
  <2>3. PICK t : t = TakeTrap(s, "interrupt", c)
    OBVIOUS
  <2>4. /\ t.csr["mip"] \subseteq s.csr["mip"] /\ t.mode \in {S, M}
        /\ t.trap = [kind |-> "interrupt", cause |-> c]
    <3>1. t.csr["mip"] \subseteq s.csr["mip"] \cup {c}
      BY <1>0, <2>3, TrapMip
    <3> QED
      BY <1>0, <2>2, <2>3, <3>1, TrapMip
  <2>5. mode' = t.mode /\ csr' = t.csr /\ trap' = t.trap
    BY <1>5, <1>7, <2>1, <2>3 DEF Commit
  <2>6. mode' # U /\ trap'.cause = c
    BY <2>4, <2>5 DEF U, S, M
  <2> QED
    BY <1>3, <2>2, <2>4, <2>5, <2>6 DEF Polled
<1> QED
  BY <1>6, <1>7, PollCases DEF s

\* Every iteration that ends with a poll is one of RetirePolls.
LEMMA RetiresPoll ==
  ASSUME TypeOK, NEW lines \in DeviceLines, Retires(lines)
  PROVE  Polled(lines)
<1>0. HartOK(Cur) /\ Cur.trap.kind = "none"
  BY CurOK DEF Cur, NoTrap
<1>1. \A cause \in 0 .. 31 : LET t == TakeTrap(Cur, "exception", cause)
                             IN  HartOK(t) /\ t.trap.kind = "exception"
  <2> TAKE cause \in 0 .. 31
  <2>1. HartOK(TakeTrap(Cur, "exception", cause))
    BY <1>0, TakeTrapOK
  <2>2. PICK t : t = TakeTrap(Cur, "exception", cause)
    OBVIOUS
  <2>3. t.trap = [kind |-> "exception", cause |-> cause]
    BY <1>0, <2>2, TrapMip
  <2> QED
    BY <2>1, <2>2, <2>3
<1>2. \A next \in Addr : \A c : LegalCsr(c) =>
        /\ HartOK([Cur EXCEPT !.pc = next]) /\ [Cur EXCEPT !.pc = next].trap.kind = "none"
        /\ HartOK([Cur EXCEPT !.pc = next, !.csr = c])
        /\ [Cur EXCEPT !.pc = next, !.csr = c].trap.kind = "none"
  BY AdvanceOK DEF Cur, NoTrap
<1>3. LegalCsr(csr)
  BY DEF TypeOK
<1>4. CASE ExecuteOther(lines)
  BY <1>2, <1>3, <1>4, RetirePolls DEF ExecuteOther
<1>5. ASSUME NEW op \in {"rw", "rs", "rc"}, NEW a \in CsrName, NEW v \in Operand[a],
             ExecuteCsr(op, a, v, lines)
      PROVE  Polled(lines)
  <2>1. PICK c : CsrWritten(a, v, c, lines)
    BY <1>5, CsrStep
  <2> QED
    BY <1>2, <2>1, RetirePolls DEF CsrWritten
<1>6. CASE CsrRefused(lines) \/ PrivilegedRefused(lines)
  BY <1>1, <1>6, RetirePolls DEF CsrRefused, PrivilegedRefused, IllegalInsn
<1>7. CASE ExecuteEcall(lines)
  <2>1. EcallFrom(mode) \in 0 .. 31
    BY DEF EcallFrom
  <2> QED
    BY <1>1, <1>7, <2>1, RetirePolls DEF ExecuteEcall
<1>8. CASE ExecuteEbreak(lines)
  BY <1>1, <1>8, RetirePolls DEF ExecuteEbreak, Breakpoint
<1>9. CASE ExecuteMret(lines)
  <2>1. HartOK(Mret(Cur)) /\ Mret(Cur).trap.kind = "none"
    BY <1>0, ReturnsOK, ReturnEffect DEF MachineReturn
  <2> QED
    BY <1>9, <2>1, RetirePolls DEF ExecuteMret
<1>10. CASE ExecuteSret(lines)
  <2>1. HartOK(Sret(Cur)) /\ Sret(Cur).trap.kind = "none"
    BY <1>0, ReturnsOK, ReturnEffect DEF SupervisorReturn
  <2> QED
    BY <1>10, <2>1, RetirePolls DEF ExecuteSret
<1> QED
  BY <1>4, <1>5, <1>6, <1>7, <1>8, <1>9, <1>10 DEF Retires

\* An iteration without a poll traps by an exception, or is the last one.
LEMMA NoPollStep ==
  ASSUME TypeOK, IllegalInstruction \/ PageFault \/ Halt
  PROVE  /\ csr'["mip"] \subseteq csr["mip"] /\ trap'.kind # "interrupt"
         /\ mode' # U \/ ~running'
<1>0. HartOK(Cur) /\ Cur.csr = csr
  BY CurOK DEF Cur
<1>1. CASE Halt
  BY <1>1 DEF Halt, NoTrap
<1>2. CASE IllegalInstruction \/ PageFault
  <2>1. PICK cause \in 0 .. 31 : Commit(TakeTrap(Cur, "exception", cause))
    BY <1>2 DEF IllegalInstruction, PageFault, IllegalInsn, PageFaults
  <2>2. PICK t : t = TakeTrap(Cur, "exception", cause)
    OBVIOUS
  <2>3. /\ t.csr["mip"] \subseteq csr["mip"] /\ t.mode \in {S, M}
        /\ t.trap = [kind |-> "exception", cause |-> cause]
    <3>1. "exception" \in {"exception", "interrupt"}
      OBVIOUS
    <3>2. /\ TakeTrap(Cur, "exception", cause).csr["mip"] \subseteq Cur.csr["mip"]
          /\ TakeTrap(Cur, "exception", cause).mode \in {S, M}
          /\ TakeTrap(Cur, "exception", cause).trap = [kind |-> "exception", cause |-> cause]
      BY <1>0, <3>1, TrapMip
    <3> QED
      BY <1>0, <2>2, <3>2
  <2> QED
    BY <2>1, <2>2, <2>3 DEF Commit, U, S, M
<1> QED
  BY <1>1, <1>2

-----------------------------------------------------------------------------
(* Registers in two halves *)

LEMMA TimeIsNat == Time \subseteq Nat /\ \A t \in Nat : t \in Time <=> t <= Half * Half - 1
<1>1. Half * Half \in Nat
  BY HalfAssumption
<1> QED
  BY <1>1 DEF Time

\* A time is its halves.
LEMMA Halves ==
  ASSUME NEW t \in Time
  PROVE  /\ Low(t) \in 0 .. Half - 1 /\ High(t) \in 0 .. Half - 1
         /\ t = High(t) * Half + Low(t)
<1>1. t \in Nat /\ t <= Half * Half - 1
  BY TimeIsNat
<1>2. t \div Half <= Half - 1
  BY <1>1, HalfAssumption
<1> QED
  BY <1>1, <1>2, HalfAssumption DEF Low, High

\* Two halves are those of the time they make up.
LEMMA Joined ==
  ASSUME NEW q \in 0 .. Half - 1, NEW r \in 0 .. Half - 1
  PROVE  /\ q * Half + r \in Time
         /\ High(q * Half + r) = q /\ Low(q * Half + r) = r
<1>1. q * Half + r \in Nat /\ q * Half + r <= (Half - 1) * Half + Half - 1
  BY HalfAssumption
<1>2. (Half - 1) * Half + Half - 1 = Half * Half - 1
  BY HalfAssumption
<1>3. q * Half + r \in Time
  BY <1>1, <1>2, TimeIsNat
<1> QED
  BY <1>3, HalfAssumption DEF High, Low

LEMMA HighIsMonotone ==
  ASSUME NEW t \in Time, NEW u \in Time, t <= u
  PROVE  High(t) <= High(u)
BY TimeIsNat, HalfAssumption DEF High

\* What the stores to the halves leave.
LEMMA Stored ==
  ASSUME NEW t \in Time, NEW v \in 0 .. Half - 1
  PROVE  /\ WithLow(t, v) \in Time /\ High(WithLow(t, v)) = High(t) /\ Low(WithLow(t, v)) = v
         /\ WithHigh(t, v) \in Time /\ High(WithHigh(t, v)) = v /\ Low(WithHigh(t, v)) = Low(t)
BY Halves, Joined DEF WithLow, WithHigh

\* The low half of all ones makes the deadline no earlier.
LEMMA AllOnes ==
  ASSUME NEW t \in Time
  PROVE  /\ Half - 1 \in 0 .. Half - 1
         /\ WithLow(t, Half - 1) \in Time /\ t <= WithLow(t, Half - 1)
<1>1. Half - 1 \in 0 .. Half - 1
  BY HalfAssumption
<1>2. t = High(t) * Half + Low(t) /\ Low(t) \in 0 .. Half - 1 /\ High(t) \in 0 .. Half - 1
  BY Halves
<1>3. WithLow(t, Half - 1) = High(t) * Half + (Half - 1)
  BY DEF WithLow
<1>4. High(t) * Half \in Nat
  BY <1>2, HalfAssumption
<1> QED
  BY <1>1, <1>2, <1>3, <1>4, Stored, HalfAssumption

\* The guest's three stores lead from any deadline, through u's high half with a low half
\* of all ones, to u.
LEMMA ThreeStores ==
  ASSUME NEW t \in Time, NEW u \in Time
  PROVE  /\ WithHigh(WithLow(t, Half - 1), High(u)) = WithLow(u, Half - 1)
         /\ WithLow(WithLow(u, Half - 1), Low(u)) = u
<1>1. Low(WithLow(t, Half - 1)) = Half - 1 /\ High(WithLow(u, Half - 1)) = High(u)
  BY AllOnes, Stored
<1>2. u = High(u) * Half + Low(u)
  BY Halves
<1> QED
  BY <1>1, <1>2 DEF WithLow, WithHigh

-----------------------------------------------------------------------------
(* The devices and the guest's accesses in two halves *)

\* Where each access has got to.
GuestOK ==
  /\ guest.at = "high" => compare[guest.timer] = WithLow(guest.from, Half - 1)
  /\ guest.at = "low" => compare[guest.timer] = WithLow(guest.to, Half - 1)
  /\ guest.at = "read" => guest.start <= mtime
  /\ guest.at = "check" => \E t \in Time : guest.start <= t /\ t <= mtime /\ guest.low = Low(t)

DevicesOK == PlatformTypeOK /\ GuestOK

LEMMA GuestCases ==
  ASSUME guest \in Guest
  PROVE  /\ guest.at \in {"none", "high", "low", "read", "check"}
         /\ guest.at \in {"high", "low"} =>
              /\ guest \in Programming /\ guest.timer \in Timers
              /\ guest.from \in Time /\ guest.to \in Time
         /\ guest.at \in {"read", "check"} => guest \in Reading /\ guest.start \in Time
         /\ guest.at = "check" => guest.low \in 0 .. Half - 1
<1>1. CASE guest = NoAccess
  BY <1>1 DEF NoAccess
<1>2. CASE guest \in Programming
  BY <1>2, DeadlineAssumption DEF Programming
<1>3. CASE guest \in Reading
  BY <1>3 DEF Reading
<1> QED
  BY <1>1, <1>2, <1>3 DEF Guest

\* The clock ticks by one and has not reached its bound.
LEMMA TickOK ==
  ASSUME mtime \in Time, Tick
  PROVE  mtime' \in Time /\ mtime' = mtime + 1 /\ mtime <= mtime' /\ mtime \in Nat
<1>1. mtime \in Nat /\ MaxTime \in Nat /\ mtime + 1 <= MaxTime /\ Half * Half \in Nat
  BY MaxTimeAssumption, TimeIsNat, HalfAssumption DEF Tick, Ticked
<1>2. MaxTime <= Half * Half - 1
  BY MaxTimeAssumption, TimeIsNat
<1>3. mtime' = mtime + 1
  BY DEF Tick, Ticked
<1> QED
  BY <1>1, <1>2, <1>3, TimeIsNat

LEMMA UartOK ==
  ASSUME uart \in Uart, NEW v \in IerValue
  PROVE  /\ ReadIir(uart) \in Uart /\ ReadRbr(uart) \in Uart /\ WriteThr(uart) \in Uart
         /\ WriteIer(uart, v) \in Uart
BY IerAssumption DEF Uart, ReadIir, ReadRbr, WriteThr, WriteIer

\* The clock and the comparators stay 64 bits wide, and each access stays where it is,
\* whatever happens between its two halves.
LEMMA DevicesInductive ==
  ASSUME DevicesOK, [PlatformNext]_platformVars
  PROVE  DevicesOK'
<1> USE DEF DevicesOK, PlatformTypeOK
<1>0. Never \in Time /\ guest.at \in {"none", "high", "low", "read", "check"}
  BY GuestCases, TimeIsNat, HalfAssumption DEF Never
<1>1. ASSUME Tick, UNCHANGED <<compare, guest>>, uart' \in Uart
      PROVE  DevicesOK'
  <2>1. mtime' \in Time /\ mtime <= mtime' /\ mtime \in Nat /\ mtime' \in Nat
    BY <1>1, TickOK, TimeIsNat
  <2>2. guest.at = "read" => guest.start <= mtime'
    <3>1. guest.at = "read" => guest.start \in Nat
      BY GuestCases, TimeIsNat
    <3> QED
      BY <2>1, <3>1 DEF GuestOK
  <2>3. guest.at = "check" => \E t \in Time : guest.start <= t /\ t <= mtime' /\ guest.low = Low(t)
    BY <2>1, TimeIsNat DEF GuestOK
  <2> QED
    BY <1>1, <2>1, <2>2, <2>3 DEF GuestOK
<1>2. CASE OtherInstruction
  BY <1>1, <1>2 DEF OtherInstruction
<1>3. CASE UartAccess
  <2>1. Tick /\ UNCHANGED <<compare, guest>>
    BY <1>3 DEF UartAccess, Access
  <2>2. /\ ReadIir(uart) \in Uart /\ ReadRbr(uart) \in Uart /\ WriteThr(uart) \in Uart
        /\ \A v \in IerValue : WriteIer(uart, v) \in Uart
    BY UartOK, IerAssumption DEF Uart, ReadIir, ReadRbr, WriteThr
  <2>3. uart' \in Uart
    BY <1>3, <2>2 DEF UartAccess
  <2> QED
    BY <1>1, <2>1, <2>3
<1>4. ASSUME NEW x \in Timers, NEW t \in Deadline, Tick,
             SetCompare(x, WithLow(compare[x], Half - 1)),
             guest' = [at |-> "high", timer |-> x, from |-> compare[x], to |-> t]
      PROVE  DevicesOK'
  <2>1. mtime' \in Time
    BY <1>4, TickOK
  <2>2. compare[x] \in Time /\ WithLow(compare[x], Half - 1) \in Time
    BY AllOnes
  <2>3. compare' \in [Timers -> Time] /\ compare'[x] = WithLow(compare[x], Half - 1) /\ uart' = uart
    BY <1>4, <2>2 DEF SetCompare
  <2>4. guest' \in Guest
    BY <1>4, <2>2 DEF Guest, Programming
  <2> QED
    BY <1>4, <2>1, <2>3, <2>4 DEF GuestOK
<1>5. CASE ProgramHigh
  <2>1. mtime' \in Time
    BY <1>5, TickOK DEF ProgramHigh, Access
  <2>2. /\ guest \in Programming /\ guest.timer \in Timers /\ guest.from \in Time /\ guest.to \in Time
        /\ guest' = [guest EXCEPT !.at = "low"]
    BY <1>5, GuestCases DEF ProgramHigh
  <2>3. WithHigh(compare[guest.timer], High(guest.to)) = WithLow(guest.to, Half - 1)
    BY <1>5, <2>2, ThreeStores DEF GuestOK, ProgramHigh
  <2>4. /\ compare' = [compare EXCEPT ![guest.timer] = WithLow(guest.to, Half - 1)] /\ uart' = uart
        /\ WithLow(guest.to, Half - 1) \in Time
    BY <1>5, <2>2, <2>3, AllOnes DEF ProgramHigh, SetCompare
  <2>5. guest' \in Programming /\ guest'.timer = guest.timer /\ guest'.to = guest.to /\ guest'.at = "low"
    BY <2>2 DEF Programming
  <2>6. compare' \in [Timers -> Time] /\ compare'[guest.timer] = WithLow(guest.to, Half - 1)
    BY <2>2, <2>4
  <2>7. GuestOK'
    BY <2>5, <2>6 DEF GuestOK
  <2> QED
    BY <2>1, <2>4, <2>5, <2>6, <2>7 DEF Guest
<1>6. CASE ProgramLow
  <2>1. mtime' \in Time
    BY <1>6, TickOK DEF ProgramLow, Access
  <2>2. guest.timer \in Timers /\ guest.to \in Time
    BY <1>6, GuestCases DEF ProgramLow
  <2>3. WithLow(compare[guest.timer], Low(guest.to)) \in Time
    BY <2>2, Halves, Stored
  <2>4. compare' \in [Timers -> Time] /\ uart' = uart /\ guest' = NoAccess
    BY <1>6, <2>2, <2>3 DEF ProgramLow, SetCompare
  <2> QED
    BY <2>1, <2>4 DEF GuestOK, NoAccess, Guest
<1>7. CASE ReadTimeBegins
  <2>1. mtime' \in Time /\ mtime <= mtime' /\ compare' = compare /\ uart' = uart
    BY <1>7, TickOK DEF ReadTimeBegins, Access
  <2>2. guest' = [at |-> "read", start |-> mtime]
    BY <1>7 DEF ReadTimeBegins
  <2> QED
    BY <2>1, <2>2 DEF GuestOK, Guest, Reading
<1>8. CASE ReadTimeLow
  <2>1. mtime' \in Time /\ mtime <= mtime' /\ compare' = compare /\ uart' = uart
    BY <1>8, TickOK DEF ReadTimeLow, Access
  <2>2. /\ guest' = [at |-> "check", start |-> guest.start, low |-> Low(mtime)]
        /\ guest.start <= mtime /\ guest.start \in Time
    BY <1>8, GuestCases DEF ReadTimeLow, GuestOK
  <2>3. Low(mtime) \in 0 .. Half - 1
    BY Halves
  <2>4. guest' \in Guest
    BY <2>2, <2>3 DEF Guest, Reading
  <2>5. GuestOK'
    BY <2>1, <2>2 DEF GuestOK
  <2> QED
    BY <2>1, <2>4, <2>5
<1>9. CASE ReadTimeCheck
  <2>1. mtime' \in Time /\ compare' = compare /\ uart' = uart /\ guest' = NoAccess
    BY <1>9, TickOK DEF ReadTimeCheck, Access
  <2> QED
    BY <2>1 DEF GuestOK, NoAccess, Guest
<1>10. CASE UNCHANGED devices
  BY <1>10 DEF devices, GuestOK
<1>11. CASE KeyArrives
  <2>1. UNCHANGED <<mtime, compare, guest>> /\ uart' \in Uart
    BY <1>11 DEF KeyArrives, Uart
  <2> QED
    BY <2>1 DEF GuestOK
<1>12. CASE ProgramBegins
  BY <1>4, <1>12 DEF ProgramBegins, Access
<1> QED
  BY <1>2, <1>3, <1>5, <1>6, <1>7, <1>8, <1>9, <1>10, <1>11, <1>12
     DEF PlatformNext, NoTick, platformVars, devices

LEMMA DevicesInit == PlatformInit => DevicesOK
<1>1. 0 \in Time /\ Never \in Time
  BY HalfAssumption, TimeIsNat DEF Never
<1> QED
  BY <1>1 DEF PlatformInit, DevicesOK, PlatformTypeOK, GuestOK, Guest, NoAccess, Uart

\* Both comparators stay 64 bits wide through writes of their halves.
THEOREM PlatformTypeCorrect == PlatformSpec => []PlatformTypeOK
<1>1. DevicesOK => PlatformTypeOK
  BY DEF DevicesOK
<1> QED
  BY <1>1, DevicesInit, DevicesInductive, PTL DEF PlatformSpec

\* A read of the clock's halves that finds the high half unchanged yields a time between
\* its beginning and its end.
THEOREM ClockReadsAreConsistent == PlatformSpec => []ClockReadIsConsistent
<1>1. DevicesOK => ClockReadIsConsistent
  <2> SUFFICES ASSUME DevicesOK, guest.at = "check", High(mtime) = High(guest.start)
               PROVE  LET value == High(mtime) * Half + guest.low
                      IN  guest.start <= value /\ value <= mtime
    BY DEF ClockReadIsConsistent
  <2>1. guest.start \in Time /\ mtime \in Time
    BY GuestCases DEF DevicesOK, PlatformTypeOK
  <2>2. PICK t \in Time : guest.start <= t /\ t <= mtime /\ guest.low = Low(t)
    BY DEF DevicesOK, GuestOK
  <2>3. High(guest.start) <= High(t) /\ High(t) <= High(mtime)
    BY <2>1, <2>2, HighIsMonotone
  <2>4. High(t) = High(mtime)
    BY <2>1, <2>2, <2>3, Halves
  <2>5. t = High(mtime) * Half + guest.low
    BY <2>2, <2>4, Halves
  <2> QED
    BY <2>2, <2>5
<1> QED
  BY <1>1, DevicesInit, DevicesInductive, PTL DEF PlatformSpec

-----------------------------------------------------------------------------
(* Interrupts and the devices that ask for them *)

\* What every iteration leaves: a pending timer and the device of an interrupt just
\* taken are found asking, and a time slice that is over is not left to U-mode.
InterruptsOK ==
  /\ \A x \in Timers : TimerBit(x) \in csr["mip"] => mtime >= compare[x]
  /\ trap.kind = "interrupt" =>
       /\ trap.cause = MTI => mtime >= compare["mtimer"]
       /\ trap.cause = STI => mtime >= compare["stimer"]
       /\ trap.cause \in {MEI, SEI} => IsUartIrqPending(uart)
  /\ TimeSliceEnds

PlatformInv == TypeOK /\ DevicesOK /\ InterruptsOK

LEMMA InterruptsInductive ==
  ASSUME PlatformInv, [PlatformNext]_platformVars
  PROVE  InterruptsOK'
<1>0. TypeOK /\ DevicesOK' /\ TypeOK'
  BY DevicesInductive, StepIsHart, TypeInductive DEF PlatformInv
<1>1. CASE Ticking
  <2> DEFINE lines == Lines(mtime', compare', uart')
  <2>1. Polled(lines)
    BY <1>0, <1>1, LinesAllowed, RetiresPoll DEF Ticking
  <2>2. /\ "mtimer" \in lines <=> mtime' >= compare'["mtimer"]
        /\ "stimer" \in lines <=> mtime' >= compare'["stimer"]
        /\ "uart" \in lines <=> IsUartIrqPending(uart)'
    BY DEF Lines, Timers
  <2> HIDE DEF lines
  <2>3. \A x \in Timers : TimerBit(x) \in csr'["mip"] => mtime' >= compare'[x]
    BY <2>1, <2>2 DEF Polled, Timers, TimerBit, LineOf, MTI, STI, SEI, MEI
  <2>4. trap'.kind = "interrupt" =>
          /\ trap'.cause = MTI => mtime' >= compare'["mtimer"]
          /\ trap'.cause = STI => mtime' >= compare'["stimer"]
          /\ trap'.cause \in {MEI, SEI} => IsUartIrqPending(uart)'
    BY <2>1, <2>2 DEF Polled, LineOf, MTI, STI, SEI, MEI
  <2>5. mtime' \in Nat /\ compare'["mtimer"] \in Nat
    BY <1>0, TimeIsNat DEF DevicesOK, PlatformTypeOK, Timers
  <2>6. TimeSliceEnds'
    BY <2>1, <2>2, <2>5 DEF Polled, TimeSliceEnds
  <2> QED
    BY <2>3, <2>4, <2>6 DEF InterruptsOK
<1>2. CASE UNCHANGED devices /\ (IllegalInstruction \/ PageFault \/ Halt)
  <2>1. /\ csr'["mip"] \subseteq csr["mip"] /\ trap'.kind # "interrupt"
        /\ mode' # U \/ ~running'
    BY <1>0, <1>2, NoPollStep
  <2> QED
    BY <1>2, <2>1 DEF devices, InterruptsOK, PlatformInv, TimeSliceEnds
<1>3. CASE KeyArrives
  <2>1. UNCHANGED <<vars, mtime, compare>> /\ (IsUartIrqPending(uart) => IsUartIrqPending(uart)')
    BY <1>0, <1>3 DEF KeyArrives, IsUartIrqPending, PlatformInv, DevicesOK, PlatformTypeOK, Uart
  <2> QED
    BY <2>1 DEF vars, InterruptsOK, PlatformInv, TimeSliceEnds
<1>4. CASE UNCHANGED platformVars
  BY <1>4 DEF platformVars, devices, vars, InterruptsOK, PlatformInv, TimeSliceEnds, IsUartIrqPending
<1> QED
  BY <1>1, <1>2, <1>3, <1>4, StepKinds

LEMMA PlatformInvariant == PlatformSpec => []PlatformInv
<1>1. PlatformInit => PlatformInv
  <2>1. PlatformInit => InterruptsOK
    BY DEF PlatformInit, Init, InterruptsOK, TimeSliceEnds, NoTrap, ResetCsr, Storage, CsrName, U, M
  <2>2. PlatformInit => TypeOK
    BY InitOK DEF PlatformInit
  <2> QED
    BY <2>1, <2>2, DevicesInit DEF PlatformInv
<1>2. PlatformInv /\ [PlatformNext]_platformVars => PlatformInv'
  BY InterruptsInductive, DevicesInductive, StepIsHart, TypeInductive DEF PlatformInv
<1> QED
  BY <1>1, <1>2, PTL DEF PlatformSpec

\* No timer interrupt is pending before the earlier of the old and the new deadline while
\* the guest programs a comparator in halves.
THEOREM NoTimerIsEarly == PlatformSpec => []NoEarlyTimer
<1>1. PlatformInv => NoEarlyTimer
  <2> SUFFICES ASSUME PlatformInv, NEW x \in Timers, TimerBit(x) \in csr["mip"]
               PROVE  mtime >= QuietUntil(x)
    BY DEF NoEarlyTimer
  <2>1. mtime >= compare[x] /\ mtime \in Nat /\ compare[x] \in Nat
    BY TimeIsNat DEF PlatformInv, InterruptsOK, DevicesOK, PlatformTypeOK
  <2>2. CASE guest.at \in {"high", "low"} /\ guest.timer = x
    <3>1. guest.from \in Time /\ guest.to \in Time
      BY <2>2, GuestCases DEF PlatformInv, DevicesOK, PlatformTypeOK
    <3>2. Earlier(guest.from, guest.to) <= compare[x]
      <4>1. CASE guest.at = "high"
        <5>1. compare[x] = WithLow(guest.from, Half - 1)
          BY <2>2, <4>1 DEF PlatformInv, DevicesOK, GuestOK
        <5>2. guest.from <= compare[x] /\ guest.from \in Nat /\ guest.to \in Nat
          BY <3>1, <5>1, AllOnes, TimeIsNat
        <5> QED
          BY <2>1, <5>2 DEF Earlier
      <4>2. CASE guest.at = "low"
        <5>1. compare[x] = WithLow(guest.to, Half - 1)
          BY <2>2, <4>2 DEF PlatformInv, DevicesOK, GuestOK
        <5>2. guest.to <= compare[x] /\ guest.from \in Nat /\ guest.to \in Nat
          BY <3>1, <5>1, AllOnes, TimeIsNat
        <5> QED
          BY <2>1, <5>2 DEF Earlier
      <4> QED
        BY <2>2, <4>1, <4>2
    <3>3. Earlier(guest.from, guest.to) \in Nat
      BY <3>1, TimeIsNat DEF Earlier
    <3> QED
      BY <2>1, <2>2, <3>2, <3>3 DEF QuietUntil
  <2>3. CASE ~(guest.at \in {"high", "low"} /\ guest.timer = x)
    BY <2>1, <2>3 DEF QuietUntil
  <2> QED
    BY <2>2, <2>3
<1> QED
  BY <1>1, PlatformInvariant, PTL

\* An interrupt is entered only while its device asks, and a handler that serves what IIR
\* says quiets the UART in two rounds.
THEOREM InterruptsHaveCauses == PlatformSpec => []InterruptHasCause
<1>1. ASSUME NEW u \in Uart
      PROVE  /\ IsUartIrqPending(u) => Claim(u) = 12 /\ Iir(u) # "none"
             /\ Claim(Served(Served(u))) = 0
  <2>1. IsUartIrqPending(u) => Claim(u) = 12 /\ Iir(u) # "none"
    BY DEF IsUartIrqPending, Claim, Iir
  <2>2. \A w \in Uart :
          /\ ReadIir(w) \in Uart /\ ReadIir(w).slot = w.slot /\ ReadIir(w).ier = w.ier
          /\ ReadIir(w).txIrq <=> w.txIrq /\ Iir(w) # "tx"
          /\ ReadRbr(w) \in Uart /\ ~ReadRbr(w).slot /\ ReadRbr(w).ier = w.ier
          /\ ReadRbr(w).txIrq <=> w.txIrq
    <3> TAKE w \in Uart
    <3>1. w.slot \in BOOLEAN /\ w.txIrq \in BOOLEAN /\ w = [slot |-> w.slot, ier |-> w.ier, txIrq |-> w.txIrq]
      BY DEF Uart
    <3> DEFINE kept == w.txIrq /\ Iir(w) # "tx"
    <3>2. ReadIir(w) = [slot |-> w.slot, ier |-> w.ier, txIrq |-> kept]
      BY <3>1 DEF ReadIir
    <3>3. kept \in BOOLEAN
      OBVIOUS
    <3>4. ReadIir(w).txIrq = kept
      BY <3>2
    <3> HIDE DEF kept
    <3>5. ReadIir(w) \in Uart /\ ReadIir(w).slot = w.slot /\ ReadIir(w).ier = w.ier
      BY <3>1, <3>2, <3>3 DEF Uart
    <3>6. /\ ReadRbr(w) \in Uart /\ ~ReadRbr(w).slot /\ ReadRbr(w).ier = w.ier
          /\ ReadRbr(w).txIrq <=> w.txIrq
      BY DEF ReadRbr, Uart
    <3> QED
      BY <3>4, <3>5, <3>6 DEF kept
  \* After one round the receiver is quiet, and if it was already, so is the transmitter.
  <2>3. \A w \in Uart :
          /\ Served(w) \in Uart /\ Iir(Served(w)) # "rx"
          /\ Iir(w) # "rx" => ~IsUartIrqPending(Served(w))
    <3> TAKE w \in Uart
    <3>1. CASE Iir(w) = "rx"
      <4>1. Served(w) = ReadRbr(ReadIir(w)) /\ Served(w) \in Uart /\ ~Served(w).slot
        BY <2>2, <3>1 DEF Served
      <4> QED
        BY <3>1, <4>1 DEF Iir
    <3>2. CASE Iir(w) # "rx"
      <4>1. Served(w) = ReadIir(w)
        BY <3>2 DEF Served
      <4>2. /\ Served(w) \in Uart /\ Served(w).slot = w.slot /\ Served(w).ier = w.ier
            /\ Served(w).txIrq <=> w.txIrq /\ Iir(w) # "tx"
        BY <2>2, <4>1
      <4>3. ~(w.slot /\ "rx" \in w.ier) /\ (w.txIrq /\ "tx" \in w.ier => Iir(w) = "tx")
        BY <3>2 DEF Iir
      <4>4. ~IsUartIrqPending(Served(w)) /\ ~(Served(w).slot /\ "rx" \in Served(w).ier)
        BY <4>2, <4>3 DEF IsUartIrqPending
      <4> QED
        BY <3>2, <4>2, <4>4 DEF Iir
    <3> QED
      BY <3>1, <3>2
  <2>4. ~IsUartIrqPending(Served(Served(u)))
    BY <2>3
  <2> QED
    BY <2>1, <2>4 DEF Claim
<1>2. PlatformInv => InterruptHasCause
  BY <1>1 DEF PlatformInv, InterruptsOK, InterruptHasCause, DevicesOK, PlatformTypeOK
<1> QED
  BY <1>2, PlatformInvariant, PTL

\* When the deadline that M-mode programmed and enabled has come, no program in U-mode
\* is left running by the iteration that finds it passed.
THEOREM TimeSlicesEnd == PlatformSpec => []TimeSliceEnds
<1>1. PlatformInv => TimeSliceEnds
  BY DEF PlatformInv, InterruptsOK
<1> QED
  BY <1>1, PlatformInvariant, PTL
=============================================================================
