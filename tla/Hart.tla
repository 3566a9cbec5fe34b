-------------------------------- MODULE Hart --------------------------------
(***************************************************************************)
(* The hart of the emulator: privilege mode, program counter, the CSRs     *)
(* that steer traps, and one iteration of the run loop of RiscvCpu         *)
(* ::executeFromBinFile.  A register is the set of its bits that are 1, so *)
(* the masks of CsrUnit.cpp are set intersections and differences.         *)
(*                                                                         *)
(* Abstracted: general registers, memory (module VirtualMemory),           *)
(* xCAUSE and xTVAL (written by takeTrap, read by software only),          *)
(* the scratch registers, and the clock and UART, which appear as the set  *)
(* of interrupt lines they hold when the loop polls them.                  *)
(***************************************************************************)
EXTENDS Integers, FiniteSets

CONSTANTS
  Addr,         \* addresses that program counters and vectors range over
  Operand,      \* Operand[a]: what software puts in rs1 when it accesses CSR a
  Exceptions,   \* exception causes that instructions of the program can raise
  DeviceLines   \* sets of devices that can ask for an interrupt together

Word == SUBSET (0 .. 31)

\* Privilege modes (enum PrivilegeMode; 2 is the reserved encoding).
U == 0
S == 1
M == 3

CsrName == {"mstatus", "sstatus", "mie", "sie", "mip", "sip", "mideleg",
            "medeleg", "mtvec", "stvec", "mepc", "sepc", "cycle"}

\* Bits of mstatus.
SIE  == 1
MIE  == 3
SPIE == 5
MPIE == 7
SPP  == 8
MPP  == {11, 12}

\* Interrupt numbers, which are also bits of mip and mie.
SSI == 1
MSI == 3
STI == 5
MTI == 7
SEI == 9
MEI == 11

\* Exception causes that the run loop and the system instructions raise.
IllegalInsn == 2
Breakpoint  == 3
EcallFrom(mode) == CASE mode = U -> 8 [] mode = S -> 9 [] OTHER -> 11
PageFaults  == {12, 13, 15}

ASSUME AddrAssumption == Addr \subseteq Word /\ Addr # {}
ASSUME OperandAssumption == Operand \in [CsrName -> SUBSET Word]
ASSUME ExceptionsAssumption == Exceptions \subseteq PageFaults \cup {IllegalInsn, Breakpoint}
ASSUME LinesAssumption == DeviceLines \subseteq SUBSET {"mtimer", "stimer", "uart"}

VARIABLES
  running,  \* the run loop has not been left
  mode,     \* _privilegeMode
  pc,       \* _pc
  csr,      \* CsrUnit::_csrs, the storage behind the aliases
  trap      \* history: the last trap taken in the last iteration, if any

vars == <<running, mode, pc, csr, trap>>

Storage == CsrName \ {"sstatus", "sie", "sip", "cycle"}

NoTrap == [kind |-> "none", cause |-> 0]
TrapRecord == [kind : {"none", "exception", "interrupt"}, cause : 0 .. 31]

\* The hart as a value, for the operators that an iteration composes.
HartState == [mode : {U, S, M}, pc : Word, csr : [Storage -> Word], trap : TrapRecord]
Cur == [mode |-> mode, pc |-> pc, csr |-> csr, trap |-> NoTrap]

-----------------------------------------------------------------------------
(* CsrUnit *)

MSTATUS_MASK == {SIE, MIE, SPIE, MPIE, SPP, 13, 14, 18} \cup MPP

\* A plausible slip: the M-level enable bit leaks into the S-level view.
SSTATUS_MASK_leaky == {SIE, MIE, SPIE, SPP, 13, 14, 18}

SSTATUS_MASK == {SIE, SPIE, SPP, 13, 14, 18}

\* Bits of mip that software may write (0x222).
SoftWritable == {SSI, STI, SEI}

ResetCsr == [a \in Storage |-> IF a = "mstatus" THEN MPP ELSE {}]

CsrRead(c, a) ==
  CASE a = "sstatus" -> c["mstatus"] \cap SSTATUS_MASK
    [] a = "sie"     -> c["mie"] \cap c["mideleg"]
    [] a = "sip"     -> c["mip"] \cap c["mideleg"]
    [] a = "cycle"   -> {}   \* the clock, which no property reads
    [] OTHER         -> c[a]

\* Mutant: the reserved encoding of MPP is stored as written.
Warl_unchecked(v) == v

\* MPP = 2 is not a mode: it is stored as 0.
Warl(v) == IF v \cap MPP = {12} THEN v \ MPP ELSE v

CsrWrite(c, a, v) ==
  CASE a = "mstatus" -> [c EXCEPT !["mstatus"] = Warl(v \cap MSTATUS_MASK)]
    [] a = "sstatus" -> [c EXCEPT !["mstatus"] = (@ \ SSTATUS_MASK) \cup (v \cap SSTATUS_MASK)]
    [] a = "sie"     -> [c EXCEPT !["mie"] = (@ \ c["mideleg"]) \cup (v \cap c["mideleg"])]
    [] a = "sip"     -> LET writable == c["mideleg"] \cap SoftWritable
                        IN  [c EXCEPT !["mip"] = (@ \ writable) \cup (v \cap writable)]
    [] a = "mip"     -> [c EXCEPT !["mip"] = (@ \ SoftWritable) \cup (v \cap SoftWritable)]
    [] a = "cycle"   -> c
    [] OTHER         -> [c EXCEPT ![a] = v]

\* Bits 9:8 and 11:10 of the CSR's address.
MinPrivilege(a) == CASE a \in {"mstatus", "mie", "mip", "mideleg", "medeleg", "mtvec", "mepc"} -> M
                     [] a = "cycle" -> U
                     [] OTHER       -> S
ReadOnly(a) == a = "cycle"

CanAccess(a, m, isWrite) == m >= MinPrivilege(a) /\ (isWrite => ~ReadOnly(a))

-----------------------------------------------------------------------------
(* Traps *)

\* The bit `to` of the result is the bit `from` of v.
Copy(v, from, to) == (v \ {to}) \cup (IF from \in v THEN {to} ELSE {})

PrivilegeBits(m) == CASE m = U -> {} [] m = S -> {11} [] OTHER -> MPP
ModeOf(bits) == CASE bits = {} -> U [] bits = {11} -> S [] bits = {12} -> 2 [] OTHER -> M

\* Mutant: the interrupt enable is cleared without being stacked.
TrapToS_unstacked(h, kind, cause) ==
  LET saved == CsrWrite(h.csr, "sepc", h.pc)
      v     == CsrRead(saved, "sstatus") \ {SIE, SPIE, SPP}
  IN  [mode |-> S, pc |-> saved["stvec"] \ {0, 1},
       csr  |-> CsrWrite(saved, "sstatus", v \cup (IF h.mode = S THEN {SPP} ELSE {})),
       trap |-> [kind |-> kind, cause |-> cause]]

\* A delegated interrupt is "acknowledged" by writing SIP with its bit alone.
TrapToS(h, kind, cause) ==
  LET acked == IF kind = "interrupt" THEN CsrWrite(h.csr, "sip", {cause}) ELSE h.csr
      saved == CsrWrite(acked, "sepc", h.pc)
      v     == Copy(CsrRead(saved, "sstatus"), SIE, SPIE) \ {SIE, SPP}
  IN  [mode |-> S, pc |-> saved["stvec"] \ {0, 1},
       csr  |-> CsrWrite(saved, "sstatus", v \cup (IF h.mode = S THEN {SPP} ELSE {})),
       trap |-> [kind |-> kind, cause |-> cause]]

\* Mutant: the interrupt enable is stacked and left set.
TrapToM_unmasked(h, kind, cause) ==
  LET saved == CsrWrite(h.csr, "mepc", h.pc)
      v     == Copy(CsrRead(saved, "mstatus"), MIE, MPIE) \ MPP
  IN  [mode |-> M, pc |-> saved["mtvec"] \ {0, 1},
       csr  |-> CsrWrite(saved, "mstatus", v \cup PrivilegeBits(h.mode)),
       trap |-> [kind |-> kind, cause |-> cause]]

TrapToM(h, kind, cause) ==
  LET saved == CsrWrite(h.csr, "mepc", h.pc)
      v     == Copy(CsrRead(saved, "mstatus"), MIE, MPIE) \ ({MIE} \cup MPP)
  IN  [mode |-> M, pc |-> saved["mtvec"] \ {0, 1},
       csr  |-> CsrWrite(saved, "mstatus", v \cup PrivilegeBits(h.mode)),
       trap |-> [kind |-> kind, cause |-> cause]]

Delegated(h, kind, cause) ==
  /\ h.mode <= S
  /\ cause \in h.csr[IF kind = "interrupt" THEN "mideleg" ELSE "medeleg"]

TakeTrap(h, kind, cause) ==
  IF Delegated(h, kind, cause) THEN TrapToS(h, kind, cause) ELSE TrapToM(h, kind, cause)

Sret(h) ==
  LET v == h.csr["mstatus"]
  IN  [h EXCEPT !.pc = h.csr["sepc"], !.mode = IF SPP \in v THEN S ELSE U,
                !.csr = CsrWrite(h.csr, "mstatus", (Copy(v, SPIE, SIE) \ {SPP}) \cup {SPIE})]

Mret(h) ==
  LET v == h.csr["mstatus"]
  IN  [h EXCEPT !.pc = h.csr["mepc"], !.mode = ModeOf(v \cap MPP),
                !.csr = CsrWrite(h.csr, "mstatus", (Copy(v, MPIE, MIE) \ MPP) \cup {MPIE})]

-----------------------------------------------------------------------------
(* The poll that ends an iteration in which an instruction was executed *)

MachineInterrupts == {MEI, MSI, MTI}
SupervisorInterrupts == {SEI, SSI, STI}
Rank == [c \in MachineInterrupts \cup SupervisorInterrupts |->
           CASE c = MEI -> 1 [] c = MSI -> 2 [] c = MTI -> 3
             [] c = SEI -> 4 [] c = SSI -> 5 [] OTHER -> 6]

\* The bits that the loop recomputes from mtime >= mtimecmp, mtime >= stimecmp
\* and isUartIrqPending; it leaves the other bits of mip as they are.
LineBits(lines) == (IF "mtimer" \in lines THEN {MTI} ELSE {})
              \cup (IF "stimer" \in lines THEN {STI} ELSE {})
              \cup (IF "uart" \in lines THEN {MEI, SEI} ELSE {})

\* Mutant: a bit that has been set stays.
Sample_sticky(h, lines) == [h EXCEPT !.csr["mip"] = @ \cup LineBits(lines)]

Sample(h, lines) ==
  [h EXCEPT !.csr["mip"] = (@ \ {MTI, STI, MEI, SEI}) \cup LineBits(lines)]

\* Mutant: the enable bit is asked for below M-mode too.
MachineEnabled_mieonly(h) == MIE \in h.csr["mstatus"]
MachineEnabled(h) == h.mode < M \/ (h.mode = M /\ MIE \in h.csr["mstatus"])

\* Mutant: S-mode is interruptible whatever SIE says.
SupervisorEnabled_ignoresie(h) == h.mode <= S
SupervisorEnabled(h) == h.mode < S \/ (h.mode = S /\ SIE \in h.csr["mstatus"])

Eligible(h) ==
  {c \in h.csr["mip"] \cap h.csr["mie"] :
     \/ c \in MachineInterrupts /\ MachineEnabled(h)
     \/ c \in SupervisorInterrupts /\ SupervisorEnabled(h)}

Chosen(h) == CHOOSE c \in Eligible(h) : \A d \in Eligible(h) : Rank[c] <= Rank[d]

Poll(h, lines) ==
  LET s == Sample(h, lines)
  IN  IF Eligible(s) = {} THEN s ELSE TakeTrap(s, "interrupt", Chosen(s))

-----------------------------------------------------------------------------
(* Iterations of the run loop *)

Commit(h) == /\ mode' = h.mode /\ pc' = h.pc /\ csr' = h.csr /\ trap' = h.trap
             /\ UNCHANGED running

\* The iteration that leaves the hart as h ends with the poll, which finds `lines`.
Retire(h, lines) == Commit(Poll(h, lines))

\* Any instruction that neither traps nor touches this module's state but the
\* program counter: arithmetic, jumps, loads and stores, WFI, a legal SFENCE.VMA,
\* a semihosting call.
ExecuteOther(lines) == \E next \in Addr : running /\ Retire([Cur EXCEPT !.pc = next], lines)

\* CSRRW, and CSRRS and CSRRC with rs1 # x0 (uimm # 0): the accesses that write.  One
\* that only reads changes nothing here but the program counter: it is ExecuteOther.
ExecuteCsr(op, a, v, lines) ==
  LET old == CsrRead(csr, a)
      new == CASE op = "rw" -> v [] op = "rs" -> old \cup v [] op = "rc" -> old \ v
  IN  /\ running
      /\ CanAccess(a, mode, TRUE)
      /\ \E next \in Addr : Retire([Cur EXCEPT !.pc = next, !.csr = CsrWrite(csr, a, new)], lines)

\* An access that CanAccess refuses traps inside execute(), which reports success:
\* the iteration goes on to the clock tick and the poll.
CsrRefused(lines) == /\ running
                     /\ ~ \A a \in CsrName, isWrite \in BOOLEAN : CanAccess(a, mode, isWrite)
                     /\ Retire(TakeTrap(Cur, "exception", IllegalInsn), lines)

ExecuteEcall(lines) == running /\ Retire(TakeTrap(Cur, "exception", EcallFrom(mode)), lines)

ExecuteEbreak(lines) ==
  running /\ Breakpoint \in Exceptions /\ Retire(TakeTrap(Cur, "exception", Breakpoint), lines)

ExecuteMret(lines) == running /\ mode = M /\ Retire(Mret(Cur), lines)

\* MSTATUS never holds TSR (bit 22 is outside MSTATUS_MASK), so only U-mode is refused.
ExecuteSret(lines) == running /\ mode # U /\ Retire(Sret(Cur), lines)

\* MRET below M-mode, SRET and SFENCE.VMA in U-mode.
PrivilegedRefused(lines) ==
  running /\ mode < M /\ Retire(TakeTrap(Cur, "exception", IllegalInsn), lines)

\* execute() does not know the instruction: the loop traps and continues, without
\* the clock tick and without the poll.
IllegalInstruction == /\ running /\ IllegalInsn \in Exceptions
                      /\ Commit(TakeTrap(Cur, "exception", IllegalInsn))

\* PageFaultException, from the fetch or from the instruction: no tick and no poll.
PageFault == \E cause \in Exceptions \cap PageFaults :
  running /\ Commit(TakeTrap(Cur, "exception", cause))

\* The loop ends on an all-zero instruction at address 0.
Halt == /\ running /\ pc = {}
        /\ running' = FALSE
        /\ trap' = NoTrap
        /\ UNCHANGED <<mode, pc, csr>>

-----------------------------------------------------------------------------

Init == /\ running = TRUE
        /\ mode = M
        /\ pc \in Addr
        /\ csr = ResetCsr
        /\ trap = NoTrap

\* The iterations that execute an instruction, and so tick and poll.
Retires(lines) ==
  \/ ExecuteOther(lines)
  \/ \E op \in {"rw", "rs", "rc"}, a \in CsrName : \E v \in Operand[a] : ExecuteCsr(op, a, v, lines)
  \/ CsrRefused(lines)
  \/ ExecuteEcall(lines)
  \/ ExecuteEbreak(lines)
  \/ ExecuteMret(lines)
  \/ ExecuteSret(lines)
  \/ PrivilegedRefused(lines)

Next == \/ \E lines \in DeviceLines : Retires(lines)
        \/ IllegalInstruction
        \/ PageFault
        \/ Halt

Spec == Init /\ [][Next]_vars

-----------------------------------------------------------------------------
(* Properties *)

\* Type invariant.  Beside the types: MSTATUS holds only implemented bits and never
\* the reserved MPP = 2 (which MRET would turn into a mode), and nothing but the
\* software and device bits is ever pending.
LegalCsr(c) ==
  /\ c \in [Storage -> Word]
  /\ c["mstatus"] \subseteq MSTATUS_MASK
  /\ c["mstatus"] \cap MPP # {12}
  /\ c["mip"] \subseteq SoftWritable \cup {MTI, MEI}
TypeOK ==
  /\ running \in BOOLEAN
  /\ mode \in {U, S, M}
  /\ pc \in Word
  /\ LegalCsr(csr)
  /\ trap \in TrapRecord

\* takeTrap then returnFromTrap of the mode it entered, with nothing in between, puts
\* back the mode, the program counter and both interrupt enables, and leaves the other
\* level's trap stack as it was: a handler can be nested in one of the other level.
TrapReturnRestores ==
  \A kind \in {"exception", "interrupt"}, cause \in 0 .. 15 :
    LET t     == TakeTrap(Cur, kind, cause)
        r     == IF t.mode = S THEN Sret(t) ELSE Mret(t)
        stack == IF t.mode = S THEN {SPIE, SPP} ELSE {MPIE} \cup MPP
    IN  /\ r.mode = mode /\ r.pc = pc
        /\ r.csr["mstatus"] \ stack = csr["mstatus"] \ stack

\* After an iteration that trapped nowhere, no interrupt is pending, enabled in mie and
\* unmasked at the current mode: an enable set by a CSR write, SRET or MRET is seen by
\* the poll of the same iteration.
Deliverable(c) ==
  /\ c \in csr["mip"] \cap csr["mie"]
  /\ c \in {MEI, MSI, MTI} => (mode = M => MIE \in csr["mstatus"])
  /\ c \in {SEI, SSI, STI} => (mode = U \/ (mode = S /\ SIE \in csr["mstatus"]))
NoEnabledInterruptLeft == running /\ trap = NoTrap => ~ \E c \in 0 .. 15 : Deliverable(c)

\* An interrupt was enabled where it struck: in mie, and for its level in the mode that it
\* left, as the trap has stacked that mode and its enable bit.  SIE masks S-mode for the
\* supervisor's interrupts only.  A machine-level one that mideleg hands down (CsrUnit.cpp
\* stores mideleg as written) enters S-mode's own handler whatever SIE says: the poll asks
\* for MIE, in M-mode, and for nothing below it (RiscvCpu.cpp:190-202).
ModeLeft == IF mode = M THEN ModeOf(csr["mstatus"] \cap MPP) ELSE IF SPP \in csr["mstatus"] THEN S ELSE U
InterruptWasEnabled ==
  trap.kind = "interrupt" =>
    /\ trap.cause \in csr["mie"]
    /\ trap.cause \in MachineInterrupts => (ModeLeft = M => MPIE \in csr["mstatus"])
    /\ trap.cause \in SupervisorInterrupts =>
         \/ ModeLeft = U
         \/ ModeLeft = S /\ (IF mode = M THEN SIE ELSE SPIE) \in csr["mstatus"]

\* Code below M-mode cannot change what M-mode relies on, whatever CSR instructions it
\* executes and however it is interrupted in between, and U-mode code changes no CSR
\* at all (mip follows the devices).
MachineView(c) == [mstatus |-> c["mstatus"] \cap ({MIE, MPIE} \cup MPP),
                   mie |-> c["mie"] \ c["mideleg"],
                   ssip |-> c["mip"] \cap ({SSI} \ c["mideleg"]),
                   mideleg |-> c["mideleg"], medeleg |-> c["medeleg"],
                   mtvec |-> c["mtvec"], mepc |-> c["mepc"]]
LowerModesAreConfined ==
  [][/\ mode < M /\ mode' < M => MachineView(csr') = MachineView(csr)
     /\ mode = U /\ mode' = U => \A a \in Storage \ {"mip"} : csr'[a] = csr[a]]_vars

\* The mode rises only by a trap, into the handler that the higher mode had installed
\* before the iteration, with that mode's interrupts disabled.
RaiseEntersHandler ==
  [][mode' > mode => /\ trap'.kind # "none"
                     /\ pc' = csr[IF mode' = M THEN "mtvec" ELSE "stvec"] \ {0, 1}
                     /\ (IF mode' = M THEN MIE ELSE SIE) \notin csr'["mstatus"]]_vars

\* A pending supervisor software interrupt ("SSI (Software)", RiscvCpu.cpp) stays pending
\* until software clears it: no instruction other than a CSR access makes it vanish.
SoftwareInterruptKept ==
  [][(\E lines \in DeviceLines : ExecuteOther(lines)) /\ SSI \in csr["mip"] => SSI \in csr'["mip"]]_vars
=============================================================================
