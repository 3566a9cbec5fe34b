------------------------------ MODULE Platform ------------------------------
(***************************************************************************)
(* The hart with the devices that interrupt it: the clock and the two timer *)
(* comparators (CLINT mtimecmp, CSR stimecmp), the UART's interrupt causes  *)
(* and the PLIC, composed with module Hart.  The lines that Hart's poll     *)
(* finds are here what the devices hold after the tick of the iteration.    *)
(*                                                                         *)
(* The guest programs a comparator, and reads the clock, in two halves and  *)
(* in the order that the RISC-V manual recommends; traps, handlers and all  *)
(* other instructions come in between.  A UART access with DLAB set changes *)
(* nothing here (module Console has it) and is one of the other             *)
(* instructions, like the PLIC's completion, which the code ignores.        *)
(***************************************************************************)
EXTENDS Hart

CONSTANTS
  Half,         \* 2^32: the range of one half of a 64-bit register
  MaxTime,      \* bound: the clock stops there
  Deadline,     \* times that the guest programs a comparator for
  DeviceModes,  \* modes whose page tables map the devices' registers
  IerValue      \* what the guest stores in the UART's interrupt enable register

Timers == {"mtimer", "stimer"}
Time   == 0 .. Half * Half - 1
Never  == Half * Half - 1

ASSUME HalfAssumption == Half \in Nat /\ Half > 1
ASSUME MaxTimeAssumption == MaxTime \in Time
ASSUME DeadlineAssumption == Deadline \subseteq Time
ASSUME DeviceModesAssumption == DeviceModes \subseteq {S, M}
ASSUME IerAssumption == IerValue \subseteq SUBSET {"rx", "tx"}
ASSUME AllLinesAssumption == DeviceLines = SUBSET {"mtimer", "stimer", "uart"}

VARIABLES
  mtime,
  compare,  \* _mtimecmp, and the pair of CSRs 0x14D and 0x15D
  uart,     \* slot: _uartInputChar # -1; ier: _uartRegs[1]; txIrq: _uartTxIrq
  guest     \* the access in two halves that the guest is in the middle of

devices == <<mtime, compare, uart, guest>>
platformVars == <<vars, devices>>

Uart == [slot : BOOLEAN, ier : SUBSET {"rx", "tx"}, txIrq : BOOLEAN]

\* Between accesses; a comparator's old and new deadline and the half that is next;
\* the clock when the read began, and its low half once it is read.
NoAccess == [at |-> "none"]
Programming == [at : {"high", "low"}, timer : Timers, from : Time, to : Deadline]
Reading == [at : {"read"}, start : Time] \cup [at : {"check"}, start : Time, low : 0 .. Half - 1]
Guest == {NoAccess} \cup Programming \cup Reading

-----------------------------------------------------------------------------
(* Registers in two halves *)

Low(t)  == t % Half
High(t) == t \div Half

\* Mutant: the other half is not kept.
WithLow_alone(t, v) == v

WithLow(t, v)  == High(t) * Half + v

\* Mutant: the old half is not masked off.
WithHigh_added(t, v) == t + v * Half

WithHigh(t, v) == v * Half + Low(t)

-----------------------------------------------------------------------------
(* The UART's interrupt and the PLIC *)

IsUartIrqPending(u) == (u.slot /\ "rx" \in u.ier) \/ (u.txIrq /\ "tx" \in u.ier)

\* A read of SCLAIM.
Claim(u) == IF IsUartIrqPending(u) THEN 12 ELSE 0

\* What IIR says, and what reading it leaves.
Iir(u) == IF u.slot /\ "rx" \in u.ier THEN "rx"
          ELSE IF u.txIrq /\ "tx" \in u.ier THEN "tx" ELSE "none"

ReadIir(u) == [u EXCEPT !.txIrq = @ /\ Iir(u) # "tx"]

ReadRbr(u)     == [u EXCEPT !.slot = FALSE]
WriteThr(u)    == [u EXCEPT !.txIrq = TRUE]
WriteIer(u, v) == [u EXCEPT !.ier = v, !.txIrq = @ \/ "tx" \in v]

-----------------------------------------------------------------------------
(* Iterations of the run loop *)

\* Mutant: the clock is as wide as one half.
Ticked_32bit(t) == (t + 1) % Half

Ticked(t) == t + 1
Tick == mtime < MaxTime /\ mtime' = Ticked(mtime)

\* The comparisons and the UART's state that the poll turns into bits of mip.
Lines(t, c, u) ==
  {x \in Timers : t >= c[x]} \cup (IF IsUartIrqPending(u) THEN {"uart"} ELSE {})

\* An instruction that leaves the devices alone.
OtherInstruction == /\ Tick
                    /\ UNCHANGED <<compare, uart, guest>>
                    /\ Retires(Lines(mtime', compare, uart))

\* The instructions that access a device: for the hart they are like any other.
Access == /\ Tick
          /\ ExecuteOther(Lines(mtime', compare', uart'))

\* A store to mtimecmp needs the page to be mapped, CSR 0x14D and 0x15D need S-mode.
CanProgram(x) == IF x = "mtimer" THEN mode \in DeviceModes ELSE mode >= S

SetCompare(x, t) == CanProgram(x) /\ compare' = [compare EXCEPT ![x] = t] /\ UNCHANGED uart

\* The low half is set to all ones first, so that no mixture of the two deadlines comes
\* before both of them.
ProgramBegins == \E x \in Timers, t \in Deadline :
  /\ guest = NoAccess
  /\ SetCompare(x, WithLow(compare[x], Half - 1))
  /\ guest' = [at |-> "high", timer |-> x, from |-> compare[x], to |-> t]
  /\ Access

ProgramHigh ==
  /\ guest.at = "high"
  /\ SetCompare(guest.timer, WithHigh(compare[guest.timer], High(guest.to)))
  /\ guest' = [guest EXCEPT !.at = "low"]
  /\ Access

ProgramLow ==
  /\ guest.at = "low"
  /\ SetCompare(guest.timer, WithLow(compare[guest.timer], Low(guest.to)))
  /\ guest' = NoAccess
  /\ Access

\* RDTIMEH, RDTIME, RDTIMEH, and again when the two high halves differ.  The first high
\* half is that of the time when the read began.
ReadTimeBegins == /\ guest = NoAccess
                  /\ guest' = [at |-> "read", start |-> mtime]
                  /\ UNCHANGED <<compare, uart>>
                  /\ Access

ReadTimeLow == /\ guest.at = "read"
               /\ guest' = [at |-> "check", start |-> guest.start, low |-> Low(mtime)]
               /\ UNCHANGED <<compare, uart>>
               /\ Access

ReadTimeCheck == /\ guest.at = "check"
                 /\ guest' = NoAccess
                 /\ UNCHANGED <<compare, uart>>
                 /\ Access

UartAccess == /\ mode \in DeviceModes
              /\ uart' \in {ReadIir(uart), ReadRbr(uart), WriteThr(uart)}
                           \cup {WriteIer(uart, v) : v \in IerValue}
              /\ UNCHANGED <<compare, guest>>
              /\ Access

\* The iterations that trap without a tick and without a poll, and the last one.
NoTick == UNCHANGED devices /\ (IllegalInstruction \/ PageFault \/ Halt)

\* pollKeyboard finds a key, at the head of an iteration.
KeyArrives == /\ running /\ ~uart.slot
              /\ uart' = [uart EXCEPT !.slot = TRUE]
              /\ UNCHANGED <<vars, mtime, compare, guest>>

-----------------------------------------------------------------------------

PlatformInit ==
  /\ Init
  /\ mtime = 0
  /\ compare = [x \in Timers |-> IF x = "mtimer" THEN Never ELSE 0]
  /\ uart = [slot |-> FALSE, ier |-> {}, txIrq |-> FALSE]
  /\ guest = NoAccess

PlatformNext ==
  \/ OtherInstruction
  \/ ProgramBegins \/ ProgramHigh \/ ProgramLow
  \/ ReadTimeBegins \/ ReadTimeLow \/ ReadTimeCheck
  \/ UartAccess
  \/ NoTick
  \/ KeyArrives

PlatformSpec == PlatformInit /\ [][PlatformNext]_platformVars

-----------------------------------------------------------------------------
(* Properties *)

\* Type invariant: both comparators stay 64 bits wide through writes of their halves.
PlatformTypeOK ==
  /\ mtime \in Time
  /\ compare \in [Timers -> Time]
  /\ uart \in Uart
  /\ guest \in Guest

TimerBit(x) == IF x = "mtimer" THEN MTI ELSE STI
Earlier(a, b) == IF a <= b THEN a ELSE b

\* The deadline before which comparator x must be quiet: while the guest replaces one by
\* another, the earlier of the two.
QuietUntil(x) == IF guest.at \in {"high", "low"} /\ guest.timer = x
                 THEN Earlier(guest.from, guest.to) ELSE compare[x]

\* The two stores that program mtimecmp (Memory.cpp:354-363), and the two CSR writes
\* that program stimecmp, with a poll after each and any handler in between, raise no
\* timer interrupt before the old or the new deadline.
NoEarlyTimer == \A x \in Timers : TimerBit(x) \in csr["mip"] => mtime >= QuietUntil(x)

\* An interrupt is entered only while its device asks for it: a handler that finds the
\* cause of a timer sees the deadline passed, and one that claims the external interrupt
\* gets the UART's number, finds a cause in IIR, and by serving what IIR says until it
\* says nothing - two rounds suffice - lets the line fall, so that the interrupt does
\* not come again by itself (RiscvCpu.cpp:168-184, Memory.cpp:500-509 and 549-557).
Served(u) == IF Iir(u) = "rx" THEN ReadRbr(ReadIir(u)) ELSE ReadIir(u)
InterruptHasCause ==
  trap.kind = "interrupt" =>
    /\ trap.cause = MTI => mtime >= compare["mtimer"]
    /\ trap.cause = STI => mtime >= compare["stimer"]
    /\ trap.cause \in {MEI, SEI} => /\ Claim(uart) = 12 /\ Iir(uart) # "none"
                                    /\ Claim(Served(Served(uart))) = 0

\* The loop that reads the 64-bit clock through its halves ends, when the high half has
\* not changed, with a time between the beginning and the end of the read.
ClockReadIsConsistent ==
  guest.at = "check" /\ High(mtime) = High(guest.start) =>
    LET value == High(mtime) * Half + guest.low IN guest.start <= value /\ value <= mtime

\* A program in U-mode is taken off the hart the moment the time slice that M-mode
\* programmed ends (RiscvCpu.cpp:168-202), whatever it executes: it can neither mask the
\* timer nor move the deadline, and only M-mode's mie decides.
TimeSliceEnds == running /\ mode = U /\ MTI \in csr["mie"] => mtime < compare["mtimer"]
=============================================================================
