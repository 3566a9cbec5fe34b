------------------------------ MODULE Console ------------------------------
(***************************************************************************)
(* The command-line emulator and its console: main() and the terminal it    *)
(* puts into raw mode, Ctrl+C, the keyboard that the run loop polls into    *)
(* the UART's one-character slot, and the guest program, which reads that   *)
(* slot, or standard input through semihosting.                             *)
(*                                                                          *)
(* Keys are numbered in the order in which they are typed; which characters *)
(* they are matters only for the one that reads as -1.  What the guest does *)
(* beside the UART, the interrupt's way into the hart (module Hart) and     *)
(* output are abstracted.                                                   *)
(***************************************************************************)
EXTENDS Integers, Sequences

CONSTANTS
  MaxTyped,  \* bound: keys typed in a behaviour
  PollEvery  \* iterations of the run loop from one pollKeyboard to the next (100000)

VARIABLES
  process,            \* of the emulator: "starting", "running", "blocked" in fgetc,
                      \* "returned" or "killed"
  step,               \* of enableRawMode while the process is starting
  raw, nonblocking,   \* the terminal: ECHO and ICANON are off, O_NONBLOCK is on
  raw_mode_enabled,
  handler,            \* signalHandler is installed
  shutdown_requested, \* of main.cpp
  cpuShutdown,        \* RiscvCpu::_shutdown_requested
  i,                  \* the run loop's counter
  keys,               \* history: the keys typed, "key" or "0xFF"
  tty,                \* keys in the terminal
  stdio,              \* keys in the buffer of stdin
  slot,               \* _uartInputChar: a key, or NoKey for -1
  dlab,               \* _uartRegs[3] & 0x80
  ier,                \* _uartRegs[1] & 3: {"rx", "tx"}
  txIrq,              \* _uartTxIrq
  taken               \* history: keys that the guest's instructions took, and how:
                      \* from the "uart", from "stdin", or "dropped" by a store that faulted

terminal == <<raw, nonblocking, raw_mode_enabled, handler>>
uart == <<slot, dlab, ier, txIrq>>
vars == <<process, step, terminal, shutdown_requested, cpuShutdown, i, keys, tty, stdio, uart, taken>>

NoKey == 0
Key == 1 .. MaxTyped
Ended == process \in {"returned", "killed"}

ASSUME BoundsAssumption == MaxTyped \in Nat /\ PollEvery \in Nat /\ PollEvery > 0

-----------------------------------------------------------------------------
(* main.cpp *)

\* enableRawMode, one system call at a time.  The first that fails ends it; when
\* F_SETFL fails, the terminal's attributes are put back.
Steps == <<"tcgetattr", "F_GETFL", "tcsetattr", "F_SETFL", "flag", "signal">>

Advance == step' = step + 1 /\ UNCHANGED process
GiveUp  == process' = "running" /\ UNCHANGED step

EnableRawMode ==
  /\ process = "starting"
  /\ CASE Steps[step] \in {"tcgetattr", "F_GETFL"} -> (Advance \/ GiveUp) /\ UNCHANGED terminal
       [] Steps[step] = "tcsetattr" ->
            \/ Advance /\ raw' = TRUE /\ UNCHANGED <<nonblocking, raw_mode_enabled, handler>>
            \/ GiveUp /\ UNCHANGED terminal
       [] Steps[step] = "F_SETFL" ->
            \/ Advance /\ nonblocking' = TRUE /\ UNCHANGED <<raw, raw_mode_enabled, handler>>
            \/ GiveUp /\ raw' = FALSE /\ UNCHANGED <<nonblocking, raw_mode_enabled, handler>>
       [] Steps[step] = "flag" ->
            Advance /\ raw_mode_enabled' = TRUE /\ UNCHANGED <<raw, nonblocking, handler>>
       [] OTHER -> GiveUp /\ handler' = TRUE /\ UNCHANGED <<raw, nonblocking, raw_mode_enabled>>
  /\ UNCHANGED <<shutdown_requested, cpuShutdown, i, keys, tty, stdio, uart, taken>>

\* Mutant: the descriptor's flags stay.
DisableRawMode_flags ==
  IF raw_mode_enabled THEN raw' = FALSE /\ raw_mode_enabled' = FALSE /\ UNCHANGED nonblocking
                      ELSE UNCHANGED <<raw, nonblocking, raw_mode_enabled>>

\* disableRawMode runs at exit, when it has been registered.
DisableRawMode ==
  IF raw_mode_enabled THEN raw' = FALSE /\ nonblocking' = FALSE /\ raw_mode_enabled' = FALSE
                      ELSE UNCHANGED <<raw, nonblocking, raw_mode_enabled>>

\* main returns: the kernel or the disk cannot be loaded, the loop ends (at a zero
\* instruction, or because a shutdown was requested of the processor) or throws.
Return == /\ process = "running"
          /\ process' = "returned"
          /\ DisableRawMode
          /\ UNCHANGED <<step, handler, shutdown_requested, cpuShutdown, i, keys, tty, stdio, uart, taken>>

\* SIGINT.  Before the handler is installed it ends the process, without disableRawMode;
\* the terminal's ISIG is left on, so that Ctrl+C is never a key.
CtrlC == /\ ~Ended
         /\ IF handler THEN shutdown_requested' = TRUE /\ UNCHANGED process
                       ELSE process' = "killed" /\ UNCHANGED shutdown_requested
         /\ UNCHANGED <<step, terminal, cpuShutdown, i, keys, tty, stdio, uart, taken>>

Type == \E c \in {"key", "0xFF"} :
  /\ ~Ended /\ Len(keys) < MaxTyped
  /\ keys' = Append(keys, c)
  /\ tty' = Append(tty, Len(keys) + 1)
  /\ UNCHANGED <<process, step, terminal, shutdown_requested, cpuShutdown, i, stdio, uart, taken>>

-----------------------------------------------------------------------------
(* An iteration of the run loop: the keyboard, then one guest instruction *)

\* Mutant: the slot is filled whether or not it is empty.
Polled_always ==
  IF i = 0 /\ tty # <<>>
  THEN [slot |-> IF keys[Head(tty)] = "0xFF" THEN NoKey ELSE Head(tty), tty |-> Tail(tty)]
  ELSE [slot |-> slot, tty |-> tty]

\* pollKeyboard, when it is time.  The character 0xFF is stored as -1.
Polled ==
  IF i = 0 /\ slot = NoKey /\ tty # <<>>
  THEN [slot |-> IF keys[Head(tty)] = "0xFF" THEN NoKey ELSE Head(tty), tty |-> Tail(tty)]
  ELSE [slot |-> slot, tty |-> tty]

\* Mutants: the counter is not reduced; it starts again at 1.
Iteration_nowrap == /\ process = "running" /\ ~cpuShutdown
                    /\ i < PollEvery /\ i' = i + 1
                    /\ UNCHANGED <<step, terminal, shutdown_requested, cpuShutdown, keys>>
Iteration_from1 == /\ process = "running" /\ ~cpuShutdown
                   /\ i' = IF i + 1 = PollEvery THEN 1 ELSE i + 1
                   /\ UNCHANGED <<step, terminal, shutdown_requested, cpuShutdown, keys>>

Iteration == /\ process = "running" /\ ~cpuShutdown
             /\ i' = (i + 1) % PollEvery
             /\ UNCHANGED <<step, terminal, shutdown_requested, cpuShutdown, keys>>

\* An instruction that leaves the UART alone, or that only looks at it (LSR, the PLIC).
OtherInstruction == /\ Iteration
                    /\ slot' = Polled.slot /\ tty' = Polled.tty
                    /\ UNCHANGED <<process, stdio, dlab, ier, txIrq, taken>>

\* Mutant: the divisor latch is not looked at.
ReadRhr_nodlab == /\ Iteration /\ tty' = Polled.tty
                  /\ slot' = NoKey
                  /\ taken' = IF Polled.slot = NoKey \/ dlab THEN taken
                                 ELSE Append(taken, <<"uart", Polled.slot>>)
                  /\ UNCHANGED <<process, stdio, dlab, ier, txIrq>>

\* The receive register; with DLAB the divisor latch is read instead.
ReadRhr == /\ Iteration /\ tty' = Polled.tty
           /\ IF dlab THEN slot' = Polled.slot /\ UNCHANGED taken
              ELSE /\ slot' = NoKey
                   /\ taken' = IF Polled.slot = NoKey THEN taken
                                  ELSE Append(taken, <<"uart", Polled.slot>>)
           /\ UNCHANGED <<process, stdio, dlab, ier, txIrq>>

\* The interrupt identification: a key comes before the transmitter, which it clears.
ReadIir == /\ Iteration /\ slot' = Polled.slot /\ tty' = Polled.tty
           /\ txIrq' = (txIrq /\ ((slot' # NoKey /\ "rx" \in ier) \/ "tx" \notin ier))
           /\ UNCHANGED <<process, stdio, dlab, ier, taken>>

WriteThr == /\ Iteration /\ slot' = Polled.slot /\ tty' = Polled.tty
            /\ txIrq' = (txIrq \/ ~dlab)
            /\ UNCHANGED <<process, stdio, dlab, ier, taken>>

\* Also with DLAB, where the guest means the divisor's high byte.
WriteIer(enable) == /\ Iteration /\ slot' = Polled.slot /\ tty' = Polled.tty
                    /\ ier' = enable /\ txIrq' = (txIrq \/ "tx" \in enable)
                    /\ UNCHANGED <<process, stdio, dlab, taken>>

WriteLcr(d) == /\ Iteration /\ slot' = Polled.slot /\ tty' = Polled.tty
               /\ dlab' = d
               /\ UNCHANGED <<process, stdio, ier, txIrq, taken>>

\* What fgetc returned: SYSREADC hands it over in a0, SYSREAD stores it.  When the store
\* faults, write8 throws: the key is gone, and EBREAK, to which the fault's handler returns,
\* asks for the next.
Returned(k) == \E how \in {"stdin", "dropped"} : taken' = Append(taken, <<how, k>>)

\* Mutant: what the terminal has comes before what the buffer still holds.
ReadStdin_refill == LET buffered == Polled.tty \o stdio
                    IN  /\ Iteration /\ slot' = Polled.slot /\ tty' = <<>>
                        /\ IF buffered = <<>> THEN stdio' = <<>> /\ UNCHANGED taken
                           ELSE stdio' = Tail(buffered) /\ Returned(Head(buffered))
                        /\ UNCHANGED <<process, dlab, ier, txIrq>>

\* The semihosting calls SYSREAD and SYSREADC: fgetc, which takes all that the terminal
\* has into the buffer of stdin.  When there is nothing it returns EOF, if the descriptor
\* is non-blocking, and else waits for a key.
ReadStdin == LET buffered == IF stdio = <<>> THEN Polled.tty ELSE stdio
             IN  /\ Iteration /\ slot' = Polled.slot
                 /\ buffered # <<>> \/ nonblocking
                 /\ tty' = IF stdio = <<>> THEN <<>> ELSE Polled.tty
                 /\ IF buffered = <<>> THEN stdio' = <<>> /\ UNCHANGED taken
                    ELSE stdio' = Tail(buffered) /\ Returned(Head(buffered))
                 /\ UNCHANGED <<process, dlab, ier, txIrq>>

ReadStdinBlocks == /\ Iteration /\ slot' = Polled.slot /\ tty' = Polled.tty
                   /\ stdio = <<>> /\ tty' = <<>> /\ ~nonblocking
                   /\ process' = "blocked"
                   /\ UNCHANGED <<stdio, dlab, ier, txIrq, taken>>

ReadStdinReturns == /\ process = "blocked" /\ tty # <<>>
                    /\ process' = "running"
                    /\ tty' = <<>> /\ stdio' = Tail(tty)
                    /\ Returned(Head(tty))
                    /\ UNCHANGED <<step, terminal, shutdown_requested, cpuShutdown, i, keys, uart>>

-----------------------------------------------------------------------------

Init == /\ process = "starting" /\ step = 1
        /\ raw = FALSE /\ nonblocking = FALSE /\ raw_mode_enabled = FALSE /\ handler = FALSE
        /\ shutdown_requested = FALSE /\ cpuShutdown = FALSE
        /\ i = 0
        /\ keys = <<>> /\ tty = <<>> /\ stdio = <<>>
        /\ slot = NoKey /\ dlab = FALSE /\ ier = {} /\ txIrq = FALSE
        /\ taken = <<>>

Next == \/ EnableRawMode \/ Return \/ CtrlC \/ Type
        \/ OtherInstruction \/ ReadRhr \/ ReadIir \/ WriteThr
        \/ ReadStdin \/ ReadStdinBlocks \/ ReadStdinReturns
        \/ \E enable \in SUBSET {"rx", "tx"} : WriteIer(enable)
        \/ \E d \in BOOLEAN : WriteLcr(d)

\* The process runs on.  The guest has a driver: it does not leave DLAB set, and it
\* reads the receive register again and again while DLAB is clear.
Fairness == /\ WF_vars(EnableRawMode)
            /\ WF_vars(OtherInstruction) /\ WF_vars(ReadStdinReturns)
            /\ WF_vars(dlab /\ WriteLcr(FALSE))
            /\ SF_vars(~dlab /\ ReadRhr)

Spec == Init /\ [][Next]_vars /\ Fairness

-----------------------------------------------------------------------------
(* Properties *)

TypeOK == /\ process \in {"starting", "running", "blocked", "returned", "killed"}
          /\ step \in 1 .. Len(Steps)
          /\ {raw, nonblocking, raw_mode_enabled, handler, shutdown_requested, cpuShutdown} \subseteq BOOLEAN
          /\ i \in 0 .. PollEvery - 1
          /\ keys \in Seq({"key", "0xFF"}) /\ Len(keys) <= MaxTyped
          /\ tty \in Seq(Key) /\ stdio \in Seq(Key) /\ slot \in Key \cup {NoKey}
          /\ dlab \in BOOLEAN /\ ier \subseteq {"rx", "tx"} /\ txIrq \in BOOLEAN
          /\ taken \in Seq({"uart", "stdin", "dropped"} \X Key)

\* A key that was typed is in one place at most: none is delivered twice, whatever the guest
\* does to the UART meanwhile and however it mixes the two ways of reading.  An ordinary
\* key is in no place - not in the terminal, stdin's buffer or the slot, nor with the guest -
\* only if SYSREAD dropped it: its fgetc had taken the key when the store faulted
\* (SystemInstruction.cpp:111-113).  A dropped key does not come again.  0xFF may be in no
\* place too, as in the slot it means no key, and its loss costs no other key.
Dropped(k) == \E n \in 1 .. Len(taken) : taken[n] = <<"dropped", k>>
Places(k) ==
  LET Among(place, queue) == {<<place, n>> : n \in {m \in 1 .. Len(queue) : queue[m] = k}}
      reached == [n \in 1 .. Len(taken) |-> IF taken[n][1] = "dropped" THEN NoKey ELSE taken[n][2]]
  IN  Among("terminal", tty) \cup Among("stdin", stdio) \cup Among("slot", <<slot>>)
        \cup Among("guest", reached)
OnlyFaultsLoseKeys ==
  \A k \in 1 .. Len(keys) : /\ \A p, q \in Places(k) : p = q
                            /\ Dropped(k) => Places(k) = {}
                            /\ keys[k] = "key" /\ Places(k) = {} => Dropped(k)

\* The keys that are taken by one way are taken in the order in which they were typed.
InOrder == \A m, n \in 1 .. Len(taken) :
  m < n /\ taken[m][1] = taken[n][1] => taken[m][2] < taken[n][2]

\* main leaves the terminal as it found it, whichever step of enableRawMode failed.
TerminalRestored == process = "returned" => ~raw /\ ~nonblocking

\* isUartIrqPending.  An interrupt, once raised, is held until the guest takes its cause
\* (a key, or the transmitter named by IIR) or disables it.
Irq == (slot # NoKey /\ "rx" \in ier) \/ (txIrq /\ "tx" \in ier)
InterruptHeld ==
  [][Irq /\ ~Irq' => ReadRhr \/ ReadIir \/ ier' # ier]_vars

\* What is typed is taken by the guest, or the process ends, or the guest waits for a key on
\* standard input in a terminal that could not be put into raw mode.
Waiting == slot # NoKey \/ tty # <<>>
KeysArrive == Waiting ~> ~Waiting \/ Ended \/ process = "blocked"

\* "Check for shutdown request (e.g., from Ctrl+C)" (RiscvCpu.cpp).
CtrlCStops == shutdown_requested ~> Ended
=============================================================================
