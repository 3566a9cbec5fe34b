----------------------------- MODULE Simulator -----------------------------
(***************************************************************************)
(* The simulator's main page: MainPage.qml, whose buttons and timers run    *)
(* the program in the editor line by line, CpuWrapper, and the processor    *)
(* that executes one assembly line.                                         *)
(*                                                                          *)
(* A line of the program is what it does to the page and to the program     *)
(* counter.  Registers, memory, the privilege mode, highlights and the      *)
(* console log are abstracted, and so are lines that end in a page fault.   *)
(***************************************************************************)
EXTENDS Integers, Sequences

CONSTANTS
  Programs,  \* texts that the user types into the editor, as sequences of lines
  PcRange    \* number of values of the program counter (2^32)

VARIABLES
  editor,     \* assemblyEditor.text
  pc,         \* RiscvCpu::_pc
  target,     \* where the next trap or trap return goes: MTVEC, MEPC
  currentPC,  \* pcDisplay.currentPC
  isRunning,
  line,       \* currentHighlightedLine
  highlightTimer, stopExecutionTimer,  \* whether they are running
  stopNextStepExecution,
  asked,      \* history: Run or Step since the program was last rewound
  failed      \* history: a line failed under Run since then

vars == <<editor, pc, target, currentPC, isRunning, line, highlightTimer,
          stopExecutionTimer, stopNextStepExecution, asked, failed>>

PC == 0 .. PcRange - 1

\* Lines: a jump or a branch, a CSR instruction that sets where traps go, a trap or a trap
\* return, a line that does not assemble (nor does an empty one), any other instruction.
Line == [kind : {"plain", "jump", "vector", "trap", "bad", "empty"}, to : PC]

ASSUME ProgramsAssumption == Programs # {} /\ Programs \subseteq Seq(Line) \ {<<>>}
ASSUME RangeAssumption == PcRange \in Nat /\ PcRange > 0 /\ PcRange % 8 = 0

\* The page and the processor as a value, for the functions that call each other.
Page == [pc : PC, target : PC, currentPC : Int, isRunning : BOOLEAN, line : Int,
         highlightTimer : BOOLEAN, stopExecutionTimer : BOOLEAN,
         stopNextStepExecution : BOOLEAN, asked : BOOLEAN, failed : BOOLEAN]
Cur == [pc |-> pc, target |-> target, currentPC |-> currentPC, isRunning |-> isRunning,
        line |-> line, highlightTimer |-> highlightTimer,
        stopExecutionTimer |-> stopExecutionTimer,
        stopNextStepExecution |-> stopNextStepExecution, asked |-> asked, failed |-> failed]
Commit(p) ==
  /\ pc' = p.pc /\ target' = p.target /\ currentPC' = p.currentPC
  /\ isRunning' = p.isRunning /\ line' = p.line
  /\ highlightTimer' = p.highlightTimer /\ stopExecutionTimer' = p.stopExecutionTimer
  /\ stopNextStepExecution' = p.stopNextStepExecution
  /\ asked' = p.asked /\ failed' = p.failed

-----------------------------------------------------------------------------
(* CpuWrapper *)

\* Mutant: the counter is shown as it is.
Signed_not(n) == n

\* pcChanged(int): the counter is a uint32_t.
Signed(n) == IF n < PcRange \div 2 THEN n ELSE n - PcRange

EmitPc(p) == [p EXCEPT !.currentPC = Signed(p.pc)]

\* Mutant: the page is not told.
ResetPC_silent(p) == [p EXCEPT !.pc = 0]

ResetPC(p) == EmitPc([p EXCEPT !.pc = 0])

\* A line that assembles is executed and the counter shown.  Only traps and trap returns
\* write _pc: a jump writes _nextPc, which executeAsmCommand does not commit.
SendCommand(p, l) ==
  EmitPc(CASE l.kind = "vector" -> [p EXCEPT !.target = l.to]
           [] l.kind = "trap"   -> [p EXCEPT !.pc = p.target]
           [] OTHER             -> p)

Fails(l) == l.kind \in {"bad", "empty"}

-----------------------------------------------------------------------------
(* The functions of MainPage.qml *)

Blank == Len(editor) = 1 /\ editor[1].kind = "empty"

StopExecution(p) ==
  ResetPC([p EXCEPT !.stopNextStepExecution = FALSE, !.highlightTimer = FALSE,
                    !.isRunning = FALSE, !.line = -1, !.asked = FALSE, !.failed = FALSE])

PastEnd(p) == p.currentPC \div 4 >= Len(editor) \/ p.currentPC % 4 # 0

\* A negative line number: lines[currentHighlightedLine].trim() throws a TypeError,
\* which ends the function and whoever called it.
Throws(p) == ~PastEnd(p) /\ p.currentPC < 0

Highlighted(p) == [p EXCEPT !.line = p.currentPC \div 4]
LineAt(p) == editor[p.currentPC \div 4 + 1]

\* Mutant: a failing line stops the timer that runs lines, and nothing else.
HighlightAndExecuteNextLine_nostop(p) ==
  CASE Blank -> ResetPC([p EXCEPT !.isRunning = FALSE, !.highlightTimer = FALSE, !.asked = FALSE])
    [] ~Blank /\ PastEnd(p) -> StopExecution(p)
    [] ~Blank /\ ~PastEnd(p) /\ Throws(p) -> Highlighted(p)
    [] ~Blank /\ ~PastEnd(p) /\ ~Throws(p) /\ Fails(LineAt(p)) ->
         [Highlighted(p) EXCEPT !.highlightTimer = FALSE, !.failed = TRUE]
    [] OTHER -> SendCommand(Highlighted(p), LineAt(p))

HighlightAndExecuteNextLine(p) ==
  CASE Blank -> ResetPC([p EXCEPT !.isRunning = FALSE, !.highlightTimer = FALSE, !.asked = FALSE])
    [] ~Blank /\ PastEnd(p) -> StopExecution(p)
    [] ~Blank /\ ~PastEnd(p) /\ Throws(p) -> Highlighted(p)
    [] ~Blank /\ ~PastEnd(p) /\ ~Throws(p) /\ Fails(LineAt(p)) ->
         [Highlighted(p) EXCEPT !.stopExecutionTimer = TRUE, !.highlightTimer = FALSE, !.failed = TRUE]
    [] OTHER -> SendCommand(Highlighted(p), LineAt(p))

\* The timer is started also when the first line has just failed.
StartExecution(p) ==
  LET q == HighlightAndExecuteNextLine([p EXCEPT !.isRunning = TRUE, !.asked = TRUE])
  IN  IF q.isRunning /\ ~Throws(p) THEN [q EXCEPT !.highlightTimer = TRUE] ELSE q

StepExecution(p) ==
  LET q == IF p.line = -1 THEN [p EXCEPT !.isRunning = TRUE, !.line = 0, !.asked = TRUE]
                          ELSE [p EXCEPT !.asked = TRUE]
  IN  CASE Blank -> [p EXCEPT !.isRunning = FALSE]
        [] ~Blank /\ (p.stopNextStepExecution \/ PastEnd(p)) -> StopExecution(p)
        [] ~Blank /\ ~p.stopNextStepExecution /\ Throws(p) -> Highlighted(q)
        [] ~Blank /\ ~p.stopNextStepExecution /\ ~PastEnd(p) /\ ~Throws(p) /\ Fails(LineAt(p)) ->
             [Highlighted(q) EXCEPT !.stopNextStepExecution = TRUE]
        [] OTHER -> SendCommand(Highlighted(q), LineAt(p))

-----------------------------------------------------------------------------
(* What the user and the timers do *)

Run == ~highlightTimer /\ ~Blank /\ Commit(StartExecution(Cur)) /\ UNCHANGED editor

Step == ~highlightTimer /\ Commit(StepExecution(Cur)) /\ UNCHANGED editor

Pause == isRunning /\ Commit([Cur EXCEPT !.highlightTimer = FALSE]) /\ UNCHANGED editor

Stop == Commit(StopExecution(Cur)) /\ UNCHANGED editor

\* Mutant: the timer goes on.
Reset_ticking ==
  /\ Commit(ResetPC([Cur EXCEPT !.stopNextStepExecution = FALSE, !.isRunning = FALSE,
                                !.line = -1, !.asked = FALSE, !.failed = FALSE]))
  /\ UNCHANGED editor

\* resetGUI() wipes registers and memory; the CSRs, and so `target`, stay.
Reset ==
  /\ Commit(ResetPC([Cur EXCEPT !.stopNextStepExecution = FALSE, !.highlightTimer = FALSE,
                                !.isRunning = FALSE, !.line = -1, !.asked = FALSE, !.failed = FALSE]))
  /\ UNCHANGED editor

Edit == \E text \in Programs : editor' = text /\ Commit(Cur)

HighlightTimerTriggered ==
  highlightTimer /\ Commit(HighlightAndExecuteNextLine(Cur)) /\ UNCHANGED editor

StopExecutionTimerTriggered ==
  /\ stopExecutionTimer
  /\ Commit(StopExecution([Cur EXCEPT !.stopExecutionTimer = FALSE]))
  /\ UNCHANGED editor

Init == /\ editor \in Programs
        /\ pc = 0 /\ target = 0 /\ currentPC = 0
        /\ isRunning = FALSE /\ line = -1
        /\ highlightTimer = FALSE /\ stopExecutionTimer = FALSE
        /\ stopNextStepExecution = FALSE
        /\ asked = FALSE /\ failed = FALSE

Next == \/ Run \/ Step \/ Pause \/ Stop \/ Reset \/ Edit
        \/ HighlightTimerTriggered \/ StopExecutionTimerTriggered

\* The event loop fires a timer that is running; users do what they like.
Fairness == WF_vars(HighlightTimerTriggered) /\ WF_vars(StopExecutionTimerTriggered)

Spec == Init /\ [][Next]_vars /\ Fairness

-----------------------------------------------------------------------------
(* Properties *)

\* Type invariant.  The displayed counter fits the int that carries it.
TypeOK == /\ editor \in Programs
          /\ Cur \in Page
          /\ currentPC \in -(PcRange \div 2) .. PcRange \div 2 - 1

\* The line that the page executes next is the one that the processor's counter names:
\* the page decides by what it displays, whatever traps, rewinds and edits came between.
DisplayFollowsPc == currentPC % PcRange = pc

\* "Stops execution, resets PC to 0" (README.md): after Stop, Reset or the end of the
\* program no timer executes a line and the counter is 0, until the next Run or Step.
StoppedMeansRewound == ~asked => pc = 0 /\ ~highlightTimer /\ ~isRunning

\* A line that executes under Run can be paused: Pause looks at isRunning.
TimerIsPausable == highlightTimer => isRunning

\* A line that fails under Run rewinds the program in the end, whatever the user does.
FailureEndsRun == failed ~> ~failed

\* "Executes a single instruction and advances the Program Counter" (README.md, Step).
StepAdvances ==
  [][Step /\ asked' /\ line' >= 0 /\ editor[line' + 1].kind = "plain" => pc' = (pc + 4) % PcRange]_vars
=============================================================================
