-------------------------- MODULE SimulatorProofs --------------------------
(***************************************************************************)
(* Theorems about Simulator, for every set of programs and every width of   *)
(* the program counter.                                                     *)
(***************************************************************************)
EXTENDS Simulator, TLAPS

\* The page between two events: it shows the counter, and whatever runs was asked for.
PageOK(p) ==
  /\ p \in Page
  /\ p.currentPC = Signed(p.pc)
  /\ ~p.asked => p.pc = 0 /\ ~p.highlightTimer /\ ~p.isRunning
  /\ p.highlightTimer => p.isRunning

-----------------------------------------------------------------------------
(* The displayed counter *)

LEMMA SignedOK ==
  ASSUME NEW n \in PC
  PROVE  /\ Signed(n) \in -(PcRange \div 2) .. PcRange \div 2 - 1
         /\ Signed(n) % PcRange = n
<1>1. PcRange \in Nat /\ PcRange > 0 /\ PcRange = 2 * (PcRange \div 2) /\ PcRange \div 2 \in Nat
  BY RangeAssumption
<1>2. n \in Nat /\ n < PcRange
  BY <1>1 DEF PC
<1>3. CASE n < PcRange \div 2
  <2>1. n % PcRange = n
    BY <1>1, <1>2
  <2> QED
    BY <1>1, <1>2, <1>3, <2>1 DEF Signed
<1>4. CASE ~(n < PcRange \div 2)
  <2>1. (n - PcRange) % PcRange = n
    BY <1>1, <1>2
  <2> QED
    BY <1>1, <1>2, <1>4, <2>1 DEF Signed
<1> QED
  BY <1>3, <1>4

\* A line that is executed is a line of the program.
LEMMA LineAtOK ==
  ASSUME editor \in Programs, NEW p \in Page, ~PastEnd(p), ~Throws(p)
  PROVE  LineAt(p) \in Line
<1>1. editor \in Seq(Line)
  BY ProgramsAssumption
<1>2. p.currentPC \in Int /\ p.currentPC >= 0
  BY DEF Throws, Page
<1>3. p.currentPC \div 4 + 1 \in 1 .. Len(editor)
  BY <1>1, <1>2 DEF PastEnd
<1> QED
  BY <1>1, <1>3 DEF LineAt

-----------------------------------------------------------------------------
(* The functions of the page *)

\* The page shows whatever value its counter has got.
LEMMA EmitOK ==
  ASSUME NEW p \in Page, NEW n \in PC,
         ~p.asked => n = 0 /\ ~p.highlightTimer /\ ~p.isRunning,
         p.highlightTimer => p.isRunning
  PROVE  PageOK(EmitPc([p EXCEPT !.pc = n]))
<1>1. Signed(n) \in Int
  BY SignedOK DEF PC
<1>2. PICK q : q = EmitPc([p EXCEPT !.pc = n])
  OBVIOUS
<1>3. q = [p EXCEPT !.pc = n, !.currentPC = Signed(n)]
  BY <1>2 DEF EmitPc, Page
<1>4. q \in Page /\ q.pc = n /\ q.currentPC = Signed(n)
  BY <1>1, <1>3 DEF Page
<1>5. q.asked = p.asked /\ q.highlightTimer = p.highlightTimer /\ q.isRunning = p.isRunning
  BY <1>3 DEF Page
<1> QED
  BY <1>2, <1>4, <1>5 DEF PageOK

LEMMA ResetOK ==
  ASSUME NEW p \in Page, ~p.highlightTimer, ~p.isRunning
  PROVE  PageOK(ResetPC(p))
<1>1. 0 \in PC
  BY RangeAssumption DEF PC
<1> QED
  BY <1>1, EmitOK DEF ResetPC

LEMMA StopOK ==
  ASSUME NEW p \in Page
  PROVE  PageOK(StopExecution(p)) /\ ~StopExecution(p).isRunning
<1>1. PICK q : q = [p EXCEPT !.stopNextStepExecution = FALSE, !.highlightTimer = FALSE,
                             !.isRunning = FALSE, !.line = -1, !.asked = FALSE, !.failed = FALSE]
  OBVIOUS
<1>2. q \in Page /\ ~q.highlightTimer /\ ~q.isRunning
  <2>1. -1 \in Int
    OBVIOUS
  <2> QED
    BY <1>1, <2>1 DEF Page
<1>3. ResetPC(q).isRunning = q.isRunning
  BY <1>2 DEF ResetPC, EmitPc, Page
<1> QED
  BY <1>1, <1>2, <1>3, ResetOK DEF StopExecution

LEMMA HighlightedOK ==
  ASSUME NEW p, PageOK(p)
  PROVE  PageOK(Highlighted(p)) /\ Highlighted(p).asked = p.asked
         /\ Highlighted(p).isRunning = p.isRunning
         /\ Highlighted(p).highlightTimer = p.highlightTimer
<1>1. p \in Page /\ p.currentPC \div 4 \in Int
  BY DEF PageOK, Page
<1>2. PICK q : q = Highlighted(p)
  OBVIOUS
<1>3. q = [p EXCEPT !.line = p.currentPC \div 4]
  BY <1>2 DEF Highlighted
<1>4. q \in Page
  BY <1>1, <1>3 DEF Page
<1>5. /\ q.pc = p.pc /\ q.currentPC = p.currentPC /\ q.asked = p.asked
      /\ q.isRunning = p.isRunning /\ q.highlightTimer = p.highlightTimer
  BY <1>1, <1>3 DEF Page
<1> QED
  BY <1>2, <1>4, <1>5 DEF PageOK

LEMMA SendOK ==
  ASSUME NEW p, PageOK(p), p.asked, NEW l \in Line
  PROVE  PageOK(SendCommand(p, l)) /\ SendCommand(p, l).isRunning = p.isRunning
         /\ SendCommand(p, l).asked = p.asked
<1>1. p \in Page
  BY DEF PageOK
<1>2. PICK q : q = CASE l.kind = "vector" -> [p EXCEPT !.target = l.to]
                      [] l.kind = "trap"   -> [p EXCEPT !.pc = p.target]
                      [] OTHER             -> p
  OBVIOUS
<1>3. /\ q \in Page /\ q.asked = p.asked /\ q.isRunning = p.isRunning
      /\ q.highlightTimer = p.highlightTimer
  <2>1. CASE l.kind = "vector"
    BY <1>1, <1>2, <2>1 DEF Page, Line
  <2>2. CASE l.kind = "trap"
    BY <1>1, <1>2, <2>2 DEF Page, Line
  <2>3. CASE l.kind \notin {"vector", "trap"}
    BY <1>1, <1>2, <2>3 DEF Page, Line
  <2> QED
    BY <2>1, <2>2, <2>3
<1>4. q = [q EXCEPT !.pc = q.pc] /\ q.pc \in PC
  BY <1>3 DEF Page
<1>5. PageOK(EmitPc(q))
  BY <1>3, <1>4, EmitOK DEF PageOK
<1>6. EmitPc(q).isRunning = q.isRunning /\ EmitPc(q).asked = q.asked
  BY <1>3 DEF EmitPc, Page
<1> QED
  BY <1>2, <1>3, <1>5, <1>6 DEF SendCommand

\* highlightAndExecuteNextLine: the timer or Run asked for it.
LEMMA ExecuteOK ==
  ASSUME editor \in Programs, NEW p, PageOK(p), p.asked
  PROVE  LET q == HighlightAndExecuteNextLine(p) IN PageOK(q) /\ (q.isRunning => q.asked)
<1>1. p \in Page
  BY DEF PageOK
<1>2. CASE Blank
  <2>1. PICK r : r = [p EXCEPT !.isRunning = FALSE, !.highlightTimer = FALSE, !.asked = FALSE]
    OBVIOUS
  <2>2. r \in Page /\ ~r.highlightTimer /\ ~r.isRunning
    BY <1>1, <2>1 DEF Page
  <2>3. ResetPC(r).isRunning = r.isRunning
    BY <2>2 DEF ResetPC, EmitPc, Page
  <2>4. HighlightAndExecuteNextLine(p) = ResetPC(r)
    BY <1>2, <2>1 DEF HighlightAndExecuteNextLine
  <2> QED
    BY <2>2, <2>3, <2>4, ResetOK
<1>3. CASE ~Blank /\ PastEnd(p)
  BY <1>1, <1>3, StopOK DEF HighlightAndExecuteNextLine
<1>4. CASE ~Blank /\ ~PastEnd(p) /\ Throws(p)
  BY <1>4, HighlightedOK DEF HighlightAndExecuteNextLine
<1>5. CASE ~Blank /\ ~PastEnd(p) /\ ~Throws(p) /\ Fails(LineAt(p))
  <2>1. PICK h : h = Highlighted(p) /\ PageOK(h) /\ h.asked
    BY HighlightedOK
  <2>2. PICK q : q = [h EXCEPT !.stopExecutionTimer = TRUE, !.highlightTimer = FALSE, !.failed = TRUE]
    OBVIOUS
  <2>3. h \in Page
    BY <2>1 DEF PageOK
  <2>4. /\ q \in Page /\ q.asked = h.asked /\ q.pc = h.pc /\ q.currentPC = h.currentPC
        /\ ~q.highlightTimer
    BY <2>2, <2>3 DEF Page
  <2>5. q = HighlightAndExecuteNextLine(p)
    BY <1>5, <2>1, <2>2 DEF HighlightAndExecuteNextLine
  <2> QED
    BY <2>1, <2>4, <2>5 DEF PageOK
<1>6. CASE ~Blank /\ ~PastEnd(p) /\ ~Throws(p) /\ ~Fails(LineAt(p))
  <2>1. HighlightAndExecuteNextLine(p) = SendCommand(Highlighted(p), LineAt(p))
    BY <1>6 DEF HighlightAndExecuteNextLine
  <2>2. LineAt(p) \in Line
    BY <1>1, <1>6, LineAtOK
  <2> QED
    BY <2>1, <2>2, HighlightedOK, SendOK
<1> QED
  BY <1>2, <1>3, <1>4, <1>5, <1>6

LEMMA StartOK ==
  ASSUME editor \in Programs, NEW p, PageOK(p)
  PROVE  PageOK(StartExecution(p))
<1>1. PICK r : r = [p EXCEPT !.isRunning = TRUE, !.asked = TRUE]
  OBVIOUS
<1>2. PageOK(r) /\ r.asked
  <2>1. r \in Page /\ r.asked /\ r.isRunning /\ r.pc = p.pc /\ r.currentPC = p.currentPC
    BY <1>1 DEF PageOK, Page
  <2> QED
    BY <2>1 DEF PageOK
<1>3. PICK q : q = HighlightAndExecuteNextLine(r)
  OBVIOUS
<1>4. PageOK(q) /\ (q.isRunning => q.asked)
  BY <1>2, <1>3, ExecuteOK
<1>5. CASE q.isRunning /\ ~Throws(p)
  <2>1. PICK t : t = [q EXCEPT !.highlightTimer = TRUE]
    OBVIOUS
  <2>2. /\ t \in Page /\ t.asked = q.asked /\ t.isRunning = q.isRunning
        /\ t.pc = q.pc /\ t.currentPC = q.currentPC
    BY <1>4, <2>1 DEF PageOK, Page
  <2>3. t = StartExecution(p)
    BY <1>1, <1>3, <1>5, <2>1 DEF StartExecution
  <2> QED
    BY <1>4, <1>5, <2>2, <2>3 DEF PageOK
<1>6. CASE ~(q.isRunning /\ ~Throws(p))
  BY <1>1, <1>3, <1>4, <1>6 DEF StartExecution
<1> QED
  BY <1>5, <1>6

LEMMA StepOK ==
  ASSUME editor \in Programs, NEW p, PageOK(p), ~p.highlightTimer
  PROVE  PageOK(StepExecution(p))
<1>0. p \in Page
  BY DEF PageOK
<1>1. PICK q : q = IF p.line = -1 THEN [p EXCEPT !.isRunning = TRUE, !.line = 0, !.asked = TRUE]
                                  ELSE [p EXCEPT !.asked = TRUE]
  OBVIOUS
<1>2. PageOK(q) /\ q.asked /\ q.currentPC = p.currentPC
  <2>1. 0 \in Int
    OBVIOUS
  <2>2. q \in Page /\ q.asked /\ q.pc = p.pc /\ q.currentPC = p.currentPC /\ ~q.highlightTimer
    <3>1. CASE p.line = -1
      BY <1>0, <1>1, <2>1, <3>1 DEF Page
    <3>2. CASE p.line # -1
      BY <1>0, <1>1, <3>2 DEF Page
    <3> QED
      BY <3>1, <3>2
  <2> QED
    BY <2>2 DEF PageOK
<1>3. CASE Blank
  <2>1. PICK r : r = [p EXCEPT !.isRunning = FALSE]
    OBVIOUS
  <2>2. /\ r \in Page /\ ~r.isRunning /\ ~r.highlightTimer /\ r.asked = p.asked
        /\ r.pc = p.pc /\ r.currentPC = p.currentPC
    BY <1>0, <2>1 DEF Page
  <2>3. r = StepExecution(p)
    BY <1>3, <2>1 DEF StepExecution
  <2> QED
    BY <2>2, <2>3 DEF PageOK
<1>4. CASE ~Blank /\ (p.stopNextStepExecution \/ PastEnd(p))
  <2>1. StepExecution(p) = StopExecution(p)
    BY <1>4 DEF StepExecution, Throws
  <2> QED
    BY <1>0, <2>1, StopOK
<1>5. CASE ~Blank /\ ~p.stopNextStepExecution /\ ~PastEnd(p) /\ Throws(p)
  <2>1. StepExecution(p) = Highlighted(q)
    BY <1>1, <1>5 DEF StepExecution
  <2> QED
    BY <1>2, <2>1, HighlightedOK
<1>6. CASE ~Blank /\ ~p.stopNextStepExecution /\ ~PastEnd(p) /\ ~Throws(p) /\ Fails(LineAt(p))
  <2>1. PICK h : h = Highlighted(q) /\ PageOK(h) /\ h.asked
    BY <1>2, HighlightedOK
  <2>2. PICK r : r = [h EXCEPT !.stopNextStepExecution = TRUE]
    OBVIOUS
  <2>3. /\ r \in Page /\ r.asked = h.asked /\ r.pc = h.pc /\ r.currentPC = h.currentPC
        /\ r.highlightTimer = h.highlightTimer /\ r.isRunning = h.isRunning
    BY <2>1, <2>2 DEF PageOK, Page
  <2>4. r = StepExecution(p)
    BY <1>1, <1>6, <2>1, <2>2 DEF StepExecution
  <2> QED
    BY <2>1, <2>3, <2>4 DEF PageOK
<1>7. CASE ~Blank /\ ~p.stopNextStepExecution /\ ~PastEnd(p) /\ ~Throws(p) /\ ~Fails(LineAt(p))
  <2>1. StepExecution(p) = SendCommand(Highlighted(q), LineAt(p))
    BY <1>1, <1>7 DEF StepExecution
  <2>2. LineAt(p) \in Line
    BY <1>0, <1>7, LineAtOK
  <2> QED
    BY <1>2, <2>1, <2>2, HighlightedOK, SendOK
<1> QED
  BY <1>3, <1>4, <1>5, <1>6, <1>7

-----------------------------------------------------------------------------
(* The invariant *)

PageInv == editor \in Programs /\ PageOK(Cur)

\* Committing a page makes it the current one.
LEMMA CommitOK ==
  ASSUME NEW p, PageOK(p), Commit(p)
  PROVE  PageOK(Cur)'
<1>1. p = [pc |-> p.pc, target |-> p.target, currentPC |-> p.currentPC, isRunning |-> p.isRunning,
           line |-> p.line, highlightTimer |-> p.highlightTimer,
           stopExecutionTimer |-> p.stopExecutionTimer,
           stopNextStepExecution |-> p.stopNextStepExecution, asked |-> p.asked, failed |-> p.failed]
  BY DEF PageOK, Page
<1>2. Cur' = p
  BY <1>1 DEF Cur, Commit
<1> QED
  BY <1>2 DEF PageOK

LEMMA PageInductive == PageInv /\ [Next]_vars => PageInv'
<1> SUFFICES ASSUME PageInv, [Next]_vars PROVE PageInv'
  OBVIOUS
<1>0. /\ editor \in Programs /\ PageOK(Cur) /\ Cur \in Page
      /\ Cur.highlightTimer = highlightTimer /\ Cur.isRunning = isRunning /\ Cur.asked = asked
      /\ Cur.pc = pc /\ Cur.currentPC = currentPC
  BY DEF PageInv, PageOK, Cur
<1>1. CASE Run
  BY <1>0, <1>1, StartOK, CommitOK DEF Run, PageInv
<1>2. CASE Step
  BY <1>0, <1>2, StepOK, CommitOK DEF Step, PageInv
<1>3. CASE Pause
  <2>1. PICK p : p = [Cur EXCEPT !.highlightTimer = FALSE]
    OBVIOUS
  <2>2. /\ p \in Page /\ ~p.highlightTimer /\ p.asked = asked /\ p.isRunning = isRunning
        /\ p.pc = pc /\ p.currentPC = currentPC
    BY <1>0, <2>1 DEF Page
  <2>3. PageOK(p)
    BY <1>0, <2>2 DEF PageOK
  <2> QED
    BY <1>0, <1>3, <2>1, <2>3, CommitOK DEF Pause, PageInv
<1>4. CASE Stop
  BY <1>0, <1>4, StopOK, CommitOK DEF Stop, PageInv
<1>5. CASE Reset
  <2>1. PICK p : p = [Cur EXCEPT !.stopNextStepExecution = FALSE, !.highlightTimer = FALSE,
                                 !.isRunning = FALSE, !.line = -1, !.asked = FALSE, !.failed = FALSE]
    OBVIOUS
  <2>2. -1 \in Int
    OBVIOUS
  <2>3. p \in Page /\ ~p.highlightTimer /\ ~p.isRunning
    BY <1>0, <2>1, <2>2 DEF Page
  <2> QED
    BY <1>0, <1>5, <2>1, <2>3, ResetOK, CommitOK DEF Reset, PageInv
<1>6. CASE Edit
  BY <1>0, <1>6, CommitOK DEF Edit, PageInv
<1>7. CASE HighlightTimerTriggered
  <2>1. Cur.asked
    BY <1>0, <1>7 DEF HighlightTimerTriggered, PageOK
  <2> QED
    BY <1>0, <1>7, <2>1, ExecuteOK, CommitOK DEF HighlightTimerTriggered, PageInv
<1>8. CASE StopExecutionTimerTriggered
  <2>1. PICK p \in Page : p = [Cur EXCEPT !.stopExecutionTimer = FALSE]
    BY <1>0 DEF Page
  <2> QED
    BY <1>0, <1>8, <2>1, StopOK, CommitOK DEF StopExecutionTimerTriggered, PageInv
<1>9. CASE UNCHANGED vars
  BY <1>9 DEF vars, PageInv, PageOK, Cur
<1> QED
  BY <1>1, <1>2, <1>3, <1>4, <1>5, <1>6, <1>7, <1>8, <1>9 DEF Next

LEMMA PageInvariant == Spec => []PageInv
<1>1. Init => PageInv
  <2> SUFFICES ASSUME Init PROVE PageInv
    OBVIOUS
  <2>1. 0 \in PC /\ Signed(0) = 0 /\ 0 \in Int /\ -1 \in Int
    <3>1. PcRange \in Nat /\ PcRange >= 2
      BY RangeAssumption
    <3>2. 0 < PcRange \div 2
      BY <3>1
    <3> QED
      BY <3>1, <3>2 DEF PC, Signed
  <2>2. Cur \in Page
    BY <2>1 DEF Init, Cur, Page
  <2> QED
    BY <2>1, <2>2 DEF Init, PageInv, PageOK, Cur
<1> QED
  BY <1>1, PageInductive, PTL DEF Spec

\* The displayed counter always fits the int that carries it.
THEOREM TypeCorrect == Spec => []TypeOK
<1>1. PageInv => TypeOK
  <2> SUFFICES ASSUME PageInv PROVE TypeOK
    OBVIOUS
  <2>1. Cur \in Page /\ currentPC = Signed(pc) /\ pc \in PC
    BY DEF PageInv, PageOK, Page, Cur
  <2> QED
    BY <2>1, SignedOK DEF TypeOK, PageInv
<1> QED
  BY <1>1, PageInvariant, PTL

\* The page decides by the counter that the processor has.
THEOREM DisplayFollows == Spec => []DisplayFollowsPc
<1>1. PageInv => DisplayFollowsPc
  <2> SUFFICES ASSUME PageInv PROVE DisplayFollowsPc
    OBVIOUS
  <2>1. currentPC = Signed(pc) /\ pc \in PC
    BY DEF PageInv, PageOK, Page, Cur
  <2> QED
    BY <2>1, SignedOK DEF DisplayFollowsPc
<1> QED
  BY <1>1, PageInvariant, PTL

\* After Stop, Reset or the end of the program nothing runs and the counter is 0.
THEOREM StoppedIsRewound == Spec => []StoppedMeansRewound
<1>1. PageInv => StoppedMeansRewound
  BY DEF PageInv, PageOK, Cur, StoppedMeansRewound
<1> QED
  BY <1>1, PageInvariant, PTL

\* Whatever executes lines by itself can be paused.
THEOREM TimersArePausable == Spec => []TimerIsPausable
<1>1. PageInv => TimerIsPausable
  BY DEF PageInv, PageOK, Cur, TimerIsPausable
<1> QED
  BY <1>1, PageInvariant, PTL
=============================================================================
