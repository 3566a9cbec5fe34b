--------------------------- MODULE ConsoleProofs ---------------------------
(***************************************************************************)
(* Theorems about Console, for every number of keys and every interval      *)
(* between two looks at the keyboard.                                       *)
(***************************************************************************)
EXTENDS Console, TLAPS, SequenceTheorems

-----------------------------------------------------------------------------
(* The terminal *)

\* What main may still have to undo is marked by raw_mode_enabled, from the moment when
\* enableRawMode can no longer fail.
TerminalInv ==
  /\ step \in {1, 2, 3, 4, 5, 6}
  /\ raw_mode_enabled \in BOOLEAN
  /\ process = "starting" => /\ step \in {1, 2, 3} => raw = FALSE
                             /\ step \in {1, 2, 3, 4} => nonblocking = FALSE
                             /\ raw_mode_enabled = TRUE <=> step = 6
  /\ process \in {"running", "blocked"} /\ raw_mode_enabled = FALSE => raw = FALSE /\ nonblocking = FALSE
  /\ process = "returned" => raw = FALSE /\ nonblocking = FALSE

LEMMA StepsAre == /\ Steps[1] = "tcgetattr" /\ Steps[2] = "F_GETFL" /\ Steps[3] = "tcsetattr"
                  /\ Steps[4] = "F_SETFL" /\ Steps[5] = "flag" /\ Steps[6] = "signal"
BY DEF Steps

LEMMA TerminalInductive == TerminalInv /\ [Next]_vars => TerminalInv'
<1> SUFFICES ASSUME TerminalInv, [Next]_vars PROVE TerminalInv'
  OBVIOUS
<1>1. CASE EnableRawMode
  <2>0. process = "starting" /\ step \in {1, 2, 3, 4, 5, 6}
    BY <1>1 DEF EnableRawMode, TerminalInv
  <2>1. CASE step \in {1, 2}
    <3>1. Steps[step] \in {"tcgetattr", "F_GETFL"}
      BY <2>1, StepsAre
    <3>2. (step' \in {2, 3} /\ process' = process) \/ (process' = "running" /\ step' = step)
      BY <1>1, <2>1, <3>1 DEF EnableRawMode, Advance, GiveUp
    <3>3. UNCHANGED terminal
      BY <1>1, <3>1 DEF EnableRawMode
    <3> QED
      BY <2>0, <2>1, <3>2, <3>3 DEF TerminalInv, terminal
  <2>2. CASE step = 3
    <3>1. Steps[step] = "tcsetattr"
      BY <2>2, StepsAre
    <3>2. \/ step' = 4 /\ process' = process /\ UNCHANGED <<nonblocking, raw_mode_enabled>>
          \/ process' = "running" /\ step' = step /\ UNCHANGED terminal
      BY <1>1, <2>2, <3>1 DEF EnableRawMode, Advance, GiveUp
    <3> QED
      BY <2>0, <2>2, <3>2 DEF TerminalInv, terminal
  <2>3. CASE step = 4
    <3>1. Steps[step] = "F_SETFL"
      BY <2>3, StepsAre
    <3>2. \/ step' = 5 /\ process' = process /\ UNCHANGED raw_mode_enabled
          \/ /\ process' = "running" /\ step' = step /\ raw' = FALSE
             /\ UNCHANGED <<nonblocking, raw_mode_enabled>>
      BY <1>1, <2>3, <3>1 DEF EnableRawMode, Advance, GiveUp
    <3> QED
      BY <2>0, <2>3, <3>2 DEF TerminalInv
  <2>4. CASE step = 5
    <3>1. Steps[step] = "flag"
      BY <2>4, StepsAre
    <3>2. step' = 6 /\ process' = process /\ raw_mode_enabled' = TRUE
      BY <1>1, <2>4, <3>1 DEF EnableRawMode, Advance
    <3> QED
      BY <2>0, <3>2 DEF TerminalInv
  <2>5. CASE step = 6
    <3>1. Steps[step] = "signal"
      BY <2>5, StepsAre
    <3>2. process' = "running" /\ step' = step /\ UNCHANGED raw_mode_enabled
      BY <1>1, <3>1 DEF EnableRawMode, GiveUp
    <3> QED
      BY <2>0, <2>5, <3>2 DEF TerminalInv
  <2> QED
    BY <2>0, <2>1, <2>2, <2>3, <2>4, <2>5
<1>2. CASE Return
  BY <1>2 DEF Return, DisableRawMode, TerminalInv
<1>3. CASE CtrlC
  BY <1>3 DEF CtrlC, TerminalInv, terminal
<1>4. CASE Type
  BY <1>4 DEF Type, TerminalInv, terminal
<1>5. ASSUME Iteration, process' \in {process, "blocked"} PROVE TerminalInv'
  BY <1>5 DEF Iteration, TerminalInv, terminal
<1>6. CASE ReadStdinReturns
  BY <1>6 DEF ReadStdinReturns, TerminalInv, terminal
<1>7. CASE UNCHANGED vars
  BY <1>7 DEF vars, TerminalInv, terminal
<1> QED
  BY <1>1, <1>2, <1>3, <1>4, <1>5, <1>6, <1>7
     DEF Next, OtherInstruction, ReadRhr, ReadIir, WriteThr, WriteIer, WriteLcr, ReadStdin, ReadStdinBlocks

\* Whichever step of enableRawMode fails, main leaves the terminal as it found it.
THEOREM TerminalIsRestored == Spec => []TerminalRestored
<1>1. Init => TerminalInv
  <2>1. 1 # 6 /\ 1 \in {1, 2, 3, 4, 5, 6}
    OBVIOUS
  <2>2. FALSE \in BOOLEAN /\ FALSE # TRUE
    OBVIOUS
  <2> QED
    BY <2>1, <2>2, Zenon DEF Init, TerminalInv
<1>2. TerminalInv => TerminalRestored
  BY DEF TerminalInv, TerminalRestored
<1> QED
  BY <1>1, <1>2, TerminalInductive, PTL DEF Spec

-----------------------------------------------------------------------------
(* The UART's interrupt *)

\* A raised interrupt falls only by what the guest does about it.
THEOREM InterruptIsHeld == Spec => InterruptHeld
<1>1. [Next]_vars => [Irq /\ ~Irq' => ReadRhr \/ ReadIir \/ ier' # ier]_vars
  <2> SUFFICES ASSUME [Next]_vars, Irq, ~Irq', ~ReadRhr, ~ReadIir, ier' = ier PROVE UNCHANGED vars
    OBVIOUS
  <2>1. ASSUME slot # NoKey => slot' # NoKey, txIrq => txIrq' PROVE FALSE
    BY <2>1 DEF Irq
  <2>2. slot # NoKey => Polled.slot # NoKey
    BY DEF Polled
  <2>3. CASE OtherInstruction \/ ReadStdin \/ ReadStdinBlocks \/ \E d \in BOOLEAN : WriteLcr(d)
    BY <2>1, <2>2, <2>3 DEF OtherInstruction, ReadStdin, ReadStdinBlocks, WriteLcr
  <2>4. CASE WriteThr \/ \E enable \in SUBSET {"rx", "tx"} : WriteIer(enable)
    BY <2>1, <2>2, <2>4 DEF WriteThr, WriteIer
  <2>5. CASE EnableRawMode \/ Return \/ CtrlC \/ Type \/ ReadStdinReturns
    BY <2>1, <2>5 DEF EnableRawMode, Return, CtrlC, Type, ReadStdinReturns, uart
  <2> QED
    BY <2>3, <2>4, <2>5 DEF Next
<1> QED
  BY <1>1, PTL DEF Spec, InterruptHeld

-----------------------------------------------------------------------------
(* The way of a key: from the terminal t, through stdin's buffer s or the slot x, to r, *)
(* what the guest has taken, when the keys ks have been typed                           *)

Ways == {"uart", "stdin", "dropped"}
FgetcWays == {"stdin", "dropped"}

RouteTypes(n, t, s, x, r) ==
  t \in Seq(1 .. n) /\ s \in Seq(1 .. n) /\ x \in 0 .. n /\ r \in Seq(Ways \X (1 .. n))

\* What has left the terminal came before what is still in it.
Behind(t, s, x, r) ==
  /\ \A d, j \in 1 .. Len(t) : d < j => t[d] < t[j]
  /\ \A d \in 1 .. Len(t) :
       /\ \A j \in 1 .. Len(s) : s[j] < t[d]
       /\ x < t[d]
       /\ \A m \in 1 .. Len(r) : r[m][2] < t[d]

\* The buffer and the slot hold their keys in order, and none that is held elsewhere.
Held(s, x, r) ==
  /\ \A d, j \in 1 .. Len(s) : d < j => s[d] < s[j]
  /\ \A d \in 1 .. Len(s) :
       /\ s[d] # x
       /\ \A m \in 1 .. Len(r) : r[m][2] # s[d] /\ (r[m][1] \in FgetcWays => r[m][2] < s[d])
  /\ x # 0 => \A m \in 1 .. Len(r) : r[m][2] # x /\ (r[m][1] = "uart" => r[m][2] < x)

\* What the guest has taken is in order for each way, and each key came once.
Delivered(r) ==
  \A m, k \in 1 .. Len(r) : m < k => r[m][2] # r[k][2] /\ (r[m][1] = r[k][1] => r[m][2] < r[k][2])

\* No key but 0xFF is missing.
Present(ks, t, s, x, r) ==
  \A k \in 1 .. Len(ks) : ks[k] = "key" =>
    \/ \E d \in 1 .. Len(t) : t[d] = k
    \/ \E d \in 1 .. Len(s) : s[d] = k
    \/ x = k
    \/ \E m \in 1 .. Len(r) : r[m][2] = k

Route(ks, t, s, x, r) ==
  /\ RouteTypes(Len(ks), t, s, x, r)
  /\ Behind(t, s, x, r) /\ Held(s, x, r) /\ Delivered(r)
  /\ Present(ks, t, s, x, r)

\* A queue, its head and its tail.
LEMMA QueueFacts ==
  ASSUME NEW n \in Nat, NEW q \in Seq(1 .. n), q # <<>>
  PROVE  /\ Len(q) \in Nat /\ Len(q) >= 1 /\ Head(q) = q[1] /\ Head(q) \in 1 .. n
         /\ Tail(q) \in Seq(1 .. n) /\ Len(Tail(q)) = Len(q) - 1
         /\ \A d \in 1 .. Len(Tail(q)) : Tail(q)[d] = q[d + 1] /\ d + 1 \in 1 .. Len(q)
         /\ \A d \in 1 .. Len(q) : d = 1 \/ (d - 1 \in 1 .. Len(Tail(q)) /\ q[d] = Tail(q)[d - 1])
<1>1. Len(q) \in Nat /\ Len(q) >= 1
  BY EmptySeq
<1>2. Head(q) = q[1] /\ Head(q) \in 1 .. n /\ Tail(q) \in Seq(1 .. n) /\ Len(Tail(q)) = Len(q) - 1
  BY HeadTailProperties
<1>3. \A d \in 1 .. Len(Tail(q)) : Tail(q)[d] = q[d + 1]
  BY HeadTailProperties
<1> QED
  BY <1>1, <1>2, <1>3

LEMMA TailIncreases ==
  ASSUME NEW n \in Nat, NEW q \in Seq(1 .. n), q # <<>>,
         \A d, j \in 1 .. Len(q) : d < j => q[d] < q[j]
  PROVE  /\ \A d, j \in 1 .. Len(Tail(q)) : d < j => Tail(q)[d] < Tail(q)[j]
         /\ \A d \in 1 .. Len(Tail(q)) : Head(q) < Tail(q)[d]
<1>1. /\ Len(q) \in Nat /\ Len(q) >= 1 /\ Head(q) = q[1]
      /\ Len(Tail(q)) = Len(q) - 1
      /\ \A d \in 1 .. Len(Tail(q)) : Tail(q)[d] = q[d + 1] /\ d + 1 \in 1 .. Len(q)
  BY QueueFacts
<1>2. ASSUME NEW d \in 1 .. Len(Tail(q)), NEW j \in 1 .. Len(Tail(q)), d < j
      PROVE  Tail(q)[d] < Tail(q)[j]
  <2>1. d + 1 < j + 1 /\ d + 1 \in 1 .. Len(q) /\ j + 1 \in 1 .. Len(q)
    BY <1>1, <1>2
  <2>2. q[d + 1] < q[j + 1]
    BY <2>1
  <2> QED
    BY <1>1, <2>2
<1>3. ASSUME NEW d \in 1 .. Len(Tail(q)) PROVE Head(q) < Tail(q)[d]
  <2>1. 1 < d + 1 /\ 1 \in 1 .. Len(q) /\ d + 1 \in 1 .. Len(q)
    BY <1>1, <1>3
  <2>2. q[1] < q[d + 1]
    BY <2>1
  <2> QED
    BY <1>1, <2>2
<1> QED
  BY <1>2, <1>3

\* The key h has not arrived yet, nor by the way w a later one.
Fresh(r, w, h) == \A m \in 1 .. Len(r) : r[m][2] # h /\ (r[m][1] = w => r[m][2] < h)

\* q is r, and then h by the way w.
IsAppended(n, r, w, h, q) ==
  /\ q \in Seq(Ways \X (1 .. n)) /\ Len(q) = Len(r) + 1
  /\ \A m \in 1 .. Len(r) : m \in 1 .. Len(q) /\ q[m] = r[m]
  /\ Len(r) + 1 \in 1 .. Len(q) /\ q[Len(r) + 1][1] = w /\ q[Len(r) + 1][2] = h
  /\ \A m \in 1 .. Len(q) : m \in 1 .. Len(r) \/ m = Len(r) + 1
  /\ Delivered(q)

\* One more key for the guest, later than those that came the same way.
LEMMA DeliveredAppend ==
  ASSUME NEW n \in Nat, NEW r \in Seq(Ways \X (1 .. n)), NEW w \in Ways, NEW h \in 1 .. n,
         Delivered(r), Fresh(r, w, h)
  PROVE  IsAppended(n, r, w, h, Append(r, <<w, h>>))
<1> DEFINE q == Append(r, <<w, h>>)
<1>1. <<w, h>> \in Ways \X (1 .. n) /\ <<w, h>>[1] = w /\ <<w, h>>[2] = h
  OBVIOUS
<1>2. PICK len \in Nat : len = Len(r)
  BY LenProperties
<1>3. /\ q \in Seq(Ways \X (1 .. n)) /\ Len(q) = len + 1
      /\ \A m \in 1 .. len : q[m] = r[m]
      /\ q[len + 1] = <<w, h>>
  BY <1>1, <1>2, AppendProperties
<1>4. /\ \A m \in 1 .. len : m \in 1 .. len + 1
      /\ \A m \in 1 .. len + 1 : m \in 1 .. len \/ m = len + 1
      /\ len + 1 \in 1 .. len + 1
  BY <1>2
<1> HIDE DEF q
<1>5. ASSUME NEW m \in 1 .. len + 1, NEW k \in 1 .. len + 1, m < k
      PROVE  q[m][2] # q[k][2] /\ (q[m][1] = q[k][1] => q[m][2] < q[k][2])
  <2>1. m \in 1 .. len
    BY <1>2, <1>5
  <2>2. q[m] = r[m]
    BY <1>3, <2>1
  <2>3. CASE k \in 1 .. len
    <3>1. q[k] = r[k]
      BY <1>3, <2>3
    <3>2. r[m][2] # r[k][2] /\ (r[m][1] = r[k][1] => r[m][2] < r[k][2])
      BY <1>2, <1>5, <2>1, <2>3 DEF Delivered
    <3> QED
      BY <2>2, <3>1, <3>2
  <2>4. CASE k = len + 1
    <3>1. q[k][1] = w /\ q[k][2] = h
      BY <1>1, <1>3, <2>4
    <3>2. r[m][2] # h /\ (r[m][1] = w => r[m][2] < h)
      BY <1>2, <2>1 DEF Fresh
    <3> QED
      BY <2>2, <3>1, <3>2
  <2> QED
    BY <1>4, <2>3, <2>4
<1> QED
  BY <1>1, <1>2, <1>3, <1>4, <1>5 DEF Delivered, IsAppended, q

\* A key is typed.
LEMMA RouteTyped ==
  ASSUME NEW ks \in Seq({"key", "0xFF"}), NEW c \in {"key", "0xFF"}, NEW t, NEW s, NEW x, NEW r,
         Route(ks, t, s, x, r)
  PROVE  Route(Append(ks, c), Append(t, Len(ks) + 1), s, x, r)
<1> DEFINE n == Len(ks)
           u == Append(t, n + 1)
<1>1. n \in Nat /\ Len(Append(ks, c)) = n + 1 /\ \A k \in 1 .. n : Append(ks, c)[k] = ks[k]
  BY AppendProperties, EmptySeq
<1>2. t \in Seq(1 .. n) /\ s \in Seq(1 .. n) /\ x \in 0 .. n /\ r \in Seq(Ways \X (1 .. n))
  BY DEF Route, RouteTypes
<1>3. 1 .. n \subseteq 1 .. n + 1 /\ Ways \X (1 .. n) \subseteq Ways \X (1 .. n + 1)
  BY <1>1
<1>4. /\ t \in Seq(1 .. n + 1) /\ s \in Seq(1 .. n + 1) /\ x \in 0 .. n + 1
      /\ r \in Seq(Ways \X (1 .. n + 1)) /\ n + 1 \in 1 .. n + 1
  BY <1>1, <1>2, <1>3, SeqMonotonic
<1>5. /\ u \in Seq(1 .. n + 1) /\ Len(u) = Len(t) + 1 /\ Len(t) \in Nat
      /\ \A d \in 1 .. Len(t) : u[d] = t[d]
      /\ u[Len(t) + 1] = n + 1
  BY <1>4, AppendProperties, LenProperties
<1>6. /\ \A d \in 1 .. Len(t) : t[d] \in 1 .. n
      /\ \A d \in 1 .. Len(s) : s[d] \in 1 .. n
      /\ \A m \in 1 .. Len(r) : r[m][2] \in 1 .. n
  BY <1>2, ElementOfSeq
<1> HIDE DEF u, n
<1>7. Behind(t, s, x, r) /\ Held(s, x, r) /\ Delivered(r) /\ Present(ks, t, s, x, r)
  BY DEF Route
<1>8. RouteTypes(n + 1, u, s, x, r)
  BY <1>4, <1>5 DEF RouteTypes
<1>9. Behind(u, s, x, r)
  <2>1. \A d \in 1 .. Len(u) : (d \in 1 .. Len(t) /\ u[d] = t[d]) \/ (d = Len(t) + 1 /\ u[d] = n + 1)
    BY <1>5
  <2>2. \A d, j \in 1 .. Len(u) : d < j => u[d] < u[j]
    <3> SUFFICES ASSUME NEW d \in 1 .. Len(u), NEW j \in 1 .. Len(u), d < j PROVE u[d] < u[j]
      OBVIOUS
    <3>1. d \in 1 .. Len(t) /\ u[d] = t[d] /\ t[d] \in 1 .. n
      BY <1>5, <1>6
    <3>2. CASE j = Len(t) + 1
      BY <1>1, <1>5, <3>1, <3>2
    <3>3. CASE j \in 1 .. Len(t)
      BY <1>5, <1>7, <3>1, <3>3 DEF Behind
    <3> QED
      BY <2>1, <3>2, <3>3
  <2>3. ASSUME NEW d \in 1 .. Len(u)
        PROVE  /\ \A j \in 1 .. Len(s) : s[j] < u[d]
               /\ x < u[d]
               /\ \A m \in 1 .. Len(r) : r[m][2] < u[d]
    <3>1. CASE d \in 1 .. Len(t) /\ u[d] = t[d]
      BY <1>7, <3>1 DEF Behind
    <3>2. CASE u[d] = n + 1
      BY <1>1, <1>2, <1>6, <3>2
    <3> QED
      BY <2>1, <3>1, <3>2
  <2> QED
    BY <2>2, <2>3 DEF Behind
<1>10. Present(Append(ks, c), u, s, x, r)
  <2> SUFFICES ASSUME NEW k \in 1 .. n + 1, Append(ks, c)[k] = "key"
               PROVE  \/ \E d \in 1 .. Len(u) : u[d] = k
                      \/ \E d \in 1 .. Len(s) : s[d] = k
                      \/ x = k
                      \/ \E m \in 1 .. Len(r) : r[m][2] = k
    BY <1>1 DEF Present, n
  <2>1. CASE k = n + 1
    BY <1>5, <2>1
  <2>2. CASE k \in 1 .. n
    <3>1. ks[k] = "key" /\ k \in 1 .. Len(ks)
      BY <1>1, <2>2 DEF n
    <3>2. \A d \in 1 .. Len(t) : d \in 1 .. Len(u) /\ u[d] = t[d]
      BY <1>5
    <3> QED
      BY <1>7, <3>1, <3>2 DEF Present
  <2> QED
    BY <1>1, <2>1, <2>2
<1> QED
  BY <1>1, <1>7, <1>8, <1>9, <1>10 DEF Route, u, n

LEMMA RouteFacts ==
  ASSUME NEW ks \in Seq({"key", "0xFF"}), NEW t, NEW s, NEW x, NEW r, Route(ks, t, s, x, r)
  PROVE  /\ Len(ks) \in Nat /\ Len(t) \in Nat /\ Len(s) \in Nat /\ Len(r) \in Nat
         /\ t \in Seq(1 .. Len(ks)) /\ s \in Seq(1 .. Len(ks)) /\ x \in 0 .. Len(ks)
         /\ r \in Seq(Ways \X (1 .. Len(ks)))
         /\ \A d \in 1 .. Len(t) : t[d] \in 1 .. Len(ks)
         /\ \A d \in 1 .. Len(s) : s[d] \in 1 .. Len(ks)
         /\ \A m \in 1 .. Len(r) : r[m][1] \in Ways /\ r[m][2] \in 1 .. Len(ks)
<1>1. /\ t \in Seq(1 .. Len(ks)) /\ s \in Seq(1 .. Len(ks)) /\ x \in 0 .. Len(ks)
      /\ r \in Seq(Ways \X (1 .. Len(ks)))
  BY DEF Route, RouteTypes
<1>2. Len(ks) \in Nat /\ Len(t) \in Nat /\ Len(s) \in Nat /\ Len(r) \in Nat
  BY <1>1, LenProperties
<1>3. \A m \in 1 .. Len(r) : r[m] \in Ways \X (1 .. Len(ks))
  BY <1>1, ElementOfSeq
<1> QED
  BY <1>1, <1>2, <1>3, ElementOfSeq

\* pollKeyboard takes a key from the terminal, into the slot or, if it is 0xFF, nowhere.
LEMMA RoutePolled ==
  ASSUME NEW ks \in Seq({"key", "0xFF"}), NEW t, NEW s, NEW r, Route(ks, t, s, 0, r), t # <<>>,
         NEW y, y = Head(t) \/ (y = 0 /\ ks[Head(t)] # "key")
  PROVE  Route(ks, Tail(t), s, y, r)
<1> DEFINE n == Len(ks)
<1>1. PICK u : u = Tail(t)
  OBVIOUS
<1>2. /\ n \in Nat /\ Len(t) \in Nat /\ Len(s) \in Nat /\ Len(r) \in Nat
      /\ t \in Seq(1 .. n) /\ s \in Seq(1 .. n) /\ r \in Seq(Ways \X (1 .. n))
      /\ \A d \in 1 .. Len(t) : t[d] \in 1 .. n
      /\ \A d \in 1 .. Len(s) : s[d] \in 1 .. n
      /\ \A m \in 1 .. Len(r) : r[m][2] \in 1 .. n
  BY RouteFacts
<1>3. /\ Len(t) >= 1 /\ Head(t) = t[1] /\ Head(t) \in 1 .. n
      /\ u \in Seq(1 .. n) /\ Len(u) = Len(t) - 1
      /\ \A d \in 1 .. Len(u) : u[d] = t[d + 1] /\ d + 1 \in 1 .. Len(t)
      /\ \A d \in 1 .. Len(t) : d = 1 \/ (d - 1 \in 1 .. Len(u) /\ t[d] = u[d - 1])
  BY <1>1, <1>2, QueueFacts
<1>4. Behind(t, s, 0, r) /\ Held(s, 0, r) /\ Delivered(r) /\ Present(ks, t, s, 0, r)
  BY DEF Route
<1> HIDE DEF n
<1>5. y \in 0 .. n /\ (y = t[1] \/ y = 0) /\ 1 \in 1 .. Len(t)
  BY <1>2, <1>3
<1>6. RouteTypes(n, u, s, y, r)
  BY <1>2, <1>3, <1>5 DEF RouteTypes
<1>7. Behind(u, s, y, r)
  <2>1. \A d, j \in 1 .. Len(u) : d < j => u[d] < u[j]
    BY <1>1, <1>2, <1>4, TailIncreases DEF Behind
  <2>2. \A d \in 1 .. Len(u) : y < u[d]
    <3>1. \A d \in 1 .. Len(u) : t[1] < u[d]
      BY <1>1, <1>2, <1>3, <1>4, TailIncreases DEF Behind
    <3>2. ASSUME NEW d \in 1 .. Len(u) PROVE 0 < u[d]
      <4>1. d + 1 \in 1 .. Len(t) /\ u[d] = t[d + 1]
        BY <1>3
      <4> QED
        BY <1>2, <4>1
    <3> QED
      BY <1>5, <3>1, <3>2
  <2> QED
    BY <1>3, <1>4, <2>1, <2>2 DEF Behind
<1>8. Held(s, y, r)
  <2>1. \A d \in 1 .. Len(s) : s[d] # y
    BY <1>2, <1>4, <1>5 DEF Behind
  <2>2. y # 0 => \A m \in 1 .. Len(r) : r[m][2] # y /\ (r[m][1] = "uart" => r[m][2] < y)
    BY <1>2, <1>4, <1>5 DEF Behind
  <2> QED
    BY <1>4, <2>1, <2>2 DEF Held
<1>9. Present(ks, u, s, y, r)
  <2> SUFFICES ASSUME NEW k \in 1 .. n, ks[k] = "key"
               PROVE  \/ \E d \in 1 .. Len(u) : u[d] = k
                      \/ \E d \in 1 .. Len(s) : s[d] = k
                      \/ y = k
                      \/ \E m \in 1 .. Len(r) : r[m][2] = k
    BY DEF Present, n
  <2>1. CASE \E d \in 1 .. Len(t) : t[d] = k
    <3>1. PICK d \in 1 .. Len(t) : t[d] = k
      BY <2>1
    <3>2. CASE d = 1
      BY <1>3, <3>1, <3>2
    <3>3. CASE d # 1
      BY <1>3, <3>1, <3>3
    <3> QED
      BY <3>2, <3>3
  <2>2. CASE ~ \E d \in 1 .. Len(t) : t[d] = k
    <3>1. k # 0 /\ k \in 1 .. Len(ks)
      BY DEF n
    <3> QED
      BY <1>4, <2>2, <3>1 DEF Present
  <2> QED
    BY <2>1, <2>2
<1> QED
  BY <1>1, <1>4, <1>6, <1>7, <1>8, <1>9 DEF Route, n

\* The guest reads the slot.
LEMMA RouteUart ==
  ASSUME NEW ks \in Seq({"key", "0xFF"}), NEW t, NEW s, NEW x, NEW r, Route(ks, t, s, x, r), x # 0
  PROVE  Route(ks, t, s, 0, Append(r, <<"uart", x>>))
<1> DEFINE n == Len(ks)
<1>1. PICK q : q = Append(r, <<"uart", x>>)
  OBVIOUS
<1>2. /\ n \in Nat /\ t \in Seq(1 .. n) /\ s \in Seq(1 .. n) /\ r \in Seq(Ways \X (1 .. n))
      /\ x \in 0 .. n
      /\ \A d \in 1 .. Len(t) : t[d] \in 1 .. n
      /\ \A d \in 1 .. Len(s) : s[d] \in 1 .. n
  BY RouteFacts
<1>3. x \in 1 .. n /\ "uart" \in Ways
  BY <1>2 DEF Ways
<1>5. Behind(t, s, x, r) /\ Held(s, x, r) /\ Delivered(r) /\ Present(ks, t, s, x, r)
  BY DEF Route
<1> HIDE DEF n
<1>4. /\ q \in Seq(Ways \X (1 .. n)) /\ Len(q) = Len(r) + 1
      /\ \A m \in 1 .. Len(r) : m \in 1 .. Len(q) /\ q[m] = r[m]
      /\ Len(r) + 1 \in 1 .. Len(q) /\ q[Len(r) + 1][1] = "uart" /\ q[Len(r) + 1][2] = x
      /\ \A m \in 1 .. Len(q) : m \in 1 .. Len(r) \/ m = Len(r) + 1
      /\ Delivered(q)
  <2>1. Fresh(r, "uart", x)
    BY <1>5 DEF Held, Fresh
  <2>2. n \in Nat /\ r \in Seq(Ways \X (1 .. n)) /\ Delivered(r)
    BY <1>2, <1>5
  <2>3. IsAppended(n, r, "uart", x, Append(r, <<"uart", x>>))
    BY <1>3, <2>1, <2>2, DeliveredAppend
  <2> QED
    BY <1>1, <2>3 DEF IsAppended
<1>6. RouteTypes(n, t, s, 0, q)
  BY <1>2, <1>4 DEF RouteTypes
<1>7. Behind(t, s, 0, q)
  <2>1. \A d \in 1 .. Len(t) : \A m \in 1 .. Len(q) : q[m][2] < t[d]
    BY <1>4, <1>5 DEF Behind
  <2> QED
    BY <1>2, <1>5, <2>1 DEF Behind
<1>8. Held(s, 0, q)
  <2>1. ASSUME NEW d \in 1 .. Len(s), NEW m \in 1 .. Len(q)
        PROVE  q[m][2] # s[d] /\ (q[m][1] \in FgetcWays => q[m][2] < s[d])
    <3>1. CASE m \in 1 .. Len(r)
      BY <1>4, <1>5, <3>1 DEF Held
    <3>2. CASE m = Len(r) + 1
      BY <1>4, <1>5, <3>2 DEF Held, FgetcWays
    <3> QED
      BY <1>4, <3>1, <3>2
  <2> QED
    BY <1>2, <1>5, <2>1 DEF Held
<1>9. Present(ks, t, s, 0, q)
  BY <1>4, <1>5 DEF Present
<1> QED
  BY <1>1, <1>4, <1>6, <1>7, <1>8, <1>9 DEF Route, n

\* fgetc fills the empty buffer with all that the terminal has.
LEMMA RouteRefill ==
  ASSUME NEW ks \in Seq({"key", "0xFF"}), NEW t, NEW x, NEW r, Route(ks, t, <<>>, x, r)
  PROVE  Route(ks, <<>>, t, x, r)
<1>1. /\ Len(ks) \in Nat /\ Len(t) \in Nat /\ x \in 0 .. Len(ks) /\ t \in Seq(1 .. Len(ks))
      /\ \A d \in 1 .. Len(t) : t[d] \in 1 .. Len(ks)
      /\ \A m \in 1 .. Len(r) : r[m][2] \in 1 .. Len(ks)
  BY RouteFacts
<1>2. <<>> \in Seq(1 .. Len(ks)) /\ Len(<<>>) = 0 /\ 1 .. 0 = {}
  BY EmptySeq
<1>3. Behind(t, <<>>, x, r) /\ Held(<<>>, x, r) /\ Delivered(r) /\ Present(ks, t, <<>>, x, r)
  BY DEF Route
<1>4. RouteTypes(Len(ks), <<>>, t, x, r)
  BY <1>1, <1>2 DEF Route, RouteTypes
<1>5. Behind(<<>>, t, x, r)
  BY <1>2 DEF Behind
<1>6. Held(t, x, r)
  <2>1. \A d, j \in 1 .. Len(t) : d < j => t[d] < t[j]
    BY <1>3 DEF Behind
  <2>2. ASSUME NEW d \in 1 .. Len(t)
        PROVE  t[d] # x /\ \A m \in 1 .. Len(r) : r[m][2] # t[d] /\ r[m][2] < t[d]
    <3>1. x < t[d] /\ \A m \in 1 .. Len(r) : r[m][2] < t[d]
      BY <1>3 DEF Behind
    <3> QED
      BY <1>1, <3>1
  <2>3. x # 0 => \A m \in 1 .. Len(r) : r[m][2] # x /\ (r[m][1] = "uart" => r[m][2] < x)
    BY <1>3 DEF Held
  <2> QED
    BY <2>1, <2>2, <2>3 DEF Held
<1>7. Present(ks, <<>>, t, x, r)
  BY <1>2, <1>3 DEF Present
<1> QED
  BY <1>3, <1>4, <1>5, <1>6, <1>7 DEF Route

\* fgetc takes a key from stdin's buffer, for the guest or for a store that faults.
LEMMA RouteStdin ==
  ASSUME NEW ks \in Seq({"key", "0xFF"}), NEW t, NEW s, NEW x, NEW r, Route(ks, t, s, x, r), s # <<>>,
         NEW w \in FgetcWays
  PROVE  Route(ks, t, Tail(s), x, Append(r, <<w, Head(s)>>))
<1> DEFINE n == Len(ks)
<1>1. PICK q, u, h : q = Append(r, <<w, h>>) /\ u = Tail(s) /\ h = Head(s)
  OBVIOUS
<1>2. /\ n \in Nat /\ Len(t) \in Nat /\ Len(s) \in Nat /\ Len(r) \in Nat
      /\ t \in Seq(1 .. n) /\ s \in Seq(1 .. n) /\ x \in 0 .. n /\ r \in Seq(Ways \X (1 .. n))
      /\ \A d \in 1 .. Len(t) : t[d] \in 1 .. n
      /\ \A d \in 1 .. Len(s) : s[d] \in 1 .. n
      /\ \A m \in 1 .. Len(r) : r[m][2] \in 1 .. n
  BY RouteFacts
<1>3. /\ Len(s) >= 1 /\ h = s[1] /\ h \in 1 .. n
      /\ u \in Seq(1 .. n) /\ Len(u) = Len(s) - 1
      /\ \A d \in 1 .. Len(u) : u[d] = s[d + 1] /\ d + 1 \in 1 .. Len(s)
      /\ \A d \in 1 .. Len(s) : d = 1 \/ (d - 1 \in 1 .. Len(u) /\ s[d] = u[d - 1])
  BY <1>1, <1>2, QueueFacts
<1>6. Behind(t, s, x, r) /\ Held(s, x, r) /\ Delivered(r) /\ Present(ks, t, s, x, r)
  BY DEF Route
<1> HIDE DEF n
<1>7. 1 \in 1 .. Len(s) /\ \A d \in 1 .. Len(u) : h < u[d] /\ u[d] \in 1 .. n
  <2>1. \A d \in 1 .. Len(u) : h < u[d]
    BY <1>1, <1>2, <1>6, TailIncreases DEF Held
  <2>2. ASSUME NEW d \in 1 .. Len(u) PROVE u[d] \in 1 .. n
    <3>1. d + 1 \in 1 .. Len(s) /\ u[d] = s[d + 1]
      BY <1>3
    <3> QED
      BY <1>2, <3>1
  <2>3. 1 \in 1 .. Len(s)
    BY <1>2, <1>3
  <2> QED
    BY <2>1, <2>2, <2>3
<1>4. /\ q \in Seq(Ways \X (1 .. n)) /\ Len(q) = Len(r) + 1
      /\ \A m \in 1 .. Len(r) : m \in 1 .. Len(q) /\ q[m] = r[m]
      /\ Len(r) + 1 \in 1 .. Len(q) /\ q[Len(r) + 1][1] = w /\ q[Len(r) + 1][2] = h
      /\ \A m \in 1 .. Len(q) : m \in 1 .. Len(r) \/ m = Len(r) + 1
      /\ Delivered(q)
  <2>1. Fresh(r, w, h)
    BY <1>3, <1>6, <1>7 DEF Held, Fresh
  <2>2. w \in Ways
    BY DEF Ways, FgetcWays
  <2>3. n \in Nat /\ r \in Seq(Ways \X (1 .. n)) /\ Delivered(r) /\ h \in 1 .. n
    BY <1>2, <1>3, <1>6
  <2>4. IsAppended(n, r, w, h, Append(r, <<w, h>>))
    BY <2>1, <2>2, <2>3, DeliveredAppend
  <2> QED
    BY <1>1, <2>4 DEF IsAppended
<1>8. RouteTypes(n, t, u, x, q)
  BY <1>2, <1>3, <1>4 DEF RouteTypes
<1>9. Behind(t, u, x, q)
  <2>1. \A d \in 1 .. Len(t) : \A m \in 1 .. Len(q) : q[m][2] < t[d]
    BY <1>3, <1>4, <1>6, <1>7 DEF Behind
  <2>2. \A d \in 1 .. Len(t) : \A j \in 1 .. Len(u) : u[j] < t[d]
    BY <1>3, <1>6 DEF Behind
  <2> QED
    BY <1>6, <2>1, <2>2 DEF Behind
<1>10. Held(u, x, q)
  <2>1. \A d, j \in 1 .. Len(u) : d < j => u[d] < u[j]
    BY <1>1, <1>2, <1>6, TailIncreases DEF Held
  <2>2. ASSUME NEW d \in 1 .. Len(u)
        PROVE  /\ u[d] # x
               /\ \A m \in 1 .. Len(q) : q[m][2] # u[d] /\ (q[m][1] \in FgetcWays => q[m][2] < u[d])
    <3>1. d + 1 \in 1 .. Len(s) /\ u[d] = s[d + 1]
      BY <1>3
    <3>2. \A m \in 1 .. Len(r) : r[m][2] # u[d] /\ (r[m][1] \in FgetcWays => r[m][2] < u[d])
      BY <1>6, <3>1 DEF Held
    <3>3. h # u[d] /\ h < u[d]
      BY <1>3, <1>7
    <3> QED
      BY <1>4, <1>6, <3>1, <3>2, <3>3 DEF Held
  <2>3. x # 0 => \A m \in 1 .. Len(q) : q[m][2] # x /\ (q[m][1] = "uart" => q[m][2] < x)
    BY <1>3, <1>4, <1>6, <1>7 DEF Held, FgetcWays
  <2> QED
    BY <2>1, <2>2, <2>3 DEF Held
<1>11. Present(ks, t, u, x, q)
  <2> SUFFICES ASSUME NEW k \in 1 .. n, ks[k] = "key"
               PROVE  \/ \E d \in 1 .. Len(t) : t[d] = k
                      \/ \E d \in 1 .. Len(u) : u[d] = k
                      \/ x = k
                      \/ \E m \in 1 .. Len(q) : q[m][2] = k
    BY DEF Present, n
  <2>1. CASE \E d \in 1 .. Len(s) : s[d] = k
    <3>1. PICK d \in 1 .. Len(s) : s[d] = k
      BY <2>1
    <3>2. CASE d = 1
      <4>1. Len(r) + 1 \in 1 .. Len(q) /\ q[Len(r) + 1][2] = k
        BY <1>3, <1>4, <3>1, <3>2
      <4> QED
        BY <4>1
    <3>3. CASE d # 1
      BY <1>3, <3>1, <3>3
    <3> QED
      BY <3>2, <3>3
  <2>2. CASE ~ \E d \in 1 .. Len(s) : s[d] = k
    BY <1>4, <1>6, <2>2 DEF Present, n
  <2> QED
    BY <2>1, <2>2
<1> QED
  BY <1>1, <1>4, <1>6, <1>8, <1>9, <1>10, <1>11 DEF Route, n

\* Every key that was typed is on its way, or has arrived, or was dropped, or is lost for being 0xFF.
RouteInv == keys \in Seq({"key", "0xFF"}) /\ Route(keys, tty, stdio, slot, taken)

\* fgetc waits only when there is nothing in its buffer.
BlockedInv == process = "blocked" => stdio = <<>>

LEMMA BlockedInductive == BlockedInv /\ [Next]_vars => BlockedInv'
<1> SUFFICES ASSUME BlockedInv, [Next]_vars PROVE BlockedInv'
  OBVIOUS
<1>1. CASE EnableRawMode \/ Return \/ CtrlC \/ Type \/ ReadStdinReturns \/ UNCHANGED vars
  BY <1>1 DEF BlockedInv, EnableRawMode, Advance, GiveUp, Return, CtrlC, Type, ReadStdinReturns, vars
<1>2. CASE ReadStdinBlocks
  BY <1>2 DEF BlockedInv, ReadStdinBlocks
<1>3. ASSUME Iteration, process' = process PROVE BlockedInv'
  BY <1>3 DEF BlockedInv, Iteration
<1> QED
  BY <1>1, <1>2, <1>3
     DEF Next, OtherInstruction, ReadRhr, ReadIir, WriteThr, WriteIer, WriteLcr, ReadStdin

LEMMA RouteOfPolled == RouteInv => Route(keys, Polled.tty, stdio, Polled.slot, taken)
<1> SUFFICES ASSUME RouteInv PROVE Route(keys, Polled.tty, stdio, Polled.slot, taken)
  OBVIOUS
<1>1. CASE i = 0 /\ slot = NoKey /\ tty # <<>>
  <2>1. PICK y : y = IF keys[Head(tty)] = "0xFF" THEN NoKey ELSE Head(tty)
    OBVIOUS
  <2>2. Polled.slot = y /\ Polled.tty = Tail(tty)
    BY <1>1, <2>1 DEF Polled
  <2>3. y = Head(tty) \/ (y = 0 /\ keys[Head(tty)] # "key")
    BY <2>1 DEF NoKey
  <2>4. Route(keys, tty, stdio, 0, taken) /\ tty # <<>> /\ keys \in Seq({"key", "0xFF"})
    BY <1>1 DEF RouteInv, NoKey
  <2>5. Route(keys, Tail(tty), stdio, y, taken)
    BY <2>3, <2>4, RoutePolled
  <2> QED
    BY <2>2, <2>5
<1>2. CASE ~(i = 0 /\ slot = NoKey /\ tty # <<>>)
  BY <1>2 DEF Polled, RouteInv
<1> QED
  BY <1>1, <1>2

LEMMA RouteInductive == RouteInv /\ BlockedInv /\ [Next]_vars => RouteInv'
<1> SUFFICES ASSUME RouteInv, BlockedInv, [Next]_vars PROVE RouteInv'
  OBVIOUS
<1>1. PICK t, x : /\ t = Polled.tty /\ x = Polled.slot
                  /\ Route(keys, t, stdio, x, taken) /\ keys \in Seq({"key", "0xFF"})
  BY RouteOfPolled DEF RouteInv
<1>2. CASE EnableRawMode \/ Return \/ CtrlC \/ UNCHANGED vars
  BY <1>2 DEF EnableRawMode, Return, CtrlC, vars, uart, RouteInv
<1>3. CASE Type
  <2>1. PICK c \in {"key", "0xFF"} :
          /\ keys' = Append(keys, c) /\ tty' = Append(tty, Len(keys) + 1)
          /\ UNCHANGED <<stdio, slot, taken>>
    BY <1>3 DEF Type, uart
  <2>2. Route(Append(keys, c), Append(tty, Len(keys) + 1), stdio, slot, taken)
    BY <2>1, RouteTyped DEF RouteInv
  <2>3. Append(keys, c) \in Seq({"key", "0xFF"})
    BY <2>1, <1>1, AppendProperties
  <2> QED
    BY <2>1, <2>2, <2>3 DEF RouteInv
<1>4. CASE \/ OtherInstruction \/ ReadIir \/ WriteThr \/ ReadStdinBlocks
           \/ \E enable \in SUBSET {"rx", "tx"} : WriteIer(enable)
           \/ \E d \in BOOLEAN : WriteLcr(d)
  <2>1. keys' = keys /\ tty' = t /\ slot' = x /\ stdio' = stdio /\ taken' = taken
    BY <1>1, <1>4 DEF Iteration, OtherInstruction, ReadIir, WriteThr, ReadStdinBlocks, WriteIer, WriteLcr
  <2> QED
    BY <1>1, <2>1 DEF RouteInv
<1>5. CASE ReadRhr
  <2>1. keys' = keys /\ tty' = t /\ stdio' = stdio
    BY <1>1, <1>5 DEF Iteration, ReadRhr
  <2>2. CASE slot' = x /\ taken' = taken
    BY <1>1, <2>1, <2>2 DEF RouteInv
  <2>3. CASE x # 0 /\ slot' = 0 /\ taken' = Append(taken, <<"uart", x>>)
    BY <1>1, <2>1, <2>3, RouteUart DEF RouteInv
  <2> QED
    BY <1>1, <1>5, <2>2, <2>3 DEF ReadRhr, NoKey
<1>6. CASE ReadStdin
  <2>1. keys' = keys /\ slot' = x
    BY <1>1, <1>6 DEF Iteration, ReadStdin
  <2>2. PICK b : b = IF stdio = <<>> THEN t ELSE stdio
    OBVIOUS
  <2>3. PICK u : u = IF stdio = <<>> THEN <<>> ELSE t
    OBVIOUS
  <2>4. Route(keys, u, b, x, taken)
    <3>1. CASE stdio = <<>>
      <4>1. Route(keys, t, <<>>, x, taken)
        BY <1>1, <3>1
      <4>2. Route(keys, <<>>, t, x, taken)
        BY <1>1, <4>1, RouteRefill
      <4> QED
        BY <2>2, <2>3, <3>1, <4>2
    <3>2. CASE stdio # <<>>
      BY <1>1, <2>2, <2>3, <3>2
    <3> QED
      BY <3>1, <3>2
  <2>5. /\ tty' = u
        /\ \/ b = <<>> /\ stdio' = <<>> /\ taken' = taken
           \/ b # <<>> /\ stdio' = Tail(b) /\ Returned(Head(b))
    BY <1>1, <1>6, <2>2, <2>3 DEF ReadStdin
  <2>6. CASE b = <<>>
    BY <1>1, <2>1, <2>4, <2>5, <2>6 DEF RouteInv
  <2>7. CASE b # <<>>
    <3>1. PICK w \in FgetcWays : taken' = Append(taken, <<w, Head(b)>>)
      BY <2>5, <2>7 DEF Returned, FgetcWays
    <3>2. Route(keys, u, Tail(b), x, Append(taken, <<w, Head(b)>>))
      BY <1>1, <2>4, <2>7, RouteStdin
    <3> QED
      BY <1>1, <2>1, <2>5, <2>7, <3>1, <3>2 DEF RouteInv
  <2> QED
    BY <2>6, <2>7
<1>7. CASE ReadStdinReturns
  <2>1. /\ tty # <<>> /\ tty' = <<>> /\ stdio' = Tail(tty)
        /\ Returned(Head(tty)) /\ keys' = keys /\ slot' = slot
    BY <1>7 DEF ReadStdinReturns, uart
  <2>5. PICK w \in FgetcWays : taken' = Append(taken, <<w, Head(tty)>>)
    BY <2>1 DEF Returned, FgetcWays
  <2>2. Route(keys, tty, <<>>, slot, taken)
    BY <1>7 DEF ReadStdinReturns, BlockedInv, RouteInv
  <2>3. Route(keys, <<>>, tty, slot, taken)
    BY <1>1, <2>2, RouteRefill
  <2>4. Route(keys, <<>>, Tail(tty), slot, Append(taken, <<w, Head(tty)>>))
    BY <1>1, <2>1, <2>3, RouteStdin
  <2> QED
    BY <1>1, <2>1, <2>4, <2>5 DEF RouteInv
<1> QED
  BY <1>2, <1>3, <1>4, <1>5, <1>6, <1>7 DEF Next

LEMMA RouteAlways == Spec => []RouteInv
<1>1. Init => RouteInv /\ BlockedInv
  <2> SUFFICES ASSUME Init PROVE RouteInv /\ BlockedInv
    OBVIOUS
  <2>1. keys = <<>> /\ tty = <<>> /\ stdio = <<>> /\ slot = 0 /\ taken = <<>> /\ process = "starting"
    BY DEF Init, NoKey
  <2>2. Len(<<>>) = 0 /\ 1 .. 0 = {} /\ 0 \in 0 .. 0
    BY EmptySeq
  <2>3. RouteTypes(0, <<>>, <<>>, 0, <<>>) /\ <<>> \in Seq({"key", "0xFF"})
    BY <2>2, EmptySeq DEF RouteTypes
  <2>4. Behind(<<>>, <<>>, 0, <<>>) /\ Held(<<>>, 0, <<>>) /\ Delivered(<<>>)
    BY <2>2 DEF Behind, Held, Delivered
  <2>5. Present(<<>>, <<>>, <<>>, 0, <<>>)
    BY <2>2 DEF Present
  <2> QED
    BY <2>1, <2>2, <2>3, <2>4, <2>5 DEF RouteInv, Route, BlockedInv
<1> QED
  BY <1>1, RouteInductive, BlockedInductive, PTL DEF Spec

\* The keys that are taken by one way are taken in the order in which they were typed, however
\* the guest mixes the two ways and however rarely the keyboard is looked at.
THEOREM KeysArriveInOrder == Spec => []InOrder
<1>1. RouteInv => InOrder
  BY DEF RouteInv, Route, Delivered, InOrder
<1> QED
  BY <1>1, RouteAlways, PTL

\* Every key that was typed is in one place at most, and an ordinary key is in none exactly
\* when SYSREAD's store of it faulted after fgetc had taken it.
THEOREM KeysLostByFaultsOnly == Spec => []OnlyFaultsLoseKeys
<1>1. ASSUME RouteInv PROVE OnlyFaultsLoseKeys
  <2> SUFFICES ASSUME NEW k \in 1 .. Len(keys)
               PROVE  /\ \A p, q \in Places(k) : p = q
                      /\ Dropped(k) => Places(k) = {}
                      /\ keys[k] = "key" /\ Places(k) = {} => Dropped(k)
    BY DEF OnlyFaultsLoseKeys
  <2>1. /\ Len(keys) \in Nat /\ Len(tty) \in Nat /\ Len(stdio) \in Nat /\ Len(taken) \in Nat
        /\ slot \in 0 .. Len(keys)
        /\ \A m \in 1 .. Len(tty) : tty[m] \in 1 .. Len(keys)
        /\ \A m \in 1 .. Len(stdio) : stdio[m] \in 1 .. Len(keys)
        /\ \A m \in 1 .. Len(taken) : taken[m][2] \in 1 .. Len(keys)
    BY <1>1, RouteFacts DEF RouteInv
  <2>2. /\ Behind(tty, stdio, slot, taken) /\ Held(stdio, slot, taken) /\ Delivered(taken)
        /\ Present(keys, tty, stdio, slot, taken)
    BY <1>1 DEF RouteInv, Route
  <2> DEFINE T == {m \in 1 .. Len(tty) : tty[m] = k}
             S == {m \in 1 .. Len(stdio) : stdio[m] = k}
             X == {m \in {1} : slot = k}
             R == {m \in 1 .. Len(taken) : taken[m][2] = k}
             D == {m \in R : taken[m][1] = "dropped"}
             G == {m \in R : taken[m][1] # "dropped"}
             reached == [m \in 1 .. Len(taken) |-> IF taken[m][1] = "dropped" THEN NoKey ELSE taken[m][2]]
  <2>3. Places(k) = {<<"terminal", m>> : m \in T} \cup {<<"stdin", m>> : m \in S}
                      \cup {<<"slot", m>> : m \in X} \cup {<<"guest", m>> : m \in G}
    <3>1. Len(<<slot>>) = 1 /\ 1 .. 1 = {1} /\ <<slot>>[1] = slot
      OBVIOUS
    <3>2. reached \in Seq(0 .. Len(keys))
      BY <2>1, IsASeq DEF NoKey
    <3>3. Len(reached) = Len(taken)
      BY <2>1, <3>2, LenProperties
    <3>4. G = {m \in 1 .. Len(reached) : reached[m] = k}
      BY <3>3 DEF NoKey
    <3> HIDE DEF G
    <3> QED
      BY <3>1, <3>4 DEF Places
  <2>4. \A m, n \in T : m = n
    BY <2>1, <2>2 DEF Behind
  <2>5. \A m, n \in S : m = n
    BY <2>1, <2>2 DEF Held
  <2>6. \A m, n \in R : m = n
    <3> SUFFICES ASSUME NEW m \in R, NEW n \in R, m < n PROVE FALSE
      BY <2>1
    <3> QED
      BY <2>1, <2>2 DEF Delivered
  <2>7. \A m \in T : S = {} /\ X = {} /\ R = {}
    BY <2>1, <2>2 DEF Behind
  <2>8. \A m \in S : X = {} /\ R = {}
    BY <2>1, <2>2 DEF Held
  <2>9. \A m \in X : R = {}
    BY <2>1, <2>2 DEF Held
  <2>10. keys[k] = "key" => T # {} \/ S # {} \/ X # {} \/ R # {}
    BY <2>2 DEF Present
  <2>13. R = D \cup G /\ (D # {} => G = {})
    BY <2>6
  <2>14. Dropped(k) <=> D # {}
    <3>1. \A m \in 1 .. Len(taken) : taken[m] \in Ways \X (1 .. Len(keys))
      BY <1>1, ElementOfSeq DEF RouteInv, Route, RouteTypes
    <3>2. \A m \in 1 .. Len(taken) :
            taken[m] = <<"dropped", k>> <=> taken[m][1] = "dropped" /\ taken[m][2] = k
      BY <3>1
    <3> QED
      BY <3>2 DEF Dropped
  <2> HIDE DEF T, S, X, R, D, G
  <2>11. \A p, q \in Places(k) : p = q
    <3> SUFFICES ASSUME NEW p \in Places(k), NEW q \in Places(k) PROVE p = q
      OBVIOUS
    <3>1. CASE \E m \in T : p = <<"terminal", m>>
      BY <2>3, <2>4, <2>7, <2>13, <3>1
    <3>2. CASE \E m \in S : p = <<"stdin", m>>
      BY <2>3, <2>5, <2>7, <2>8, <2>13, <3>2
    <3>3. CASE \E m \in X : p = <<"slot", m>>
      <4>1. T = {} /\ S = {} /\ R = {}
        BY <2>7, <2>8, <2>9, <3>3
      <4> QED
        BY <2>3, <2>13, <4>1, <3>3 DEF X
    <3>4. CASE \E m \in G : p = <<"guest", m>>
      <4>1. T = {} /\ S = {} /\ X = {} /\ \A m, n \in G : m = n
        BY <2>6, <2>7, <2>8, <2>9, <2>13, <3>4
      <4> QED
        BY <2>3, <4>1, <3>4
    <3> QED
      BY <2>3, <3>1, <3>2, <3>3, <3>4
  <2>12. Dropped(k) => Places(k) = {}
    <3> SUFFICES ASSUME D # {} PROVE Places(k) = {}
      BY <2>14
    <3>1. T = {} /\ S = {} /\ X = {} /\ G = {}
      BY <2>7, <2>8, <2>9, <2>13
    <3> QED
      BY <2>3, <3>1
  <2>15. keys[k] = "key" /\ Places(k) = {} => Dropped(k)
    BY <2>3, <2>10, <2>13, <2>14
  <2> QED
    BY <2>11, <2>12, <2>15
<1> QED
  BY <1>1, RouteAlways, PTL

-----------------------------------------------------------------------------
(* Types *)

\* What TypeOK says beside the keys' way.
SmallTypes ==
  /\ process \in {"starting", "running", "blocked", "returned", "killed"}
  /\ step \in {1, 2, 3, 4, 5, 6}
  /\ raw \in BOOLEAN /\ nonblocking \in BOOLEAN /\ raw_mode_enabled \in BOOLEAN /\ handler \in BOOLEAN
  /\ shutdown_requested \in BOOLEAN /\ cpuShutdown \in BOOLEAN
  /\ i \in 0 .. PollEvery - 1
  /\ Len(keys) <= MaxTyped
  /\ dlab \in BOOLEAN /\ ier \in SUBSET {"rx", "tx"} /\ txIrq \in BOOLEAN

LEMMA SmallTypesInductive == SmallTypes /\ RouteInv /\ [Next]_vars => SmallTypes'
<1> SUFFICES ASSUME SmallTypes, RouteInv, [Next]_vars PROVE SmallTypes'
  OBVIOUS
<1> TRUE \in BOOLEAN /\ FALSE \in BOOLEAN
  OBVIOUS
<1>1. CASE EnableRawMode
  <2>1. step' \in {1, 2, 3, 4, 5, 6}
    BY <1>1, StepsAre DEF EnableRawMode, SmallTypes, Advance, GiveUp
  <2>2. process' \in {"starting", "running"}
    BY <1>1 DEF EnableRawMode, Advance, GiveUp
  <2>3. raw' \in BOOLEAN /\ nonblocking' \in BOOLEAN /\ raw_mode_enabled' \in BOOLEAN /\ handler' \in BOOLEAN
    BY <1>1 DEF EnableRawMode, SmallTypes, terminal
  <2>4. UNCHANGED <<shutdown_requested, cpuShutdown, i, keys, uart>>
    BY <1>1 DEF EnableRawMode
  <2> QED
    BY <2>1, <2>2, <2>3, <2>4 DEF SmallTypes, uart
<1>2. CASE Return
  <2>1. raw' \in BOOLEAN /\ nonblocking' \in BOOLEAN /\ raw_mode_enabled' \in BOOLEAN
    BY <1>2 DEF Return, DisableRawMode, SmallTypes
  <2> QED
    BY <1>2, <2>1 DEF Return, SmallTypes, uart
<1>3. CASE CtrlC
  BY <1>3 DEF CtrlC, SmallTypes, terminal, uart
<1>4. CASE Type
  <2>1. Len(keys') <= MaxTyped
    <3>1. PICK c \in {"key", "0xFF"} : keys' = Append(keys, c)
      BY <1>4 DEF Type
    <3>2. Len(keys') = Len(keys) + 1 /\ Len(keys) \in Nat
      BY <3>1, AppendProperties, LenProperties DEF RouteInv
    <3> QED
      BY <1>4, <3>2, BoundsAssumption DEF Type
  <2> QED
    BY <1>4, <2>1 DEF Type, SmallTypes, terminal, uart
<1>5. ASSUME Iteration PROVE /\ i' \in 0 .. PollEvery - 1 /\ process = "running"
                             /\ UNCHANGED <<step, terminal, shutdown_requested, cpuShutdown, keys>>
  BY <1>5, BoundsAssumption DEF Iteration, SmallTypes
<1>6. CASE OtherInstruction \/ ReadRhr \/ ReadIir \/ WriteThr \/ ReadStdin \/ ReadStdinBlocks
           \/ \E enable \in SUBSET {"rx", "tx"} : WriteIer(enable)
           \/ \E d \in BOOLEAN : WriteLcr(d)
  <2>1. Iteration
    BY <1>6 DEF OtherInstruction, ReadRhr, ReadIir, WriteThr, ReadStdin, ReadStdinBlocks, WriteIer, WriteLcr
  <2>2. process' \in {process, "blocked"}
    BY <1>6 DEF OtherInstruction, ReadRhr, ReadIir, WriteThr, ReadStdin, ReadStdinBlocks, WriteIer, WriteLcr
  <2>3. dlab' \in BOOLEAN /\ ier' \in SUBSET {"rx", "tx"} /\ txIrq' \in BOOLEAN
    BY <1>6 DEF SmallTypes, OtherInstruction, ReadRhr, ReadIir, WriteThr, ReadStdin, ReadStdinBlocks,
                WriteIer, WriteLcr
  <2> QED
    BY <1>5, <2>1, <2>2, <2>3 DEF SmallTypes, terminal
<1>7. CASE ReadStdinReturns
  BY <1>7 DEF ReadStdinReturns, SmallTypes, terminal, uart
<1>8. CASE UNCHANGED vars
  BY <1>8 DEF vars, SmallTypes, terminal, uart
<1> QED
  BY <1>1, <1>2, <1>3, <1>4, <1>6, <1>7, <1>8 DEF Next

\* The variables keep their types, whatever the guest does and whatever is typed.
THEOREM ConsoleTypeCorrect == Spec => []TypeOK
<1>1. Init => SmallTypes
  <2> SUFFICES ASSUME Init PROVE SmallTypes
    OBVIOUS
  <2>1. i = 0 /\ 0 \in 0 .. PollEvery - 1 /\ Len(keys) <= MaxTyped
    BY BoundsAssumption, EmptySeq DEF Init
  <2>2. FALSE \in BOOLEAN /\ {} \in SUBSET {"rx", "tx"} /\ 1 \in {1, 2, 3, 4, 5, 6}
    OBVIOUS
  <2> QED
    BY <2>1, <2>2 DEF Init, SmallTypes
<1>2. ASSUME SmallTypes, RouteInv PROVE TypeOK
  <2>1. Len(keys) \in Nat /\ Len(keys) <= MaxTyped /\ MaxTyped \in Nat
    BY <1>2, BoundsAssumption, RouteFacts DEF SmallTypes, RouteInv
  <2>2. 1 .. Len(keys) \subseteq Key /\ Ways \X (1 .. Len(keys)) \subseteq Ways \X Key
    BY <2>1 DEF Key, Ways
  <2>3. /\ tty \in Seq(1 .. Len(keys)) /\ stdio \in Seq(1 .. Len(keys)) /\ slot \in 0 .. Len(keys)
        /\ taken \in Seq(Ways \X (1 .. Len(keys)))
    BY <1>2 DEF RouteInv, Route, RouteTypes
  <2>4. tty \in Seq(Key) /\ stdio \in Seq(Key) /\ taken \in Seq(Ways \X Key)
    <3>1. PICK A, B, C, D : /\ A = 1 .. Len(keys) /\ B = Key
                            /\ C = Ways \X (1 .. Len(keys)) /\ D = Ways \X Key
      OBVIOUS
    <3>2. Seq(A) \subseteq Seq(B) /\ Seq(C) \subseteq Seq(D)
      BY <2>2, <3>1, SeqMonotonic
    <3> QED
      BY <2>3, <3>1, <3>2
  <2>5. slot \in Key \cup {NoKey}
    BY <2>1, <2>3 DEF Key, NoKey
  <2>6. step \in 1 .. Len(Steps)
    BY <1>2 DEF SmallTypes, Steps
  <2> QED
    BY <1>2, <2>4, <2>5, <2>6 DEF TypeOK, SmallTypes, RouteInv, Ways
<1> QED
  BY <1>1, <1>2, SmallTypesInductive, RouteAlways, PTL DEF Spec
=============================================================================
