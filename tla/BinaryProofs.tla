---------------------------- MODULE BinaryProofs ----------------------------
(***************************************************************************)
(* Induction over the natural numbers, stated for sets so that a goal is    *)
(* the set of the numbers it holds for; functions defined by recursion; and *)
(* what Binary's operators compute, for every number of bits.               *)
(***************************************************************************)
EXTENDS Binary, TLAPS, WellFoundedInduction

NatLess == OpToRel(<, Nat)

LEMMA LeastNumber ==
  ASSUME NEW T, T \subseteq Nat, T # {}
  PROVE  \E m \in T : \A k \in T : ~(k < m)
<1>1. IsWellFoundedOn(NatLess, Nat)
  BY NatLessThanWellFounded DEF NatLess
<1>2. \E m \in T : \A k \in T : <<k, m>> \notin NatLess
  BY <1>1, WFMin
<1>3. \A k, m \in Nat : k < m => <<k, m>> \in NatLess
  BY DEF NatLess, OpToRel
<1> QED
  BY <1>2, <1>3

LEMMA Induction ==
  ASSUME NEW T, 0 \in T, \A n \in Nat : n \in T => n + 1 \in T
  PROVE  Nat \subseteq T
<1>1. SUFFICES ASSUME Nat \ T # {} PROVE FALSE
  OBVIOUS
<1>2. PICK m \in Nat \ T : \A k \in Nat \ T : ~(k < m)
  BY <1>1, LeastNumber
<1>3. m # 0 /\ m - 1 \in Nat
  BY <1>2
<1>4. m - 1 \in T
  BY <1>2, <1>3
<1> QED
  BY <1>2, <1>3, <1>4

-----------------------------------------------------------------------------
(* Recursion *)

\* f is given by `step` up to n.
Follows(f, n, v, step) ==
  f[0] = v /\ \A k \in 0 .. n - 1 : f[k + 1] = step[<<f[k], k>>]

LEMMA FollowsIsUnique ==
  ASSUME NEW v, NEW step, NEW f, NEW g, NEW n \in Nat, NEW m \in Nat, m <= n,
         Follows(f, n, v, step), Follows(g, m, v, step)
  PROVE  f[m] = g[m]
<1> DEFINE T == {k \in Nat : k <= m => f[k] = g[k]}
<1>1. 0 \in T
  BY DEF Follows
<1>2. ASSUME NEW k \in Nat, k \in T PROVE k + 1 \in T
  <2>1. SUFFICES ASSUME k + 1 <= m PROVE f[k + 1] = g[k + 1]
    OBVIOUS
  <2>2. k \in 0 .. n - 1 /\ k \in 0 .. m - 1 /\ k <= m
    BY <2>1
  <2>3. f[k + 1] = step[<<f[k], k>>] /\ g[k + 1] = step[<<g[k], k>>]
    BY <2>2 DEF Follows
  <2> QED
    BY <1>2, <2>2, <2>3
<1> HIDE DEF T
<1>3. Nat \subseteq T
  BY <1>1, <1>2, Induction
<1> QED
  BY <1>3 DEF T

LEMMA FollowsExists ==
  ASSUME NEW V, NEW v \in V, NEW step \in [V \X Nat -> V]
  PROVE  \A n \in Nat : \E f \in [0 .. n -> V] : Follows(f, n, v, step)
<1> DEFINE T == {n \in Nat : \E f \in [0 .. n -> V] : Follows(f, n, v, step)}
<1>1. 0 \in T
  <2> DEFINE f == [k \in 0 .. 0 |-> v]
  <2>1. f \in [0 .. 0 -> V] /\ f[0] = v /\ 0 .. 0 - 1 = {}
    OBVIOUS
  <2>2. Follows(f, 0, v, step)
    BY <2>1 DEF Follows
  <2> QED
    BY <2>1, <2>2
<1>2. ASSUME NEW n \in Nat, n \in T PROVE n + 1 \in T
  <2>1. PICK f \in [0 .. n -> V] : Follows(f, n, v, step)
    BY <1>2
  <2> DEFINE g == [k \in 0 .. n + 1 |-> IF k = n + 1 THEN step[<<f[n], n>>] ELSE f[k]]
  <2>2. f[n] \in V /\ step[<<f[n], n>>] \in V
    OBVIOUS
  <2>3. g \in [0 .. n + 1 -> V]
    BY <2>2
  <2>4. ASSUME NEW k \in 0 .. (n + 1) - 1 PROVE g[k + 1] = step[<<g[k], k>>]
    <3>1. g[k] = f[k]
      OBVIOUS
    <3>2. CASE k = n
      <4>1. k + 1 \in 0 .. n + 1 /\ g[k + 1] = step[<<f[n], n>>]
        BY <3>2
      <4> QED
        BY <3>1, <3>2, <4>1
    <3>3. CASE k # n
      <4>1. k \in 0 .. n - 1 /\ g[k + 1] = f[k + 1]
        BY <3>3
      <4> QED
        BY <2>1, <3>1, <4>1 DEF Follows
    <3> QED
      BY <3>2, <3>3
  <2>5. g[0] = v
    BY <2>1 DEF Follows
  <2>6. Follows(g, n + 1, v, step)
    BY <2>4, <2>5 DEF Follows
  <2> QED
    BY <2>3, <2>6
<1> HIDE DEF T
<1>3. Nat \subseteq T
  BY <1>1, <1>2, Induction
<1> QED
  BY <1>3 DEF T

IsStep(step, V) == step \in [V \X Nat -> V]
Solves(f, V, v, step) ==
  f \in [Nat -> V] /\ f[0] = v /\ \A n \in Nat : f[n + 1] = step[<<f[n], n>>]

\* A function over Nat that recurs on the number before is defined.
LEMMA RecursionIsDefined ==
  ASSUME NEW V, NEW v, NEW step, v \in V, IsStep(step, V)
  PROVE  \E f : Solves(f, V, v, step)
<1> DEFINE upTo(n) == CHOOSE f \in [0 .. n -> V] : Follows(f, n, v, step)
           f == [n \in Nat |-> upTo(n)[n]]
<1>1. \A n \in Nat : upTo(n) \in [0 .. n -> V] /\ Follows(upTo(n), n, v, step)
  BY FollowsExists DEF IsStep
<1> HIDE DEF upTo
<1>2. f \in [Nat -> V]
  BY <1>1
<1>3. f[0] = v
  BY <1>1 DEF Follows
<1>4. ASSUME NEW n \in Nat PROVE f[n + 1] = step[<<f[n], n>>]
  <2>1. n + 1 \in Nat /\ n <= n + 1 /\ n \in 0 .. (n + 1) - 1
    OBVIOUS
  <2>2. upTo(n + 1)[n + 1] = step[<<upTo(n + 1)[n], n>>]
    BY <1>1, <2>1 DEF Follows
  <2>3. upTo(n + 1)[n] = upTo(n)[n]
    BY <1>1, <2>1, FollowsIsUnique
  <2> QED
    BY <2>1, <2>2, <2>3
<1> QED
  BY <1>2, <1>3, <1>4 DEF Solves

-----------------------------------------------------------------------------
(* Division *)

LEMMA Division ==
  ASSUME NEW a \in Int, NEW n \in Nat, n > 0
  PROVE  a \div n \in Int /\ a % n \in 0 .. n - 1 /\ a = (a \div n) * n + (a % n)
OBVIOUS

LEMMA DivisionIsUnique ==
  ASSUME NEW n \in Nat, n > 0, NEW q \in Int, NEW r \in 0 .. n - 1
  PROVE  (q * n + r) \div n = q /\ (q * n + r) % n = r
<1>1. PICK a \in Int : a = q * n + r
  OBVIOUS
<1>2. a \div n \in Int /\ a % n \in 0 .. n - 1 /\ a = (a \div n) * n + (a % n)
  BY Division
<1>3. (q - a \div n) * n = (a % n) - r
  BY <1>1, <1>2
<1>4. \A k \in Int : k >= 1 => k * n >= n
  OBVIOUS
<1>5. \A k \in Int : k <= -1 => k * n <= -n
  OBVIOUS
<1>6. q - a \div n = 0
  BY <1>2, <1>3, <1>4, <1>5
<1> QED
  BY <1>1, <1>2, <1>3, <1>6

-----------------------------------------------------------------------------
(* Powers of two *)

LEMMA Pow2Definition == Pow2 = [n \in Nat |-> IF n = 0 THEN 1 ELSE 2 * Pow2[n - 1]]
<1> DEFINE step == [p \in Nat \X Nat |-> 2 * p[1]]
           Recurs(f) == f = [n \in Nat |-> IF n = 0 THEN 1 ELSE 2 * f[n - 1]]
<1>1. IsStep(step, Nat)
  BY DEF IsStep
<1>2. \A m, n \in Nat : step[<<m, n>>] = 2 * m
  OBVIOUS
<1> HIDE DEF step
<1>3. PICK f : Solves(f, Nat, 1, step)
  BY <1>1, RecursionIsDefined
<1>4. \A n \in Nat : n # 0 => n - 1 \in Nat /\ n = (n - 1) + 1
  OBVIOUS
<1>5. \A n \in Nat : f[n] = IF n = 0 THEN 1 ELSE 2 * f[n - 1]
  BY <1>2, <1>3, <1>4 DEF Solves
<1>6. Recurs(f)
  <2>1. f \in [Nat -> Nat]
    BY <1>3 DEF Solves
  <2> QED
    BY <1>5, <2>1
<1>7. Pow2 = CHOOSE g : Recurs(g)
  BY DEF Pow2
<1> HIDE DEF Recurs
<1>8. Recurs(Pow2)
  BY <1>6, <1>7
<1> QED
  BY <1>8 DEF Recurs

LEMMA Pow2Type == \A n \in Nat : Pow2[n] \in Nat /\ Pow2[n] > 0
<1> DEFINE T == {n \in Nat : Pow2[n] \in Nat /\ Pow2[n] > 0}
<1>1. 0 \in T
  BY Pow2Definition
<1>2. ASSUME NEW n \in Nat, n \in T PROVE n + 1 \in T
  <2>1. Pow2[n + 1] = 2 * Pow2[n]
    BY Pow2Definition
  <2> QED
    BY <1>2, <2>1
<1> HIDE DEF T
<1> QED
  BY <1>1, <1>2, Induction DEF T

LEMMA Pow2Next == Pow2[0] = 1 /\ \A n \in Nat : Pow2[n + 1] = 2 * Pow2[n]
<1>1. \A n \in Nat : n + 1 \in Nat /\ n + 1 # 0 /\ (n + 1) - 1 = n
  OBVIOUS
<1> QED
  BY <1>1, Pow2Definition

LEMMA Pow2Sum == \A m, n \in Nat : Pow2[m + n] = Pow2[m] * Pow2[n]
<1> SUFFICES ASSUME NEW m \in Nat PROVE \A n \in Nat : Pow2[m + n] = Pow2[m] * Pow2[n]
  OBVIOUS
<1> DEFINE T == {n \in Nat : Pow2[m + n] = Pow2[m] * Pow2[n]}
<1>1. 0 \in T
  BY Pow2Type, Pow2Next
<1>2. ASSUME NEW n \in Nat, n \in T PROVE n + 1 \in T
  <2>1. Pow2[m + (n + 1)] = 2 * Pow2[m + n]
    <3>1. m + (n + 1) = (m + n) + 1 /\ m + n \in Nat
      OBVIOUS
    <3> QED
      BY <3>1, Pow2Next
  <2>2. Pow2[n + 1] = 2 * Pow2[n] /\ Pow2[m] \in Nat /\ Pow2[n] \in Nat
    BY Pow2Next, Pow2Type
  <2>3. 2 * (Pow2[m] * Pow2[n]) = Pow2[m] * (2 * Pow2[n])
    BY <2>2
  <2> QED
    BY <1>2, <2>1, <2>2, <2>3
<1> HIDE DEF T
<1> QED
  BY <1>1, <1>2, Induction DEF T

-----------------------------------------------------------------------------
(* Bits and numbers *)

LEMMA NumberSteps ==
  ASSUME NEW b
  PROVE  /\ Number(b, 0) = 0
         /\ \A n \in Nat : /\ Number(b, n) \in Nat
                           /\ Number(b, n + 1) = Number(b, n) + (IF n \in b THEN Pow2[n] ELSE 0)
<1> DEFINE weight(n) == IF n \in b THEN Pow2[n] ELSE 0
           step == [p \in Nat \X Nat |-> p[1] + weight(p[2])]
           Recurs(f) == f = [n \in Nat |-> IF n = 0 THEN 0 ELSE f[n - 1] + weight(n - 1)]
           below == CHOOSE f : Recurs(f)
<1>1. \A n : Number(b, n) = below[n]
  BY DEF Number
<1>2. \A n \in Nat : weight(n) \in Nat
  BY Pow2Type
<1> HIDE DEF weight
<1>3. IsStep(step, Nat) /\ \A m, n \in Nat : step[<<m, n>>] = m + weight(n)
  BY <1>2 DEF IsStep
<1> HIDE DEF step
<1>4. PICK f : Solves(f, Nat, 0, step)
  BY <1>3, RecursionIsDefined
<1>5. \A n \in Nat : n # 0 => n - 1 \in Nat /\ n = (n - 1) + 1
  OBVIOUS
<1>6. \A n \in Nat : f[n] = IF n = 0 THEN 0 ELSE f[n - 1] + weight(n - 1)
  BY <1>3, <1>4, <1>5 DEF Solves
<1>7. Recurs(f)
  <2>1. f \in [Nat -> Nat]
    BY <1>4 DEF Solves
  <2> QED
    BY <1>6, <2>1
<1> HIDE DEF Recurs
<1>8. Recurs(below)
  BY <1>7
<1> HIDE DEF below
<1>9. below[0] = 0 /\ \A n \in Nat : below[n + 1] = below[n] + weight(n)
  <2>1. \A n \in Nat : n + 1 \in Nat /\ n + 1 # 0 /\ (n + 1) - 1 = n
    OBVIOUS
  <2> QED
    BY <1>8, <2>1 DEF Recurs
<1> DEFINE T == {n \in Nat : below[n] \in Nat}
<1>10. 0 \in T /\ \A n \in Nat : n \in T => n + 1 \in T
  BY <1>2, <1>9
<1> HIDE DEF T
<1>11. Nat \subseteq T
  BY <1>10, Induction
<1> QED
  BY <1>1, <1>9, <1>11 DEF T, weight

LEMMA NumberType == \A b : \A n \in Nat : Number(b, n) \in 0 .. Pow2[n] - 1
<1> SUFFICES ASSUME NEW b PROVE \A n \in Nat : Number(b, n) \in 0 .. Pow2[n] - 1
  OBVIOUS
<1> DEFINE T == {n \in Nat : Number(b, n) \in 0 .. Pow2[n] - 1}
<1>1. 0 \in T
  BY NumberSteps, Pow2Next
<1>2. ASSUME NEW n \in Nat, n \in T PROVE n + 1 \in T
  <2>1. Pow2[n + 1] = 2 * Pow2[n] /\ Pow2[n] \in Nat
    BY Pow2Next, Pow2Type
  <2>2. Number(b, n + 1) = Number(b, n) + (IF n \in b THEN Pow2[n] ELSE 0)
    BY NumberSteps
  <2> QED
    BY <1>2, <2>1, <2>2
<1> HIDE DEF T
<1> QED
  BY <1>1, <1>2, Induction DEF T

\* One more bit of a number.
LEMMA OneMoreBit ==
  ASSUME NEW a \in Int, NEW n \in Nat
  PROVE  a % Pow2[n + 1] = (a % Pow2[n]) + (IF (a \div Pow2[n]) % 2 = 1 THEN Pow2[n] ELSE 0)
<1>1. PICK p \in Nat : p = Pow2[n] /\ p > 0 /\ Pow2[n + 1] = 2 * p
  BY Pow2Type, Pow2Next
<1>2. PICK q \in Int, r \in 0 .. p - 1 : q = a \div p /\ r = a % p /\ a = q * p + r
  <2>1. a \in Int /\ p \in Nat /\ p > 0
    BY <1>1
  <2>2. a \div p \in Int /\ a % p \in 0 .. p - 1 /\ a = (a \div p) * p + (a % p)
    BY <2>1, Division
  <2> QED
    BY <2>2
<1>3. PICK h \in Int, c \in 0 .. 1 : h = q \div 2 /\ c = q % 2 /\ q = h * 2 + c
  BY Division
<1>4. a = h * (2 * p) + (c * p + r)
  <2>1. q * p = h * (2 * p) + c * p
    BY <1>3
  <2> QED
    BY <1>2, <2>1
<1>5. c = 0 \/ c = 1
  OBVIOUS
<1>6. c * p + r \in 0 .. (2 * p) - 1 /\ 2 * p \in Nat /\ 2 * p > 0
  BY <1>1, <1>5
<1>7. a % (2 * p) = c * p + r
  BY <1>4, <1>6, DivisionIsUnique
<1>8. a % Pow2[n + 1] = c * p + r /\ (a \div Pow2[n]) % 2 = c /\ a % Pow2[n] = r
  BY <1>1, <1>2, <1>3, <1>7
<1>9. c * p + r = r + (IF c = 1 THEN p ELSE 0)
  BY <1>5
<1> QED
  BY <1>1, <1>8, <1>9

\* The lowest bits of any integer, in two's complement.
LEMMA NumberOfLowBits ==
  ASSUME NEW w \in Nat, NEW a \in Int
  PROVE  Number(Bits(a, w), w) = a % Pow2[w]
<1> DEFINE b == Bits(a, w)
           T == {n \in Nat : n <= w => Number(b, n) = a % Pow2[n]}
<1>1. 0 \in T
  <2>1. a % 1 = 0
    OBVIOUS
  <2> QED
    BY <2>1, NumberSteps, Pow2Next
<1>2. ASSUME NEW n \in Nat, n \in T PROVE n + 1 \in T
  <2>1. SUFFICES ASSUME n + 1 <= w PROVE Number(b, n + 1) = a % Pow2[n + 1]
    OBVIOUS
  <2>2. n \in b <=> (a \div Pow2[n]) % 2 = 1
    BY <2>1 DEF Bits
  <2> HIDE DEF b
  <2>3. Number(b, n) = a % Pow2[n]
    BY <1>2, <2>1
  <2>4. Number(b, n + 1) = Number(b, n) + (IF n \in b THEN Pow2[n] ELSE 0)
    BY NumberSteps
  <2>5. a % Pow2[n + 1] = (a % Pow2[n]) + (IF (a \div Pow2[n]) % 2 = 1 THEN Pow2[n] ELSE 0)
    BY OneMoreBit
  <2> QED
    BY <2>2, <2>3, <2>4, <2>5
<1> HIDE DEF T
<1>3. w \in T
  BY <1>1, <1>2, Induction
<1> QED
  BY <1>3 DEF T

LEMMA NumberOfBits ==
  ASSUME NEW w \in Nat, NEW a \in 0 .. Pow2[w] - 1
  PROVE  Number(Bits(a, w), w) = a
<1>1. PICK p \in Nat : p = Pow2[w] /\ p > 0
  BY Pow2Type
<1>2. a \in Int /\ a % p = a
  BY <1>1
<1> QED
  BY <1>1, <1>2, NumberOfLowBits

LEMMA Pow2Grows == \A m, n \in Nat : m <= n => Pow2[m] <= Pow2[n]
<1> SUFFICES ASSUME NEW m \in Nat, NEW n \in Nat, m <= n PROVE Pow2[m] <= Pow2[n]
  OBVIOUS
<1>1. PICK k \in Nat : n = m + k
  <2>1. n - m \in Nat /\ n = m + (n - m)
    OBVIOUS
  <2> QED
    BY <2>1
<1>2. PICK p \in Nat, q \in Nat : p = Pow2[m] /\ q = Pow2[k] /\ q > 0 /\ Pow2[n] = p * q
  BY <1>1, Pow2Type, Pow2Sum
<1>3. p <= p * q
  BY <1>2
<1> QED
  BY <1>2, <1>3

\* From its sign bit upwards, all bits of a number are that bit.
LEMMA SignBits ==
  ASSUME NEW m \in Nat, NEW a \in Int, -Pow2[m] <= a, a < Pow2[m], NEW k \in Nat, m <= k
  PROVE  (a \div Pow2[k]) % 2 = 1 <=> a < 0
<1>1. PICK p \in Nat : p = Pow2[k] /\ p > 0 /\ -p <= a /\ a < p
  <2>1. PICK p \in Nat, q \in Nat : p = Pow2[k] /\ p > 0 /\ q = Pow2[m] /\ q <= p
    BY Pow2Type, Pow2Grows
  <2> QED
    BY <2>1
<1>2. CASE a >= 0
  <2>1. (0 * p + a) \div p = 0
    <3>1. a \in 0 .. p - 1
      BY <1>1, <1>2
    <3> QED
      BY <1>1, <3>1, DivisionIsUnique
  <2>2. 0 * p + a = a
    BY <1>1
  <2> QED
    BY <1>1, <1>2, <2>1, <2>2
<1>3. CASE a < 0
  <2>1. PICK q \in Int : q + 1 = 0
    <3>1. -1 \in Int /\ -1 + 1 = 0
      OBVIOUS
    <3> QED
      BY <3>1
  <2>2. (q * p + (a + p)) \div p = q
    <3>1. a + p \in 0 .. p - 1
      BY <1>1, <1>3
    <3> QED
      BY <1>1, <3>1, DivisionIsUnique
  <2>3. q * p + (a + p) = a
    <3>1. q * p + p = (q + 1) * p
      BY <1>1
    <3> QED
      BY <1>1, <2>1, <3>1
  <2>4. a \div p = q /\ q % 2 = 1
    BY <2>1, <2>2, <2>3
  <2> QED
    BY <1>1, <1>3, <2>4
<1> QED
  BY <1>2, <1>3

\* The bits of -1 - a are those that a has not.
LEMMA Complement ==
  ASSUME NEW a \in Int, NEW k \in Nat
  PROVE  ((-1 - a) \div Pow2[k]) % 2 = 1 <=> ~((a \div Pow2[k]) % 2 = 1)
<1>1. PICK p \in Nat : p = Pow2[k] /\ p > 0
  BY Pow2Type
<1>2. PICK q \in Int, r \in Int : q = a \div p /\ r \in 0 .. p - 1 /\ a = q * p + r
  <2>1. a \div p \in Int /\ a % p \in 0 .. p - 1 /\ a = (a \div p) * p + (a % p)
    BY <1>1, Division
  <2>2. a % p \in Int
    BY <1>1, <2>1
  <2> QED
    BY <2>1, <2>2
<1>3. PICK s \in Int, t \in Int : s + q + 1 = 0 /\ t = p - 1 - r
  <2>1. (-1 - q) + q + 1 = 0 /\ -1 - q \in Int /\ p - 1 - r \in Int
    BY <1>1, <1>2
  <2> QED
    BY <2>1
<1>4. -1 - a = s * p + t
  <2>1. (s + q + 1) * p = s * p + q * p + p
    BY <1>1
  <2> QED
    BY <1>1, <1>2, <1>3, <2>1
<1>5. (s * p + t) \div p = s
  <2>1. t \in 0 .. p - 1
    BY <1>1, <1>2, <1>3
  <2> QED
    BY <1>1, <2>1, DivisionIsUnique
<1>6. s % 2 = 1 <=> ~(q % 2 = 1)
  BY <1>3
<1> QED
  BY <1>1, <1>2, <1>4, <1>5, <1>6

\* The bits of a small number.
LEMMA ShortBits ==
  ASSUME NEW m \in Nat, NEW a \in 0 .. Pow2[m] - 1, NEW n \in Nat, m <= n
  PROVE  Bits(a, n) = Bits(a, m)
<1>1. a \in Int /\ -Pow2[m] <= a /\ a < Pow2[m] /\ ~(a < 0)
  BY Pow2Type
<1>2. \A k \in m .. n - 1 : (a \div Pow2[k]) % 2 # 1
  <2>1. \A k \in m .. n - 1 : k \in Nat /\ m <= k
    OBVIOUS
  <2> QED
    BY <1>1, <2>1, SignBits
<1>3. \A k : k \in 0 .. n - 1 <=> k \in 0 .. m - 1 \/ k \in m .. n - 1
  OBVIOUS
<1> QED
  BY <1>2, <1>3 DEF Bits

\* A bit added above does not change those below, and is read back.
LEMMA HigherBit ==
  ASSUME NEW N \in Nat, NEW p \in Nat, p > 0, NEW h \in Nat
  PROVE  ((N + (2 * h) * p) \div p) % 2 = (N \div p) % 2
<1>1. PICK q \in Int, r \in Int : q = N \div p /\ r \in 0 .. p - 1 /\ N = q * p + r
  <2>1. N \div p \in Int /\ N % p \in 0 .. p - 1 /\ N = (N \div p) * p + (N % p)
    BY Division
  <2>2. N % p \in Int
    BY <2>1
  <2> QED
    BY <2>1, <2>2
<1>2. PICK s \in Int : s = q + 2 * h
  OBVIOUS
<1>3. N + (2 * h) * p = s * p + r
  BY <1>1, <1>2
<1>4. (s * p + r) \div p = s
  BY <1>1, DivisionIsUnique
<1>5. s % 2 = q % 2
  BY <1>2
<1> QED
  BY <1>1, <1>3, <1>4, <1>5

LEMMA TopBit ==
  ASSUME NEW P \in Nat, NEW N \in 0 .. P - 1, NEW c \in {0, 1}
  PROVE  ((N + c * P) \div P) % 2 = c
<1>1. c * P + N = N + c * P /\ c \in Int /\ P > 0
  OBVIOUS
<1>2. (c * P + N) \div P = c
  BY <1>1, DivisionIsUnique
<1>3. c % 2 = c
  OBVIOUS
<1> QED
  BY <1>1, <1>2, <1>3

\* A number is made of the bits that it was put together from.
LEMMA BitOfNumber ==
  ASSUME NEW b, NEW n \in Nat, NEW k \in 0 .. n - 1
  PROVE  (Number(b, n) \div Pow2[k]) % 2 = 1 <=> k \in b
<1> DEFINE T == {m \in Nat : k < m => ((Number(b, m) \div Pow2[k]) % 2 = 1 <=> k \in b)}
<1>1. 0 \in T
  OBVIOUS
<1>2. ASSUME NEW m \in Nat, k < m => ((Number(b, m) \div Pow2[k]) % 2 = 1 <=> k \in b), k < m + 1
      PROVE  (Number(b, m + 1) \div Pow2[k]) % 2 = 1 <=> k \in b
  <2> HIDE DEF T
  <2>1. Number(b, m) \in 0 .. Pow2[m] - 1 /\ Pow2[m] \in Nat /\ Pow2[k] \in Nat /\ Pow2[k] > 0
    BY NumberType, Pow2Type
  <2>2. Number(b, m + 1) = Number(b, m) + (IF m \in b THEN Pow2[m] ELSE 0)
    BY NumberSteps
  <2>3. PICK c \in {0, 1} : (c = 1 <=> m \in b) /\ Number(b, m + 1) = Number(b, m) + c * Pow2[m]
    <3>1. CASE m \in b
      <4>1. Number(b, m + 1) = Number(b, m) + 1 * Pow2[m]
        BY <2>1, <2>2, <3>1
      <4> QED
        BY <3>1, <4>1
    <3>2. CASE m \notin b
      <4>1. Number(b, m + 1) = Number(b, m) + 0 * Pow2[m]
        BY <2>1, <2>2, <3>2
      <4> QED
        BY <3>2, <4>1
    <3> QED
      BY <3>1, <3>2
  <2>4. CASE k = m
    BY <2>1, <2>3, <2>4, TopBit
  <2>5. CASE k < m /\ m \in b
    <3>1. PICK h \in Nat : Pow2[m] = (2 * h) * Pow2[k]
      <4>1. (m - k) - 1 \in Nat /\ ((m - k) - 1) + 1 = m - k /\ m - k \in Nat /\ k + (m - k) = m
        BY <2>5
      <4>2. Pow2[m - k] = 2 * Pow2[(m - k) - 1] /\ Pow2[m] = Pow2[k] * Pow2[m - k]
        BY <4>1, Pow2Next, Pow2Sum
      <4>3. PICK h \in Nat : h = Pow2[(m - k) - 1]
        BY <4>1, Pow2Type
      <4> QED
        BY <2>1, <4>2, <4>3
    <3>2. Number(b, m + 1) = Number(b, m) + (2 * h) * Pow2[k]
      BY <2>2, <2>5, <3>1
    <3>3. Number(b, m) \in Nat
      BY <2>1
    <3>4. ((Number(b, m) + (2 * h) * Pow2[k]) \div Pow2[k]) % 2 = (Number(b, m) \div Pow2[k]) % 2
      BY <2>1, <3>3, HigherBit
    <3> QED
      BY <1>2, <2>5, <3>2, <3>4
  <2>6. CASE k < m /\ m \notin b
    <3>1. Number(b, m + 1) = Number(b, m)
      BY <2>1, <2>2, <2>6
    <3> QED
      BY <1>2, <2>6, <3>1
  <2> QED
    BY <1>2, <2>4, <2>5, <2>6
<1>3. \A m \in Nat : m \in T => m + 1 \in T
  BY <1>2
<1> HIDE DEF T
<1>4. n \in T
  BY <1>1, <1>3, Induction
<1> QED
  BY <1>4 DEF T

LEMMA BitsOfNumber ==
  ASSUME NEW b, NEW n \in Nat
  PROVE  Bits(Number(b, n), n) = b \cap 0 .. n - 1
BY BitOfNumber DEF Bits

\* Bits that are not there count for nothing.
LEMMA ShortNumberOf ==
  ASSUME NEW b, NEW m \in Nat, NEW n \in Nat, m <= n, b \cap m .. n - 1 = {}
  PROVE  Number(b, n) = Number(b, m)
<1> DEFINE T == {j \in Nat : m + j <= n => Number(b, m + j) = Number(b, m)}
<1>1. 0 \in T
  OBVIOUS
<1>2. ASSUME NEW j \in Nat, j \in T PROVE j + 1 \in T
  <2>1. SUFFICES ASSUME m + (j + 1) <= n PROVE Number(b, m + (j + 1)) = Number(b, m)
    OBVIOUS
  <2>2. m + j \in Nat /\ m + j \in m .. n - 1 /\ m + (j + 1) = (m + j) + 1
    BY <2>1
  <2>3. PICK k \in Nat : k = m + j /\ k \notin b
    BY <2>2
  <2>4. Number(b, k + 1) = Number(b, k) + (IF k \in b THEN Pow2[k] ELSE 0) /\ Number(b, k) \in Nat
    BY NumberSteps
  <2>5. Number(b, k + 1) = Number(b, k)
    BY <2>3, <2>4
  <2>6. Number(b, k) = Number(b, m)
    BY <1>2, <2>1, <2>3
  <2> QED
    BY <2>2, <2>3, <2>5, <2>6
<1> HIDE DEF T
<1>3. n - m \in T /\ m + (n - m) = n
  BY <1>1, <1>2, Induction
<1> QED
  BY <1>3 DEF T
=============================================================================
