------------------------------- MODULE Binary -------------------------------
(* Powers of two, and natural numbers as the sets of their 1 bits.          *)
EXTENDS Integers

Pow2[n \in Nat] == IF n = 0 THEN 1 ELSE 2 * Pow2[n - 1]

\* The lowest w bits of a, and the number that has the bits b below w.
Bits(a, w) == {i \in 0 .. w - 1 : (a \div Pow2[i]) % 2 = 1}

Number(b, w) ==
  LET below[n \in Nat] ==
        IF n = 0 THEN 0 ELSE below[n - 1] + (IF n - 1 \in b THEN Pow2[n - 1] ELSE 0)
  IN  below[w]
=============================================================================
