------------------------------- MODULE Powers -------------------------------
(***************************************************************************)
(* Powers by repeated multiplication: the weights of the digits of a       *)
(* counter and of the bits of a byte.                                      *)
(***************************************************************************)
EXTENDS Integers

Power(b, k) == LET P[n \in Nat] == IF n = 0 THEN 1 ELSE b * P[n - 1] IN P[k]

\* The digit of weight b^k of x.
Digit(b, x, k) == (x \div Power(b, k)) % b
=============================================================================
