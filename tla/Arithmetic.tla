----------------------------- MODULE Arithmetic -----------------------------
(***************************************************************************)
(* Sums and powers as recursive functions over an interval, the form that  *)
(* both TLC evaluates and the proof system can reason about.               *)
(***************************************************************************)
EXTENDS Integers

\* f[1] + ... + f[n].
Total(f, n) ==
    LET sum[i \in 0..n] == IF i = 0 THEN 0 ELSE sum[i - 1] + f[i]
    IN  sum[n]

\* b to the power n.
Power(b, n) ==
    LET pow[i \in 0..n] == IF i = 0 THEN 1 ELSE b * pow[i - 1]
    IN  pow[n]

Least(a, b) == IF a <= b THEN a ELSE b

Greatest(a, b) == IF a >= b THEN a ELSE b

=============================================================================
