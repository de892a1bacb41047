-------------------------------- MODULE Sums --------------------------------
(* A sum that proofs can be made about: the folds of the community modules *)
(* are defined through operators that take operators.                      *)
EXTENDS Integers

\* f[0] + ... + f[n - 1]
Total(f, n) ==
  LET s[k \in 0 .. n] == IF k = 0 THEN 0 ELSE s[k - 1] + f[k - 1]
  IN  s[n]
=============================================================================
