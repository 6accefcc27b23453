-------------------------------- MODULE Sums --------------------------------
(***************************************************************************)
(* Sums of a function over 1 .. n: of ledger lines, of holds, of charges.  *)
(* Written as a recursive function over the prefixes rather than as a fold *)
(* over a set, so that proofs can reason about it by induction.            *)
(***************************************************************************)
EXTENDS Integers

\* g is the function of the prefix sums of f up to n.
IsPrefixSum(g, f, n) ==
    g = [i \in 0 .. n |-> IF i = 0 THEN 0 ELSE g[i - 1] + f[i]]

\* f[1] + ... + f[n]
Total(f, n) ==
    LET sum[i \in 0 .. n] == IF i = 0 THEN 0 ELSE sum[i - 1] + f[i]
    IN  sum[n]
=============================================================================
