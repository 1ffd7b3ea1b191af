---------------------------- MODULE PowersOfTwo ----------------------------
(* Powers of two, as a recursive function that proofs can unfold. *)
EXTENDS Naturals

\* 1 << n, for a result that fits its type.
Pow2[n \in Nat] == IF n = 0 THEN 1 ELSE 2 * Pow2[n - 1]

=============================================================================
