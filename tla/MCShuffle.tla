------------------------------ MODULE MCShuffle ------------------------------
(***************************************************************************)
(* Instances of Shuffle for TLC: three elements, blocks modulo 5, every    *)
(* permutation, and vectors whose sums and differences are all different.  *)
(***************************************************************************)
EXTENDS Shuffle

MCBlock == 0 .. 4
MCAdd(u, v) == (u + v) % 5
MCSub(u, v) == (u - v) % 5
MCPerms ==
  {q \in [Idx -> Idx] : \A i, j \in Idx : q[i] = q[j] => i = j}
MCInputs == {[k \in Idx |-> 0], [k \in Idx |-> (k + 1) % 5],
             [k \in Idx |-> (2 * k * k + 4) % 5]}
MCMasks == {[k \in Idx |-> (3 * k * k + k + 2) % 5], [k \in Idx |-> (4 * k + 1) % 5]}
=============================================================================
