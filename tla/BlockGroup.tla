----------------------------- MODULE BlockGroup -----------------------------
(***************************************************************************)
(* What the shuffle uses of 128-bit blocks: operator+ and operator- of     *)
(* emp::block are those of a GCC vector of two 64-bit lanes, which wrap    *)
(* modulo 2^64, so the blocks form an abelian group.  A field-valued       *)
(* location occupies the low lane.                                         *)
(***************************************************************************)
CONSTANTS Block, zero_block, Add(_, _), Sub(_, _)

ASSUME GroupAssumption ==
  /\ zero_block \in Block
  /\ \A x, y \in Block : /\ Add(x, y) \in Block /\ Sub(x, y) \in Block
                         /\ Add(x, y) = Add(y, x)
                         /\ Add(Sub(x, y), y) = x
                         /\ Sub(Add(x, y), y) = x
  /\ \A x \in Block : Add(x, zero_block) = x
  /\ \A x, y, z \in Block : Add(Add(x, y), z) = Add(x, Add(y, z))
=============================================================================
