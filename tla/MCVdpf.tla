------------------------------- MODULE MCVdpf -------------------------------
(***************************************************************************)
(* Blocks of three bits, trees of three levels, and the field of integers  *)
(* modulo 5.  The cipher is a fixed permutation of the eight blocks.       *)
(***************************************************************************)
EXTENDS FullDomain, TLC, FiniteSetsExt

MCBlockBits == 0 .. 2
ToInt(b) == SumSet({2 ^ i : i \in b})
ToBlock(n) == {i \in MCBlockBits : (n \div (2 ^ i)) % 2 = 1}
Table == <<7, 3, 6, 4, 5, 0, 2, 1>>
MCAesEcb == [b \in SUBSET MCBlockBits |-> ToBlock(Table[ToInt(b) + 1])]
MCFromBlock == [b \in SUBSET MCBlockBits |-> ToInt(b) % Modulus]
MCGetBit(x, i) == (x \div (2 ^ (Size - i))) % 2
MCIdentifier == {0, 2, 3, 5}
MCBetas == {1, 4}
MCInputs == <<0, 2, 3>>
=============================================================================
