-------------------------------- MODULE MCOpv --------------------------------
(***************************************************************************)
(* Opv for TLC: trees of three levels, blocks of four bits, a generator    *)
(* that sometimes yields zero, and four permutations of eight elements.    *)
(***************************************************************************)
EXTENDS Opv

Bit == INSTANCE Bitwise

MCBlock == 0 .. 15
MCAdd(x, y) == (x + y) % 16
MCSub(x, y) == (x - y) % 16
MCXor(x, y) == Bit!^^(x, y)

MCPRG == [x \in 0 .. 15 |-> [side \in {0, 1} |->
            IF side = 0 THEN (7 * x + 3) % 16 ELSE (11 * x + 6) % 16]]
MCPerms == {[i \in 0 .. 7 |-> i], [i \in 0 .. 7 |-> 7 - i],
            [i \in 0 .. 7 |-> (3 * i + 5) % 8], [i \in 0 .. 7 |-> (5 * i + 2) % 8]}
=============================================================================
