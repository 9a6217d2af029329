-------------------------- MODULE MCShuffleOffline --------------------------
(***************************************************************************)
(* Instances of ShuffleOffline for TLC.  Blocks are the integers modulo    *)
(* 17; the masks of a layer are two fixed vectors without regularity.      *)
(***************************************************************************)
EXTENDS ShuffleOffline

MCBlock == 0 .. 16
MCAdd(x, y) == (x + y) % 17
MCSub(x, y) == (x - y) % 17
MCMasks ==
  {[k \in Idx |-> (k * k * k + 5 * k + 3) % 17],
   [k \in Idx |-> (7 * k * k + 11 * (k \div 3) + 1) % 17]}

\* Permutations of four elements, one of them of order four.
Small == <<[i \in 0 .. 3 |-> (i + 1) % 4],
           [i \in 0 .. 3 |-> 3 - i],
           [i \in 0 .. 3 |-> IF i = 0 THEN 2 ELSE IF i = 2 THEN 3 ELSE IF i = 3 THEN 0 ELSE 1],
           [i \in 0 .. 3 |-> i]>>

\* Tables that give neighbouring small permutations different values.
MixedTables ==
  {[l \in Layer |-> [j \in 0 .. subperm_num - 1 |->
      Small[1 + ((j * j + seed * l + (j * seed) \div 3) % 4)]]] : seed \in 1 .. 8}
=============================================================================
