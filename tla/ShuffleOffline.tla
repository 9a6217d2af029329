--------------------------- MODULE ShuffleOffline ---------------------------
(***************************************************************************)
(* The preprocessing of the secret-shared shuffle, Offline of              *)
(* pvfss/src/ss_shuffle.cc, in one of its two symmetric directions: a      *)
(* sender ends with vectors a and b and a receiver with a permutation and  *)
(* a vector delta such that delta[i] = b[i] - a[perm[i]].                  *)
(*                                                                         *)
(* A permutation of N elements is made of d layers, each of N/T            *)
(* permutations of T elements; the layers differ in which elements one     *)
(* small permutation acts on (Index).  ShareTranslation yields a, b and    *)
(* delta of every small permutation, and a telescoping sum joins layers.   *)
(*                                                                         *)
(* PermReconstruct composes the layers from suffix lengths it updates as   *)
(* it goes, SubPermReconstruct and Reallocate compute theirs from the      *)
(* number of the layer: delta is right only if the two agree.              *)
(***************************************************************************)
EXTENDS BlockGroup, Integers

CONSTANTS
  n, t,       \* log2(N) and log2(T)
  PermTables, \* tables perms: perms[layer][j][i] for i < T and j < N / T
  Masks       \* vectors of blocks that ShareTranslation may draw for a layer

N == 2 ^ n
T == 2 ^ t
d == 2 * (n \div t) - 1      \* the quotient is an integer division
subperm_num == N \div T
Idx == 0 .. N - 1
Layer == 0 .. d - 1

ASSUME ShapeAssumption == n \in Nat /\ t \in 1 .. n
\* What the provers do not know of powers.
ASSUME PowerAssumption ==
  /\ \A i \in 0 .. n : 2 ^ i \in Nat \ {0}
  /\ \A i, j \in 0 .. n : 2 ^ (i + j) = 2 ^ i * 2 ^ j
  /\ 2 ^ 0 = 1
ASSUME TableAssumption ==
  /\ \A p \in PermTables, l \in Layer, j \in 0 .. subperm_num - 1, i \in 0 .. T - 1 :
        p[l][j][i] \in 0 .. T - 1
  /\ Masks \subseteq [Idx -> Block]

VARIABLES
  pc,        \* the phase of Offline
  layer,     \* its loop variable
  perms,     \* the receiver's small permutations
  perm,      \* the receiver's permutation, composed so far
  composed,  \* history: composed[l] is perm after l layers
  as, bs,    \* as[l], bs[l]: the sender's vectors of layer l
  deltas,    \* deltas[l]: the receiver's vector of layer l
  subperms,  \* subperms[l]: layer l as a permutation of all elements
  offset,    \* offset[l]: a of layer l + 1 minus b of layer l
  a, b,      \* the sender's results
  delta      \* the receiver's result

vars == <<pc, layer, perms, perm, composed, as, bs, deltas, subperms, offset,
          a, b, delta>>

-----------------------------------------------------------------------------
(* Where layer l puts element i of its small permutation j. *)

half == d \div 2

\* CappedSuffixLen.
Capped(s) == IF s < n - t THEN s ELSE n - t

\* The suffix length that PermReconstruct has reached at layer l.
WalkedSuffix(l) ==
  IF d = 1 THEN 0
  ELSE IF l <= half THEN n - t - l * t
  ELSE Capped(n - t - half * t + (l - half) * t)

\* The suffix length of SubPermReconstruct and Reallocate.
LayerSuffix(l) ==
  IF d = 1 THEN 0
  ELSE IF l < half THEN n - (l + 1) * t
  ELSE IF l = half THEN 0
  ELSE Capped((l - half) * t)

\* Prefix, place and suffix, most significant first; j is prefix and suffix.
Index(s, j, i) == (j \div 2 ^ s) * 2 ^ (t + s) + i * 2 ^ s + (j % 2 ^ s)

\* The small permutation and the place in it that Index sends to position k.
BlockAt(s, k) == (k \div 2 ^ (s + t)) * 2 ^ s + (k % 2 ^ s)
PlaceAt(s, k) == (k \div 2 ^ s) % T

\* SubPerm of every small permutation of layer l: the position each position
\* takes its element from.
LayerMap(s, l) ==
  [k \in Idx |-> Index(s, BlockAt(s, k), perms[l][BlockAt(s, k)][PlaceAt(s, k)])]

-----------------------------------------------------------------------------
\* Variant: gathered in the wrong direction.
SimplePermScattered(q, v) == [k \in Idx |-> v[CHOOSE i \in Idx : q[i] = k]]

\* Position k takes its element from position q[k].
SimplePerm(q, v) == [k \in Idx |-> v[q[k]]]

Zeros == [k \in Idx |-> zero_block]

\* Variant: positions are counted from one.
IdentityFromOne == [k \in Idx |-> k + 1]

Identity == [k \in Idx |-> k]

Init ==
  /\ pc = "permute" /\ layer = 0
  /\ perms \in PermTables
  /\ perm = Identity
  /\ composed = [l \in 0 .. d |-> Identity]
  /\ as = [l \in Layer |-> Zeros]
  /\ bs = [l \in Layer |-> Zeros]
  /\ deltas = [l \in Layer |-> Zeros]
  /\ subperms = [l \in Layer |-> Identity]
  /\ offset = [l \in Layer |-> Zeros]
  /\ a = Zeros /\ b = Zeros /\ delta = Zeros

\* One layer of PermReconstruct.
PermReconstruct ==
  /\ pc = "permute"
  /\ perm' = SimplePerm(LayerMap(WalkedSuffix(layer), layer), perm)
  /\ composed' = [composed EXCEPT ![layer + 1] = perm']
  /\ IF layer + 1 < d THEN layer' = layer + 1 /\ pc' = pc
     ELSE layer' = 0 /\ pc' = "translate"
  /\ UNCHANGED <<perms, as, bs, deltas, subperms, offset, a, b, delta>>

\* The receiver's vector for the sender's u and v; q[j] is small permutation j.
Correlated(q, u, v) ==
  [k \in Idx |-> Sub(v[k], u[(k \div T) * T + q[k \div T][k % T]])]

\* ShareTranslation of the small permutations of one layer: the sender's
\* vectors are random and the receiver's are their difference.
ShareTranslation(u, v) ==
  /\ pc = "translate"
  /\ as' = [as EXCEPT ![layer] = u]
  /\ bs' = [bs EXCEPT ![layer] = v]
  /\ deltas' = [deltas EXCEPT ![layer] = Correlated(perms[layer], u, v)]
  /\ IF layer + 1 < d THEN layer' = layer + 1 /\ pc' = pc
     ELSE layer' = 0 /\ pc' = IF d = 1 THEN "single" ELSE "reallocate"
  /\ UNCHANGED <<perms, perm, composed, subperms, offset, a, b, delta>>

\* Reallocate of a vector: from the order of the small permutations to the
\* positions they act on.
Moved(v, s) == [k \in Idx |-> v[BlockAt(s, k) * T + PlaceAt(s, k)]]

\* Reallocate and SubPermReconstruct of one layer.
Reallocate ==
  /\ pc = "reallocate"
  /\ LET s == LayerSuffix(layer)
     IN  /\ as' = [as EXCEPT ![layer] = Moved(@, s)]
         /\ bs' = [bs EXCEPT ![layer] = Moved(@, s)]
         /\ deltas' = [deltas EXCEPT ![layer] = Moved(@, s)]
         /\ subperms' = [subperms EXCEPT ![layer] = LayerMap(s, layer)]
  /\ IF layer + 1 < d THEN layer' = layer + 1 /\ pc' = pc
     ELSE layer' = 0 /\ pc' = "offset"
  /\ UNCHANGED <<perms, perm, composed, offset, a, b, delta>>

\* The sender computes and sends the offsets, the receiver starts delta.
SendOffset ==
  /\ pc = "offset"
  /\ offset' = [l \in Layer |->
                  IF l + 1 < d THEN [k \in Idx |-> Sub(as[l + 1][k], bs[l][k])]
                  ELSE Zeros]
  /\ delta' = [k \in Idx |-> Add(deltas[0][k], offset'[0][k])]
  /\ layer' = 1
  /\ pc' = "accumulate"
  /\ UNCHANGED <<perms, perm, composed, as, bs, deltas, subperms, a, b>>

\* One turn of the loop that joins the inner layers.
Accumulate ==
  /\ pc = "accumulate"
  /\ layer < d - 1
  /\ delta' = [k \in Idx |-> Add(SimplePerm(subperms[layer], delta)[k],
                                 Add(deltas[layer][k], offset[layer][k]))]
  /\ layer' = layer + 1
  /\ UNCHANGED <<pc, perms, perm, composed, as, bs, deltas, subperms, offset, a, b>>

\* The last layer; the only one of a flat shuffle is the result as it is.
Finish ==
  /\ pc = IF d = 1 THEN "single" ELSE "accumulate"
  /\ layer = d - 1
  /\ a' = as[0]
  /\ b' = bs[d - 1]
  /\ delta' = IF d = 1 THEN deltas[0]
              ELSE [k \in Idx |-> Add(SimplePerm(subperms[d - 1], delta)[k],
                                      deltas[d - 1][k])]
  /\ pc' = "done"
  /\ UNCHANGED <<layer, perms, perm, composed, as, bs, deltas, subperms, offset>>

Next ==
  \/ PermReconstruct
  \/ \E u, v \in Masks : ShareTranslation(u, v)
  \/ Reallocate
  \/ SendOffset
  \/ Accumulate
  \/ Finish

Spec == Init /\ [][Next]_vars

-----------------------------------------------------------------------------
Vector == [Idx -> Block]

TypeOK ==
  /\ pc \in {"permute", "translate", "single", "reallocate", "offset",
             "accumulate", "done"}
  /\ layer \in Layer
  /\ perms \in PermTables
  /\ perm \in [Idx -> Idx]
  /\ composed \in [0 .. d -> [Idx -> Idx]]
  /\ {as, bs, deltas, offset} \subseteq [Layer -> Vector]
  /\ subperms \in [Layer -> [Idx -> Idx]]
  /\ {a, b, delta} \subseteq Vector

\* The correlation the online phase needs: what the receiver subtracts is what
\* the sender adds, moved by the receiver's permutation.
DeltaCorrelates ==
  pc = "done" => \A k \in Idx : delta[k] = Sub(b[k], a[perm[k]])

\* The condition on the shape under which the two ways of computing a suffix
\* length agree.
LayersAgree == \A l \in Layer : WalkedSuffix(l) = LayerSuffix(l)
=============================================================================
