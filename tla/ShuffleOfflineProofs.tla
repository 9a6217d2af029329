------------------------ MODULE ShuffleOfflineProofs ------------------------
(***************************************************************************)
(* Theorems about ShuffleOffline, for any sizes, permutations and masks,   *)
(* over any abelian group of blocks.                                       *)
(*                                                                         *)
(* Index and its inverse are arithmetic of mixed radix; the two ways of    *)
(* computing a suffix length are shown equal when t divides n.  Then the   *)
(* inductive invariant says of every layer what phase its vectors are in,  *)
(* and of delta which layers it has joined: the b of a layer and the a of  *)
(* the next cancel against the offset.                                     *)
(***************************************************************************)
EXTENDS ShuffleOffline, TLAPS

-----------------------------------------------------------------------------
(* Division. *)

\* Quotient and remainder of a number written as a multiple and a rest.
LEMMA DivMod ==
  ASSUME NEW q \in Nat, NEW m \in Nat \ {0}, NEW r \in 0 .. m - 1
  PROVE  (q * m + r) \div m = q /\ (q * m + r) % m = r
BY Z3

\* A division by m and its remainder.
LEMMA Divided ==
  ASSUME NEW k \in Nat, NEW m \in Nat \ {0}
  PROVE  /\ k \div m \in Nat /\ k % m \in 0 .. m - 1
         /\ k = (k \div m) * m + (k % m)
<1>1. k % m \in 0 .. m - 1
  BY Z3
<1>2. k \div m \in Nat
  BY Z3
<1>3. k = (k \div m) * m + (k % m)
  BY Z3
<1> QED
  BY <1>1, <1>2, <1>3

\* The quotient of a number below r m is below r.
LEMMA QuotientBound ==
  ASSUME NEW r \in Nat, NEW m \in Nat \ {0}, NEW k \in 0 .. r * m - 1
  PROVE  k \div m \in 0 .. r - 1
<1>1. k \in Nat
  OBVIOUS
<1>2. k \div m \in Nat /\ k = (k \div m) * m + (k % m) /\ k % m \in 0 .. m - 1
  BY <1>1, Divided
<1> DEFINE q == k \div m
<1>3. q >= r => q * m >= r * m
  BY <1>2, Z3
<1> QED
  BY <1>2, <1>3

\* A place below r and one below m make one below r m.
LEMMA PairBound ==
  ASSUME NEW r \in Nat, NEW m \in Nat \ {0}, NEW u \in 0 .. r - 1, NEW v \in 0 .. m - 1
  PROVE  u * m + v \in 0 .. r * m - 1
<1>1. u + 1 <= r
  OBVIOUS
<1>2. (u + 1) * m <= r * m
  BY <1>1, Z3
<1>3. (u + 1) * m = u * m + m
  BY Z3
<1>4. u * m \in Nat /\ r * m \in Nat
  BY Z3
<1> QED
  BY <1>2, <1>3, <1>4

-----------------------------------------------------------------------------
(* The sizes. *)

\* The blocks divide the vector.
LEMMA Shape ==
  /\ n \in Nat /\ t \in Nat \ {0} /\ n - t \in Nat
  /\ T \in Nat \ {0} /\ N \in Nat \ {0}
  /\ subperm_num \in Nat \ {0} /\ N = subperm_num * T
<1>1. n \in Nat /\ t \in Nat \ {0} /\ n - t \in Nat /\ t \in 0 .. n /\ n - t \in 0 .. n
  BY ShapeAssumption
<1>2. T \in Nat \ {0} /\ N \in Nat \ {0} /\ 2 ^ (n - t) \in Nat \ {0}
  BY <1>1, PowerAssumption DEF T, N
<1>3. N = 2 ^ (n - t) * T
  <2>1. (n - t) + t = n
    BY <1>1
  <2>2. 2 ^ ((n - t) + t) = 2 ^ (n - t) * 2 ^ t
    BY <1>1, PowerAssumption
  <2> QED
    BY <2>1, <2>2 DEF N, T
<1>4. subperm_num = 2 ^ (n - t)
  <2> DEFINE r == 2 ^ (n - t)
  <2>1. r * T + 0 = N /\ r \in Nat /\ 0 \in 0 .. T - 1
    BY <1>2, <1>3
  <2>2. (r * T + 0) \div T = r
    <3> HIDE DEF r
    <3> QED BY <1>2, <2>1, DivMod
  <2> QED
    BY <2>1, <2>2 DEF subperm_num
<1> QED
  BY <1>1, <1>2, <1>3, <1>4

(***************************************************************************)
(* Index, with BlockAt and PlaceAt its inverse.                            *)
(***************************************************************************)
Suffix == 0 .. n - t

\* N as prefix, place and suffix.
LEMMA Widths ==
  ASSUME NEW s \in Suffix
  PROVE  /\ 2 ^ s \in Nat \ {0} /\ 2 ^ (n - t - s) \in Nat \ {0}
         /\ 2 ^ (t + s) = T * 2 ^ s /\ 2 ^ (s + t) = T * 2 ^ s
         /\ subperm_num = 2 ^ (n - t - s) * 2 ^ s
         /\ N = 2 ^ (n - t - s) * (T * 2 ^ s)
         /\ T * 2 ^ s \in Nat \ {0}
<1>1. /\ s \in 0 .. n /\ t \in 0 .. n /\ n - t - s \in 0 .. n
      /\ n - t \in 0 .. n /\ (n - t - s) + s = n - t /\ (n - t) + t = n
  BY ShapeAssumption DEF Suffix
<1>2. 2 ^ s \in Nat \ {0} /\ 2 ^ (n - t - s) \in Nat \ {0} /\ T \in Nat \ {0}
  BY <1>1, PowerAssumption DEF T
<1>3. 2 ^ (t + s) = T * 2 ^ s /\ 2 ^ (s + t) = 2 ^ s * T
  BY <1>1, PowerAssumption DEF T
<1>4. 2 ^ s * T = T * 2 ^ s /\ T * 2 ^ s \in Nat \ {0}
  <2> DEFINE z == 2 ^ s
  <2> HIDE DEF z
  <2>1. z \in Nat \ {0}
    BY <1>2 DEF z
  <2>2. z * T = T * z /\ T * z \in Nat \ {0}
    BY <1>2, <2>1, Z3
  <2> QED
    BY <2>2 DEF z
<1>5. 2 ^ (n - t) = 2 ^ (n - t - s) * 2 ^ s
  BY <1>1, PowerAssumption
<1>6. subperm_num = 2 ^ (n - t)
  <2> DEFINE r == 2 ^ (n - t)
  <2>1. r \in Nat /\ N = r * T /\ T \in Nat \ {0}
    BY <1>1, <1>2, PowerAssumption DEF N, T
  <2>2. (r * T + 0) \div T = r
    <3> HIDE DEF r
    <3> QED BY <2>1, DivMod
  <2>3. r * T + 0 = N
    <3> HIDE DEF r
    <3> QED BY <2>1, Shape
  <2> QED
    BY <2>2, <2>3 DEF subperm_num
<1>7. N = 2 ^ (n - t - s) * (T * 2 ^ s)
  <2>1. N = 2 ^ (n - t) * T
    BY <1>1, PowerAssumption DEF N, T
  <2> DEFINE z == 2 ^ s
             y == 2 ^ (n - t - s)
  <2>2. z \in Nat /\ y \in Nat /\ T \in Nat /\ N = (y * z) * T
    BY <1>2, <1>5, <2>1
  <2>3. N = y * (T * z)
    <3> HIDE DEF z, y
    <3> QED BY <2>2, Z3
  <2> QED
    BY <2>3
<1> QED
  BY <1>2, <1>3, <1>4, <1>5, <1>6, <1>7

\* Index puts the elements of the small permutations at different positions.
LEMMA Placement ==
  ASSUME NEW s \in Suffix, NEW j \in 0 .. subperm_num - 1, NEW i \in 0 .. T - 1
  PROVE  /\ Index(s, j, i) \in Idx
         /\ BlockAt(s, Index(s, j, i)) = j
         /\ PlaceAt(s, Index(s, j, i)) = i
<1> DEFINE S == 2 ^ s
           R == 2 ^ (n - t - s)
           hi == j \div S
           lo == j % S
           low == i * S + lo
           k == hi * (T * S) + low
<1>1. /\ S \in Nat \ {0} /\ R \in Nat /\ T \in Nat \ {0} /\ T * S \in Nat \ {0}
      /\ j \in 0 .. R * S - 1 /\ N = R * (T * S)
      /\ 2 ^ (t + s) = T * S /\ 2 ^ (s + t) = T * S
  BY Widths, Shape
<1> HIDE DEF S, R
<1>2. hi \in 0 .. R - 1
  BY <1>1, QuotientBound
<1>3. hi \in Nat /\ lo \in 0 .. S - 1 /\ j = hi * S + lo
  <2>1. j \in Nat
    BY Shape
  <2> QED
    BY <1>1, <2>1, Divided
<1> HIDE DEF hi, lo
<1>4. low \in 0 .. T * S - 1
  BY <1>1, <1>3, PairBound
<1>5. k \in 0 .. R * (T * S) - 1
  <2> HIDE DEF low
  <2> QED BY <1>1, <1>2, <1>4, PairBound
<1>6. Index(s, j, i) = k
  <2>1. Index(s, j, i) = hi * (T * S) + i * S + lo
    BY <1>1 DEF Index, hi, lo, S
  <2>2. hi * (T * S) \in Nat /\ i * S \in Nat
    BY <1>1, <1>3, Z3
  <2> QED
    BY <1>3, <2>1, <2>2
<1>7. k \div (T * S) = hi
  <2> HIDE DEF low
  <2> QED BY <1>1, <1>3, <1>4, DivMod
<1>8. k = (hi * T + i) * S + lo
  <2>1. hi * (T * S) + i * S = (hi * T + i) * S
    BY <1>1, <1>3, Z3
  <2>2. hi * (T * S) \in Nat /\ i * S \in Nat
    BY <1>1, <1>3, Z3
  <2> QED
    BY <1>3, <2>1, <2>2
<1>9. hi * T + i \in Nat
  <2>1. hi * T \in Nat
    BY <1>1, <1>3, Z3
  <2> QED
    BY <2>1
<1>10. k \div S = hi * T + i /\ k % S = lo
  <2> DEFINE q == hi * T + i
  <2>1. q \in Nat /\ k = q * S + lo
    BY <1>8, <1>9
  <2> HIDE DEF q, k
  <2>2. (q * S + lo) \div S = q /\ (q * S + lo) % S = lo
    BY <1>1, <1>3, <2>1, DivMod
  <2>3. k \div S = q /\ k % S = lo
    BY <2>1, <2>2
  <2> QED
    BY <2>3 DEF q
<1>11. (hi * T + i) % T = i
  BY <1>1, <1>3, DivMod
<1> HIDE DEF k
<1>12. BlockAt(s, k) = j
  <2>1. BlockAt(s, k) = (k \div (T * S)) * S + (k % S)
    BY <1>1 DEF BlockAt, S
  <2> QED
    BY <1>3, <1>7, <1>10, <2>1
<1>13. PlaceAt(s, k) = i
  <2>1. PlaceAt(s, k) = (k \div S) % T
    BY DEF PlaceAt, S
  <2> QED
    BY <1>10, <1>11, <2>1
<1> QED
  BY <1>1, <1>5, <1>6, <1>12, <1>13 DEF Idx

\* Every index has a block and a place in it.
LEMMA Places ==
  ASSUME NEW s \in Suffix, NEW k \in Idx
  PROVE  BlockAt(s, k) \in 0 .. subperm_num - 1 /\ PlaceAt(s, k) \in 0 .. T - 1
<1> DEFINE S == 2 ^ s
           R == 2 ^ (n - t - s)
<1>1. /\ S \in Nat \ {0} /\ R \in Nat /\ T \in Nat \ {0} /\ T * S \in Nat \ {0}
      /\ subperm_num = R * S /\ k \in 0 .. R * (T * S) - 1
      /\ 2 ^ (s + t) = T * S
  BY Widths, Shape DEF Idx
<1> HIDE DEF S, R
<1>2. k \in Nat
  BY Shape DEF Idx
<1>3. k \div (T * S) \in 0 .. R - 1
  BY <1>1, QuotientBound
<1>4. k % S \in 0 .. S - 1 /\ k \div S \in Nat
  BY <1>1, <1>2, Divided
<1>5. (k \div (T * S)) * S + (k % S) \in 0 .. R * S - 1
  BY <1>1, <1>3, <1>4, PairBound
<1>6. (k \div S) % T \in 0 .. T - 1
  BY <1>1, <1>4, Divided
<1> QED
  BY <1>1, <1>5, <1>6 DEF BlockAt, PlaceAt, S

\* The order of the small permutations: block j starts at j T.
LEMMA Slots ==
  ASSUME NEW j \in 0 .. subperm_num - 1, NEW i \in 0 .. T - 1
  PROVE  /\ j * T + i \in Idx
         /\ (j * T + i) \div T = j /\ (j * T + i) % T = i
<1>1. j * T + i \in 0 .. subperm_num * T - 1
  BY Shape, PairBound
<1>2. (j * T + i) \div T = j /\ (j * T + i) % T = i
  BY Shape, DivMod
<1> QED
  BY <1>1, <1>2, Shape DEF Idx

-----------------------------------------------------------------------------
(* The layers. *)

\* The number of layers is odd, and half of them reach the top bits if T divides.
LEMMA Depth ==
  /\ half \in Nat /\ d = 2 * half + 1 /\ d \in Nat \ {0}
  /\ (half + 1) * t <= n /\ half * t \in Nat /\ half * t <= n - t
  /\ n % t = 0 => half * t = n - t
<1> DEFINE q == n \div t
<1>1. n \in Nat /\ t \in Nat \ {0}
  BY Shape
<1>2. q \in Nat /\ n % t \in 0 .. t - 1 /\ n = q * t + (n % t)
  BY <1>1, Divided
<1> HIDE DEF q
<1>3. q # 0
  <2>1. q = 0 => q * t = 0
    BY <1>1, Z3
  <2>2. q = 0 => n < t
    BY <1>1, <1>2, <2>1
  <2> QED
    BY <2>2, Shape
<1>4. d = 2 * (q - 1) + 1
  BY <1>2 DEF d, q
<1>5. half = q - 1
  BY <1>2, <1>3, <1>4, Z3 DEF half
<1>6. (half + 1) * t = half * t + t /\ half * t \in Nat
  BY <1>1, <1>2, <1>3, <1>5, Z3
<1>7. half + 1 = q /\ half \in Nat
  BY <1>2, <1>3, <1>5
<1>8. q * t \in Nat
  BY <1>1, <1>2, Z3
<1> QED
  BY <1>1, <1>2, <1>4, <1>5, <1>6, <1>7, <1>8

\* A layer leaves room for its suffix.
LEMMA SuffixRange ==
  ASSUME NEW l \in Layer
  PROVE  LayerSuffix(l) \in Suffix
<1>1. n \in Nat /\ t \in Nat \ {0} /\ n - t \in Nat /\ l \in Nat
  BY Shape DEF Layer
<1>2. CASE d = 1 \/ l = half
  <2>1. LayerSuffix(l) = 0
    BY <1>2, Depth DEF LayerSuffix
  <2> QED
    BY <1>1, <2>1 DEF Suffix
<1>3. CASE d # 1 /\ l < half
  <2>1. LayerSuffix(l) = n - (l + 1) * t
    BY <1>3 DEF LayerSuffix
  <2>2. (l + 1) * t <= half * t /\ t <= (l + 1) * t /\ (l + 1) * t \in Nat
    BY <1>1, <1>3, Depth, Z3
  <2>3. half * t <= n - t /\ half * t \in Nat
    BY Depth
  <2> QED
    BY <1>1, <2>1, <2>2, <2>3 DEF Suffix
<1>4. CASE d # 1 /\ l > half
  <2>1. LayerSuffix(l) = Capped((l - half) * t)
    BY <1>1, <1>4, Depth DEF LayerSuffix
  <2>2. (l - half) * t \in Nat
    BY <1>1, <1>4, Depth, Z3
  <2> QED
    BY <1>1, <2>1, <2>2 DEF Suffix, Capped
<1> QED
  BY <1>1, <1>2, <1>3, <1>4, Depth

\* The two ways of computing a suffix length agree when log2(T) divides log2(N)
\* and when there is one layer.
LEMMA Agreement ==
  ASSUME n % t = 0 \/ d = 1
  PROVE  LayersAgree
<1> SUFFICES ASSUME NEW l \in Layer PROVE WalkedSuffix(l) = LayerSuffix(l)
  BY DEF LayersAgree
<1>1. n \in Nat /\ t \in Nat \ {0} /\ l \in Nat /\ half \in Nat
  BY Shape, Depth DEF Layer
<1>2. CASE d = 1
  BY <1>2 DEF WalkedSuffix, LayerSuffix
<1>3. CASE d # 1
  <2>1. half * t = n - t
    BY <1>3, Depth
  <2>2. CASE l < half
    <3>1. WalkedSuffix(l) = n - t - l * t
      BY <1>1, <1>3, <2>2 DEF WalkedSuffix
    <3>2. LayerSuffix(l) = n - (l + 1) * t
      BY <1>3, <2>2 DEF LayerSuffix
    <3>3. (l + 1) * t = l * t + t /\ l * t \in Nat
      BY <1>1, Z3
    <3> QED
      BY <1>1, <3>1, <3>2, <3>3
  <2>3. CASE l = half
    <3>1. WalkedSuffix(l) = n - t - half * t
      BY <1>1, <1>3, <2>3 DEF WalkedSuffix
    <3>2. LayerSuffix(l) = 0
      BY <1>1, <1>3, <2>3 DEF LayerSuffix
    <3> QED
      BY <1>1, <2>1, <3>1, <3>2
  <2>4. CASE l > half
    <3>1. WalkedSuffix(l) = Capped(n - t - half * t + (l - half) * t)
      BY <1>1, <1>3, <2>4 DEF WalkedSuffix
    <3>2. LayerSuffix(l) = Capped((l - half) * t)
      BY <1>1, <1>3, <2>4 DEF LayerSuffix
    <3>3. (l - half) * t \in Nat
      BY <1>1, <2>4, Z3
    <3>4. n - t - half * t + (l - half) * t = (l - half) * t
      BY <1>1, <2>1, <3>3
    <3> QED
      BY <3>1, <3>2, <3>4
  <2> QED
    BY <1>1, <2>2, <2>3, <2>4
<1> QED
  BY <1>2, <1>3

-----------------------------------------------------------------------------
(* The group. *)

\* Two differences in a row are the difference of the ends.
LEMMA Telescope ==
  ASSUME NEW u \in Block, NEW v \in Block, NEW w \in Block
  PROVE  Add(Sub(v, u), Sub(w, v)) = Sub(w, u)
<1> DEFINE p == Sub(v, u)
           q == Sub(w, v)
<1>1. p \in Block /\ q \in Block /\ Add(p, u) = v /\ Add(q, v) = w
  BY GroupAssumption
<1> HIDE DEF p, q
<1>2. Add(Add(q, p), u) = w
  <2>1. Add(Add(q, p), u) = Add(q, Add(p, u))
    BY <1>1, GroupAssumption
  <2> QED
    BY <1>1, <2>1
<1>3. Add(q, p) = Sub(w, u)
  <2>1. Add(q, p) \in Block
    BY <1>1, GroupAssumption
  <2>2. Sub(Add(Add(q, p), u), u) = Add(q, p)
    BY <2>1, GroupAssumption
  <2> QED
    BY <1>2, <2>2
<1>4. Add(p, q) = Add(q, p)
  BY <1>1, GroupAssumption
<1> QED
  BY <1>3, <1>4 DEF p, q

\* Sums and differences of blocks are blocks.
LEMMA BlockClosure ==
  ASSUME NEW u \in Block, NEW v \in Block
  PROVE  Add(u, v) \in Block /\ Sub(u, v) \in Block
BY GroupAssumption

-----------------------------------------------------------------------------
(* One layer as a permutation of all positions. *)

Map(l) == LayerMap(LayerSuffix(l), l)

\* The small permutations stay in their block.
LEMMA TablePlaces ==
  ASSUME perms \in PermTables, NEW l \in Layer,
         NEW j \in 0 .. subperm_num - 1, NEW i \in 0 .. T - 1
  PROVE  perms[l][j][i] \in 0 .. T - 1
BY TableAssumption

\* A layer maps indices to indices.
LEMMA MapType ==
  ASSUME perms \in PermTables, NEW l \in Layer, NEW s \in Suffix
  PROVE  LayerMap(s, l) \in [Idx -> Idx]
<1> SUFFICES ASSUME NEW k \in Idx
             PROVE  Index(s, BlockAt(s, k), perms[l][BlockAt(s, k)][PlaceAt(s, k)]) \in Idx
  BY DEF LayerMap
<1>1. BlockAt(s, k) \in 0 .. subperm_num - 1 /\ PlaceAt(s, k) \in 0 .. T - 1
  BY Places
<1>2. perms[l][BlockAt(s, k)][PlaceAt(s, k)] \in 0 .. T - 1
  BY <1>1, TablePlaces
<1> QED
  BY <1>1, <1>2, Placement

\* A layer moves a vector to a vector.
LEMMA MovedType ==
  ASSUME NEW v \in Vector, NEW s \in Suffix
  PROVE  Moved(v, s) \in Vector
BY Places, Slots DEF Moved, Vector

\* Reallocate keeps the correlation, now along the permutation of the layer.
LEMMA CorrelatedMoved ==
  ASSUME perms \in PermTables, NEW l \in Layer, NEW s \in Suffix,
         NEW u \in Vector, NEW v \in Vector, NEW k \in Idx
  PROVE  Moved(Correlated(perms[l], u, v), s)[k]
           = Sub(Moved(v, s)[k], Moved(u, s)[LayerMap(s, l)[k]])
<1> DEFINE j == BlockAt(s, k)
           i == PlaceAt(s, k)
           e == perms[l][j][i]
           m == Index(s, j, e)
<1>1. j \in 0 .. subperm_num - 1 /\ i \in 0 .. T - 1
  BY Places
<1>2. e \in 0 .. T - 1
  BY <1>1, TablePlaces
<1>3. LayerMap(s, l)[k] = m
  BY DEF LayerMap
<1>4. m \in Idx /\ BlockAt(s, m) = j /\ PlaceAt(s, m) = e
  BY <1>1, <1>2, Placement
<1>5. Moved(u, s)[m] = u[j * T + e]
  BY <1>4 DEF Moved
<1>6. Moved(v, s)[k] = v[j * T + i]
  BY DEF Moved
<1>7. Moved(Correlated(perms[l], u, v), s)[k] = Correlated(perms[l], u, v)[j * T + i]
  BY DEF Moved
<1>8. /\ j * T + i \in Idx
      /\ (j * T + i) \div T = j /\ (j * T + i) % T = i
  BY <1>1, Slots
<1>9. Correlated(perms[l], u, v)[j * T + i] = Sub(v[j * T + i], u[j * T + e])
  <2> DEFINE z == j * T + i
  <2>1. z \in Idx /\ z \div T = j /\ z % T = i
    BY <1>8
  <2> HIDE DEF z
  <2>2. Correlated(perms[l], u, v)[z] = Sub(v[z], u[(z \div T) * T + perms[l][z \div T][z % T]])
    BY <2>1 DEF Correlated
  <2>3. (z \div T) * T + perms[l][z \div T][z % T] = j * T + e
    BY <2>1
  <2> QED
    BY <2>2, <2>3 DEF z
<1> QED
  BY <1>3, <1>5, <1>6, <1>7, <1>9

\* The one layer of a flat shuffle is in place already.
LEMMA FlatMoved ==
  ASSUME NEW v \in Vector
  PROVE  0 \in Suffix /\ Moved(v, 0) = v
<1>1. 0 \in Suffix
  BY Shape DEF Suffix
<1>2. ASSUME NEW k \in Idx PROVE BlockAt(0, k) * T + PlaceAt(0, k) = k
  <2>1. k \in Nat /\ T \in Nat \ {0}
    BY Shape DEF Idx
  <2>2. 2 ^ 0 = 1 /\ 2 ^ (0 + t) = T
    BY Shape, PowerAssumption DEF T
  <2>3. BlockAt(0, k) = (k \div T) * 1 + (k % 1)
    BY <2>2 DEF BlockAt
  <2>4. PlaceAt(0, k) = (k \div 1) % T
    BY <2>2 DEF PlaceAt
  <2>5. k % 1 = 0 /\ k \div 1 = k
    BY <2>1, Z3
  <2>6. k \div T \in Nat /\ k = (k \div T) * T + (k % T)
    BY <2>1, Divided
  <2>7. BlockAt(0, k) = k \div T
    BY <2>3, <2>5, <2>6
  <2>8. PlaceAt(0, k) = k % T
    BY <2>4, <2>5
  <2> QED
    BY <2>6, <2>7, <2>8
<1> QED
  BY <1>1, <1>2 DEF Moved, Vector

-----------------------------------------------------------------------------
(* The invariant. *)

\* Layer m has been composed onto the layers before it.
Composed(m) == composed[m + 1] = SimplePerm(Map(m), composed[m])

Composing ==
  /\ composed[0] = Identity
  /\ IF pc = "permute"
     THEN perm = composed[layer] /\ \A m \in Layer : m < layer => Composed(m)
     ELSE perm = composed[d] /\ \A m \in Layer : Composed(m)

\* Layer m holds what ShareTranslation left, or what Reallocate made of it.
Translated(m) == deltas[m] = Correlated(perms[m], as[m], bs[m])
Reallocated(m) ==
  /\ subperms[m] = Map(m)
  /\ \A k \in Idx : deltas[m][k] = Sub(bs[m][k], as[m][Map(m)[k]])

Translating ==
  \A m \in Layer :
     \/ pc = "translate" /\ m < layer
     \/ pc = "single"
     \/ pc = "reallocate" /\ m >= layer
     => Translated(m)

Reallocating ==
  \A m \in Layer :
     \/ pc = "reallocate" /\ m < layer
     \/ pc \in {"offset", "accumulate"}
     => Reallocated(m)

Offsets ==
  pc = "accumulate" =>
     \A l \in Layer, k \in Idx :
        l + 1 < d => offset[l][k] = Sub(as[l + 1][k], bs[l][k])

\* The layers joined so far telescope.
Accumulating ==
  pc = "accumulate" =>
     /\ layer >= 1
     /\ \A k \in Idx : delta[k] = Sub(as[layer][k], as[0][composed[layer][k]])

Depths ==
  /\ pc = "single" => d = 1
  /\ pc \in {"reallocate", "offset", "accumulate"} => d > 1

Inv ==
  /\ TypeOK /\ Composing /\ Translating /\ Reallocating
  /\ Offsets /\ Accumulating /\ Depths /\ DeltaCorrelates

\* The layers are numbered from 0; the last is d - 1.
LEMMA Layers ==
  /\ Layer \subseteq Nat /\ 0 \in Layer /\ d \in Nat \ {0}
  /\ \A l \in Layer : /\ l < d /\ l \in 0 .. d /\ l + 1 \in 0 .. d
                      /\ l + 1 < d => l + 1 \in Layer
                      /\ l + 1 >= d => l = d - 1
BY Depth DEF Layer

\* What the type invariant says of one layer.
LEMMA Typing ==
  ASSUME TypeOK
  PROVE  /\ perms \in PermTables
         /\ \A l \in Layer : as[l] \in Vector /\ bs[l] \in Vector
                             /\ deltas[l] \in Vector /\ offset[l] \in Vector
                             /\ subperms[l] \in [Idx -> Idx]
         /\ \A l \in 0 .. d : composed[l] \in [Idx -> Idx]
BY DEF TypeOK

\* The drawn masks are vectors.
LEMMA MaskType == Masks \subseteq Vector
BY TableAssumption DEF Vector

\* The initial vector and permutation have their types.
LEMMA Starts ==
  /\ Zeros \in Vector /\ Identity \in [Idx -> Idx]
BY GroupAssumption DEF Zeros, Identity, Vector

\* The invariant holds at the start.
LEMMA InitInv == Init => Inv
<1> SUFFICES ASSUME Init PROVE Inv
  OBVIOUS
<1>1. TypeOK
  BY Layers, Starts DEF Init, TypeOK
<1>2. Composing
  <2>1. 0 \in 0 .. d
    BY Layers
  <2>2. composed[0] = Identity /\ perm = composed[0]
    BY <2>1 DEF Init
  <2>3. \A m \in Layer : ~(m < layer)
    BY Layers DEF Init
  <2> QED
    BY <2>2, <2>3 DEF Init, Composing
<1>3. Translating /\ Reallocating /\ Offsets /\ Accumulating /\ Depths /\ DeltaCorrelates
  BY DEF Init, Translating, Reallocating, Offsets, Accumulating, Depths, DeltaCorrelates
<1> QED
  BY <1>1, <1>2, <1>3 DEF Inv

(***************************************************************************)
(* One step lemma for each action.                                         *)
(***************************************************************************)
LEMMA PermReconstructInv ==
  ASSUME Inv, LayersAgree, PermReconstruct
  PROVE  Inv'
<1> DEFINE q == Map(layer)
<1>1. layer \in Layer /\ layer \in 0 .. d /\ layer + 1 \in 0 .. d /\ layer \in Nat
  BY Layers DEF Inv, TypeOK
<1>2. WalkedSuffix(layer) = LayerSuffix(layer)
  BY <1>1 DEF LayersAgree
<1>3. q \in [Idx -> Idx]
  BY <1>1, SuffixRange, MapType DEF Map, Inv, TypeOK
<1>4. perm = composed[layer] /\ perm \in [Idx -> Idx]
  BY DEF Inv, TypeOK, Composing, PermReconstruct
<1>5. perm' = SimplePerm(q, perm)
  BY <1>2 DEF PermReconstruct, Map
<1>6. perm' \in [Idx -> Idx]
  BY <1>3, <1>4, <1>5 DEF SimplePerm
<1>7. composed' = [composed EXCEPT ![layer + 1] = perm']
  BY DEF PermReconstruct
<1>8. UNCHANGED <<perms, as, bs, deltas, subperms, offset, a, b, delta>>
  BY DEF PermReconstruct
<1>9. composed' \in [0 .. d -> [Idx -> Idx]]
  BY <1>6, <1>7 DEF Inv, TypeOK
<1>10. layer' \in Layer /\ pc' \in {"permute", "translate"}
  BY <1>1, Layers DEF PermReconstruct
<1>11. TypeOK'
  BY <1>6, <1>8, <1>9, <1>10 DEF Inv, TypeOK
<1>12. Composing'
  <2>1. DOMAIN composed = 0 .. d
    BY DEF Inv, TypeOK
  <2>2. composed'[layer + 1] = perm'
    BY <1>1, <1>7, <2>1
  <2>3. \A m \in 0 .. d : m # layer + 1 => composed'[m] = composed[m]
    BY <1>7, <2>1
  <2>4. composed'[0] = Identity
    BY <1>1, <2>3, Layers DEF Inv, Composing
  <2>5. \A m \in Layer : m < layer => Composed(m)
    BY DEF Inv, Composing, PermReconstruct
  <2>6. \A m \in Layer : m < layer + 1 => Composed(m)'
    <3> SUFFICES ASSUME NEW m \in Layer, m < layer + 1
                 PROVE  composed'[m + 1] = SimplePerm(Map(m), composed'[m])
      BY <1>8 DEF Composed, Map, LayerMap, SimplePerm
    <3>1. m \in Nat /\ m \in 0 .. d /\ m + 1 \in 0 .. d
      BY Layers
    <3>2. composed'[m] = composed[m]
      BY <1>1, <2>3, <3>1
    <3>3. CASE m = layer
      BY <1>4, <1>5, <2>2, <3>2, <3>3
    <3>4. CASE m < layer
      <4>1. composed'[m + 1] = composed[m + 1]
        BY <1>1, <2>3, <3>1, <3>4
      <4>2. Composed(m)
        BY <2>5, <3>4
      <4> QED
        BY <3>2, <4>1, <4>2 DEF Composed
    <3> QED
      BY <1>1, <3>1, <3>3, <3>4
  <2>7. CASE layer + 1 < d
    <3>1. layer' = layer + 1 /\ pc' = "permute"
      BY <2>7 DEF PermReconstruct
    <3>2. perm' = composed'[layer']
      BY <2>2, <3>1
    <3>3. \A m \in Layer : m < layer' => Composed(m)'
      BY <2>6, <3>1
    <3> QED
      BY <2>4, <3>1, <3>2, <3>3 DEF Composing
  <2>8. CASE ~(layer + 1 < d)
    <3>1. layer + 1 = d /\ pc' = "translate"
      BY <1>1, <2>8, Layers DEF PermReconstruct
    <3>2. \A m \in Layer : Composed(m)'
      BY <2>6, <3>1, Layers
    <3>3. perm' = composed'[d]
      BY <2>2, <3>1
    <3> QED
      BY <2>4, <3>1, <3>2, <3>3 DEF Composing
  <2> QED
    BY <2>7, <2>8
<1>13. (Translating /\ Reallocating /\ Offsets /\ Accumulating /\ Depths /\ DeltaCorrelates)'
  <2>1. pc' = "permute" \/ (pc' = "translate" /\ layer' = 0)
    BY DEF PermReconstruct
  <2>2. \A m \in Layer : ~(m < 0)
    BY Layers
  <2> QED
    BY <2>1, <2>2 DEF Translating, Reallocating, Offsets, Accumulating, Depths, DeltaCorrelates
<1> QED
  BY <1>11, <1>12, <1>13 DEF Inv

\* What an action that leaves the permutation alone keeps of it.
LEMMA ComposingStays ==
  ASSUME Composing, pc # "permute", pc' # "permute",
         UNCHANGED <<perms, perm, composed>>
  PROVE  Composing'
BY DEF Composing, Composed, Map, LayerMap, SimplePerm

\* The share translation of a layer keeps the invariant.
LEMMA ShareTranslationInv ==
  ASSUME Inv, NEW u \in Masks, NEW v \in Masks, ShareTranslation(u, v)
  PROVE  Inv'
<1>1. layer \in Layer /\ layer \in Nat
  BY Layers DEF Inv, TypeOK
<1>2. u \in Vector /\ v \in Vector /\ perms \in PermTables
  BY MaskType DEF Inv, TypeOK
<1>3. Correlated(perms[layer], u, v) \in Vector
  <2> SUFFICES ASSUME NEW k \in Idx
               PROVE  Sub(v[k], u[(k \div T) * T + perms[layer][k \div T][k % T]]) \in Block
    BY DEF Correlated, Vector
  <2>1. k \div T \in 0 .. subperm_num - 1 /\ k % T \in 0 .. T - 1
    <3>1. k \in Nat /\ k \in 0 .. subperm_num * T - 1
      BY Shape DEF Idx
    <3>2. T \in Nat \ {0} /\ subperm_num \in Nat
      BY Shape
    <3>3. k % T \in 0 .. T - 1
      BY <3>1, <3>2, Divided
    <3> QED
      BY <3>1, <3>2, <3>3, QuotientBound
  <2>2. perms[layer][k \div T][k % T] \in 0 .. T - 1
    BY <1>1, <1>2, <2>1, TablePlaces
  <2>3. (k \div T) * T + perms[layer][k \div T][k % T] \in Idx
    BY <2>1, <2>2, Slots
  <2> QED
    BY <1>2, <2>3, BlockClosure DEF Vector
<1>4. /\ as' = [as EXCEPT ![layer] = u]
      /\ bs' = [bs EXCEPT ![layer] = v]
      /\ deltas' = [deltas EXCEPT ![layer] = Correlated(perms[layer], u, v)]
      /\ UNCHANGED <<perms, perm, composed, subperms, offset, a, b, delta>>
  BY DEF ShareTranslation
<1>5. layer' \in Layer /\ pc' \in {"translate", "single", "reallocate"}
  BY <1>1, Layers DEF ShareTranslation
<1>6. TypeOK'
  <2> DEFINE c == Correlated(perms[layer], u, v)
  <2>1. /\ {as, bs, deltas, offset} \subseteq [Layer -> Vector]
        /\ {a, b, delta} \subseteq Vector
        /\ perms \in PermTables /\ perm \in [Idx -> Idx]
        /\ composed \in [0 .. d -> [Idx -> Idx]] /\ subperms \in [Layer -> [Idx -> Idx]]
    BY DEF Inv, TypeOK
  <2>2. as' \in [Layer -> Vector] /\ bs' \in [Layer -> Vector]
    BY <1>2, <1>4, <2>1
  <2>3. deltas' \in [Layer -> Vector]
    <3>1. c \in Vector /\ deltas' = [deltas EXCEPT ![layer] = c] /\ deltas \in [Layer -> Vector]
      BY <1>3, <1>4, <2>1
    <3> QED
      <4> HIDE DEF c
      <4> QED BY <3>1
  <2>4. {as', bs', deltas', offset'} \subseteq [Layer -> Vector]
    BY <1>4, <2>1, <2>2, <2>3
  <2>5. {a', b', delta'} \subseteq Vector
    BY <1>4, <2>1
  <2> QED
    BY <1>4, <1>5, <2>1, <2>4, <2>5 DEF TypeOK
<1>7. Composing'
  BY <1>4, <1>5, ComposingStays DEF Inv, ShareTranslation
<1>8. \A m \in Layer : m < layer + 1 => Translated(m)'
  <2> SUFFICES ASSUME NEW m \in Layer, m < layer + 1
               PROVE  deltas'[m] = Correlated(perms[m], as'[m], bs'[m])
    <3>1. perms' = perms
      BY <1>4
    <3> QED
      BY <3>1, Zenon DEF Translated
  <2>1. DOMAIN as = Layer /\ DOMAIN bs = Layer /\ DOMAIN deltas = Layer
    BY DEF Inv, TypeOK
  <2>2. CASE m = layer
    BY <1>1, <1>4, <2>1, <2>2
  <2>3. CASE m < layer
    <3>1. Translated(m)
      BY <2>3 DEF Inv, Translating, ShareTranslation
    <3>2. as'[m] = as[m] /\ bs'[m] = bs[m] /\ deltas'[m] = deltas[m]
      <4>1. m # layer
        BY <1>1, <2>3
      <4> QED
        BY <1>4, <2>1, <4>1
    <3> QED
      BY <3>1, <3>2 DEF Translated
  <2>4. m \in Nat
    BY Layers
  <2> QED
    BY <1>1, <2>2, <2>3, <2>4
<1>9. (Translating /\ Reallocating /\ Offsets /\ Accumulating /\ Depths /\ DeltaCorrelates)'
  <2>1. CASE layer + 1 < d
    <3>1. pc' = "translate" /\ layer' = layer + 1
      BY <2>1 DEF ShareTranslation
    <3> QED
      BY <1>8, <3>1 DEF Translating, Reallocating, Offsets, Accumulating, Depths, DeltaCorrelates
  <2>2. CASE ~(layer + 1 < d)
    <3>1. layer' = 0 /\ pc' = IF d = 1 THEN "single" ELSE "reallocate"
      BY <2>2 DEF ShareTranslation
    <3>2. \A m \in Layer : Translated(m)' /\ ~(m < 0)
      BY <1>1, <1>8, <2>2, Layers
    <3>3. d # 1 => d > 1
      BY Layers
    <3> QED
      BY <3>1, <3>2, <3>3 DEF Translating, Reallocating, Offsets, Accumulating, Depths, DeltaCorrelates
  <2> QED
    BY <2>1, <2>2
<1> QED
  BY <1>6, <1>7, <1>9 DEF Inv

\* So does the end of a shuffle of one layer,
LEMMA FinishSingleInv ==
  ASSUME Inv, Finish, d = 1
  PROVE  Inv'
<1>1. d = 1 /\ 0 \in Layer
  BY Layers DEF Inv, Depths, Finish
<1>2. Translated(0)
  BY <1>1 DEF Inv, Translating, Finish
<1>3. as[0] \in Vector /\ bs[0] \in Vector /\ deltas[0] \in Vector /\ perms \in PermTables
  BY <1>1, Typing DEF Inv
<1>4. a' = as[0] /\ b' = bs[0] /\ delta' = deltas[0] /\ pc' = "done"
  BY DEF Finish
<1>5. UNCHANGED <<layer, perms, perm, composed, as, bs, deltas, subperms, offset>>
  BY DEF Finish
<1>6. TypeOK'
  BY <1>3, <1>4, <1>5 DEF Inv, TypeOK
<1>7. Composing'
  BY <1>4, <1>5, ComposingStays DEF Inv, Finish
<1>8. LayerSuffix(0) = 0
  BY <1>1 DEF LayerSuffix
<1>9. Map(0) \in [Idx -> Idx]
  BY <1>1, <1>3, <1>8, FlatMoved, MapType DEF Map
<1>10. perm = Map(0)
  <2>1. perm = composed[1] /\ composed[1] = SimplePerm(Map(0), composed[0]) /\ composed[0] = Identity
    BY <1>1 DEF Inv, Composing, Composed, Finish
  <2> QED
    BY <1>9, <2>1 DEF SimplePerm, Identity
<1>11. \A k \in Idx : deltas[0][k] = Sub(bs[0][k], as[0][perm[k]])
  <2> TAKE k \in Idx
  <2>1. 0 \in Suffix /\ Moved(as[0], 0) = as[0] /\ Moved(bs[0], 0) = bs[0]
        /\ Moved(deltas[0], 0) = deltas[0]
    BY <1>3, FlatMoved
  <2>2. Moved(Correlated(perms[0], as[0], bs[0]), 0)[k]
          = Sub(Moved(bs[0], 0)[k], Moved(as[0], 0)[LayerMap(0, 0)[k]])
    BY <1>1, <1>3, <2>1, CorrelatedMoved
  <2>3. LayerMap(0, 0) = perm
    BY <1>8, <1>10 DEF Map
  <2> QED
    BY <1>2, <2>1, <2>2, <2>3 DEF Translated
<1>12. DeltaCorrelates'
  BY <1>4, <1>5, <1>11 DEF DeltaCorrelates
<1>13. (Translating /\ Reallocating /\ Offsets /\ Accumulating /\ Depths)'
  BY <1>4 DEF Translating, Reallocating, Offsets, Accumulating, Depths
<1> QED
  BY <1>6, <1>7, <1>12, <1>13 DEF Inv

\* the renumbering between two layers,
LEMMA ReallocateInv ==
  ASSUME Inv, Reallocate
  PROVE  Inv'
<1> DEFINE s == LayerSuffix(layer)
<1>1. layer \in Layer /\ layer \in Nat /\ perms \in PermTables
  BY Layers DEF Inv, TypeOK
<1>2. s \in Suffix
  BY <1>1, SuffixRange
<1>3. as[layer] \in Vector /\ bs[layer] \in Vector /\ deltas[layer] \in Vector
  BY <1>1, Typing DEF Inv
<1>4. /\ as' = [as EXCEPT ![layer] = Moved(as[layer], s)]
      /\ bs' = [bs EXCEPT ![layer] = Moved(bs[layer], s)]
      /\ deltas' = [deltas EXCEPT ![layer] = Moved(deltas[layer], s)]
      /\ subperms' = [subperms EXCEPT ![layer] = LayerMap(s, layer)]
      /\ UNCHANGED <<perms, perm, composed, offset, a, b, delta>>
  BY DEF Reallocate
<1>5. LayerMap(s, layer) \in [Idx -> Idx]
  BY <1>1, <1>2, MapType
<1>6. Moved(as[layer], s) \in Vector /\ Moved(bs[layer], s) \in Vector
      /\ Moved(deltas[layer], s) \in Vector
  BY <1>2, <1>3, MovedType
<1>7. layer' \in Layer /\ pc' \in {"reallocate", "offset"}
  BY <1>1, Layers DEF Reallocate
<1>8. TypeOK'
  <2> HIDE DEF s
  <2>1. {as, bs, deltas, offset}' \subseteq [Layer -> Vector]
    <3>1. {as, bs, deltas, offset} \subseteq [Layer -> Vector]
      BY DEF Inv, TypeOK
    <3>2. as' \in [Layer -> Vector] /\ bs' \in [Layer -> Vector]
      BY <1>4, <1>6, <3>1
    <3>3. deltas' \in [Layer -> Vector] /\ offset' \in [Layer -> Vector]
      BY <1>4, <1>6, <3>1
    <3> QED
      BY <3>2, <3>3
  <2>2. subperms' \in [Layer -> [Idx -> Idx]]
    BY <1>4, <1>5 DEF Inv, TypeOK
  <2>3. /\ perms' \in PermTables /\ perm' \in [Idx -> Idx]
        /\ composed' \in [0 .. d -> [Idx -> Idx]] /\ {a, b, delta}' \subseteq Vector
    BY <1>4 DEF Inv, TypeOK
  <2> QED
    BY <1>7, <2>1, <2>2, <2>3 DEF TypeOK
<1>9. Composing'
  BY <1>4, <1>7, ComposingStays DEF Inv, Reallocate
<1>10. DOMAIN as = Layer /\ DOMAIN bs = Layer /\ DOMAIN deltas = Layer /\ DOMAIN subperms = Layer
  BY DEF Inv, TypeOK
<1>11. \A m \in Layer : m < layer + 1 => Reallocated(m)'
  <2> SUFFICES ASSUME NEW m \in Layer, m < layer + 1
               PROVE  /\ subperms'[m] = Map(m)
                      /\ \A k \in Idx : deltas'[m][k] = Sub(bs'[m][k], as'[m][Map(m)[k]])
    BY <1>4 DEF Reallocated, Map, LayerMap
  <2>1. CASE m = layer
    <3>1. subperms'[m] = Map(m)
      BY <1>4, <1>10, <2>1 DEF Map
    <3>2. /\ as'[m] = Moved(as[m], s) /\ bs'[m] = Moved(bs[m], s)
          /\ deltas'[m] = Moved(deltas[m], s)
      BY <1>4, <1>10, <2>1
    <3>3. deltas[m] = Correlated(perms[m], as[m], bs[m])
      <4>1. layer >= layer /\ pc = "reallocate"
        BY <1>1 DEF Reallocate
      <4>2. Translated(m)
        BY <1>1, <2>1, <4>1 DEF Inv, Translating
      <4> QED
        BY <4>2 DEF Translated
    <3>4. \A k \in Idx : Moved(deltas[m], s)[k]
                           = Sub(Moved(bs[m], s)[k], Moved(as[m], s)[Map(m)[k]])
      <4> HIDE DEF s
      <4> TAKE k \in Idx
      <4>1. Moved(Correlated(perms[m], as[m], bs[m]), s)[k]
              = Sub(Moved(bs[m], s)[k], Moved(as[m], s)[LayerMap(s, m)[k]])
        BY <1>1, <1>2, <1>3, <2>1, CorrelatedMoved
      <4>2. LayerMap(s, m) = Map(m)
        BY <2>1 DEF Map, s
      <4> QED
        BY <3>3, <4>1, <4>2
    <3> QED
      BY <3>1, <3>2, <3>4
  <2>2. CASE m < layer
    <3>1. Reallocated(m)
      BY <2>2 DEF Inv, Reallocating, Reallocate
    <3>2. as'[m] = as[m] /\ bs'[m] = bs[m] /\ deltas'[m] = deltas[m] /\ subperms'[m] = subperms[m]
      <4>1. m # layer
        BY <1>1, <2>2
      <4> QED
        BY <1>4, <1>10, <4>1
    <3> QED
      BY <3>1, <3>2 DEF Reallocated
  <2>3. m \in Nat
    BY Layers
  <2> QED
    BY <1>1, <2>1, <2>2, <2>3
<1>12. \A m \in Layer : m > layer => Translated(m)'
  <2> SUFFICES ASSUME NEW m \in Layer, m > layer
               PROVE  deltas'[m] = Correlated(perms[m], as'[m], bs'[m])
    <3>1. perms' = perms
      BY <1>4
    <3> QED
      BY <3>1, Zenon DEF Translated
  <2>1. m \in Nat /\ m >= layer
    BY <1>1, Layers
  <2>2. Translated(m)
    BY <2>1 DEF Inv, Translating, Reallocate
  <2>3. as'[m] = as[m] /\ bs'[m] = bs[m] /\ deltas'[m] = deltas[m]
    <3>1. m # layer
      BY <1>1, <2>1
    <3> QED
      BY <1>4, <1>10, <3>1
  <2> QED
    BY <2>2, <2>3 DEF Translated
<1>13. d > 1
  BY DEF Inv, Depths, Reallocate
<1>14. (Translating /\ Reallocating /\ Offsets /\ Accumulating /\ Depths /\ DeltaCorrelates)'
  <2>1. CASE layer + 1 < d
    <3>1. pc' = "reallocate" /\ layer' = layer + 1
      BY <2>1 DEF Reallocate
    <3>2. \A m \in Layer : m >= layer + 1 => m > layer
      BY <1>1, Layers
    <3> QED
      BY <1>11, <1>12, <1>13, <3>1, <3>2
      DEF Translating, Reallocating, Offsets, Accumulating, Depths, DeltaCorrelates
  <2>2. CASE ~(layer + 1 < d)
    <3>1. pc' = "offset"
      BY <2>2 DEF Reallocate
    <3>2. \A m \in Layer : Reallocated(m)'
      BY <1>1, <1>11, <2>2, Layers
    <3> QED
      BY <1>13, <3>1, <3>2
      DEF Translating, Reallocating, Offsets, Accumulating, Depths, DeltaCorrelates
  <2> QED
    BY <2>1, <2>2
<1> QED
  BY <1>8, <1>9, <1>14 DEF Inv

\* What an action keeps of the layers when it leaves them alone.
LEMMA ReallocatingStays ==
  ASSUME Reallocating, pc \in {"offset", "accumulate"},
         UNCHANGED <<perms, as, bs, deltas, subperms>>
  PROVE  Reallocating'
BY DEF Reallocating, Reallocated, Map, LayerMap

\* the offsets that are sent,
LEMMA SendOffsetInv ==
  ASSUME Inv, SendOffset
  PROVE  Inv'
<1>1. d > 1 /\ 0 \in Layer /\ 1 \in Layer /\ 0 + 1 < d /\ 0 \in 0 .. d /\ 1 \in 0 .. d
  BY Layers DEF Inv, Depths, SendOffset, Layer
<1>2. /\ offset' = [l \in Layer |->
                      IF l + 1 < d THEN [k \in Idx |-> Sub(as[l + 1][k], bs[l][k])]
                      ELSE Zeros]
      /\ delta' = [k \in Idx |-> Add(deltas[0][k], offset'[0][k])]
      /\ layer' = 1 /\ pc' = "accumulate"
      /\ UNCHANGED <<perms, perm, composed, as, bs, deltas, subperms, a, b>>
  BY DEF SendOffset
<1>3. offset' \in [Layer -> Vector]
  <2> SUFFICES ASSUME NEW l \in Layer, l + 1 < d
               PROVE  [k \in Idx |-> Sub(as[l + 1][k], bs[l][k])] \in Vector
    BY <1>2, Starts
  <2>1. as[l + 1] \in Vector /\ bs[l] \in Vector
    BY Layers, Typing DEF Inv
  <2> QED
    BY <2>1, BlockClosure DEF Vector
<1>4. delta' \in Vector
  <2>1. deltas[0] \in Vector /\ offset'[0] \in Vector
    BY <1>1, <1>3, Typing DEF Inv
  <2> QED
    BY <1>2, <2>1, BlockClosure DEF Vector
<1>5. TypeOK'
  BY <1>1, <1>2, <1>3, <1>4 DEF Inv, TypeOK
<1>6. Composing'
  BY <1>2, ComposingStays DEF Inv, SendOffset
<1>7. Reallocating'
  BY <1>2, ReallocatingStays DEF Inv, SendOffset
<1>8. Offsets'
  <2> SUFFICES ASSUME NEW l \in Layer, NEW k \in Idx, l + 1 < d
               PROVE  offset'[l][k] = Sub(as'[l + 1][k], bs'[l][k])
    BY DEF Offsets
  <2> QED
    BY <1>2
<1>9. Accumulating'
  <2> SUFFICES ASSUME NEW k \in Idx
               PROVE  delta'[k] = Sub(as[1][k], as[0][composed[1][k]])
    <3>1. layer' = 1 /\ as' = as /\ composed' = composed /\ 1 >= 1
      BY <1>2
    <3> QED
      BY <3>1, Zenon DEF Accumulating
  <2>1. Reallocated(0) /\ Composed(0) /\ composed[0] = Identity
    BY <1>1 DEF Inv, Reallocating, Composing, SendOffset
  <2>2. Map(0) \in [Idx -> Idx]
    BY <1>1, SuffixRange, MapType DEF Map, Inv, TypeOK
  <2>3. composed[1][k] = Map(0)[k]
    BY <2>1, <2>2 DEF Composed, SimplePerm, Identity
  <2>4. deltas[0][k] = Sub(bs[0][k], as[0][Map(0)[k]])
    BY <2>1 DEF Reallocated
  <2>5. offset'[0][k] = Sub(as[1][k], bs[0][k])
    BY <1>1, <1>2
  <2>6. as[1][k] \in Block /\ bs[0][k] \in Block /\ as[0][Map(0)[k]] \in Block
    BY <1>1, <2>2, Typing DEF Inv, Vector
  <2>7. delta'[k] = Add(deltas[0][k], offset'[0][k])
    BY <1>2
  <2>8. Add(Sub(bs[0][k], as[0][Map(0)[k]]), Sub(as[1][k], bs[0][k]))
          = Sub(as[1][k], as[0][Map(0)[k]])
    BY <2>6, Telescope
  <2> QED
    BY <2>3, <2>4, <2>5, <2>7, <2>8
<1>10. (Translating /\ Depths /\ DeltaCorrelates)'
  BY <1>1, <1>2 DEF Translating, Depths, DeltaCorrelates
<1> QED
  BY <1>5, <1>6, <1>7, <1>8, <1>9, <1>10 DEF Inv

\* The turn of the loop: what is accumulated is permuted by the layer, and the
\* layer's own vectors cancel.
LEMMA AccumulateInv ==
  ASSUME Inv, Accumulate
  PROVE  Inv'
<1> DEFINE q == Map(layer)
<1>1. /\ layer \in Layer /\ layer \in Nat /\ layer + 1 \in Layer /\ layer + 1 < d
      /\ 0 \in Layer /\ layer \in 0 .. d /\ layer + 1 \in 0 .. d /\ layer >= 1
  BY Layers DEF Inv, TypeOK, Accumulate, Accumulating
<1>2. /\ delta' = [k \in Idx |-> Add(SimplePerm(subperms[layer], delta)[k],
                                     Add(deltas[layer][k], offset[layer][k]))]
      /\ layer' = layer + 1
      /\ UNCHANGED <<pc, perms, perm, composed, as, bs, deltas, subperms, offset, a, b>>
      /\ pc = "accumulate"
  BY DEF Accumulate
<1>3. Reallocated(layer) /\ Composed(layer)
  BY <1>1, <1>2 DEF Inv, Reallocating, Composing
<1>4. q \in [Idx -> Idx]
  BY <1>1, SuffixRange, MapType DEF Map, Inv, TypeOK
<1>5. ASSUME NEW k \in Idx
      PROVE  delta'[k] = Sub(as[layer + 1][k], as[0][composed[layer + 1][k]])
  <2>1. q[k] \in Idx /\ composed[layer][q[k]] \in Idx
    BY <1>1, <1>4, Typing DEF Inv
  <2> DEFINE start == as[0][composed[layer][q[k]]]
             before == as[layer][q[k]]
             masked == bs[layer][k]
             after == as[layer + 1][k]
  <2>2. start \in Block /\ before \in Block /\ masked \in Block /\ after \in Block
    BY <1>1, <2>1, Typing DEF Inv, Vector
  <2>3. SimplePerm(subperms[layer], delta)[k] = Sub(before, start)
    <3>1. subperms[layer] = q
      BY <1>3 DEF Reallocated
    <3>2. delta[q[k]] = Sub(before, start)
      BY <1>2, <2>1 DEF Inv, Accumulating
    <3> QED
      BY <3>1, <3>2 DEF SimplePerm
  <2>4. deltas[layer][k] = Sub(masked, before)
    BY <1>3 DEF Reallocated
  <2>5. offset[layer][k] = Sub(after, masked)
    BY <1>1, <1>2 DEF Inv, Offsets
  <2>6. composed[layer + 1][k] = composed[layer][q[k]]
    BY <1>3 DEF Composed, SimplePerm
  <2>7. Add(Sub(masked, before), Sub(after, masked)) = Sub(after, before)
    <3> HIDE DEF before, masked, after
    <3> QED BY <2>2, Telescope
  <2>8. Add(Sub(before, start), Sub(after, before)) = Sub(after, start)
    <3> HIDE DEF before, start, after
    <3> QED BY <2>2, Telescope
  <2>9. delta'[k] = Add(SimplePerm(subperms[layer], delta)[k],
                        Add(deltas[layer][k], offset[layer][k]))
    BY <1>2
  <2> QED
    BY <2>3, <2>4, <2>5, <2>6, <2>7, <2>8, <2>9
<1>6. delta' \in Vector
  <2>1. \A k \in Idx : delta'[k] \in Block
    <3> TAKE k \in Idx
    <3>1. composed[layer + 1][k] \in Idx
      BY <1>1, Typing DEF Inv
    <3>2. as[layer + 1][k] \in Block /\ as[0][composed[layer + 1][k]] \in Block
      BY <1>1, <3>1, Typing DEF Inv, Vector
    <3> QED
      BY <1>5, <3>2, BlockClosure
  <2>2. delta' = [k \in Idx |-> delta'[k]]
    BY <1>2
  <2> QED
    BY <2>1, <2>2 DEF Vector
<1>7. TypeOK'
  BY <1>1, <1>2, <1>6 DEF Inv, TypeOK
<1>8. Composing'
  BY <1>2, ComposingStays DEF Inv
<1>9. Reallocating'
  BY <1>2, ReallocatingStays DEF Inv
<1>10. Offsets'
  BY <1>2 DEF Inv, Offsets
<1>11. Accumulating'
  <2>1. layer' = layer + 1 /\ as' = as /\ composed' = composed /\ layer + 1 >= 1
    BY <1>1, <1>2
  <2> QED
    BY <1>5, <2>1, Zenon DEF Accumulating
<1>12. (Translating /\ Depths /\ DeltaCorrelates)'
  BY <1>2 DEF Inv, Translating, Depths, DeltaCorrelates
<1> QED
  BY <1>7, <1>8, <1>9, <1>10, <1>11, <1>12 DEF Inv

\* the end of a shuffle of several layers,
LEMMA FinishLayersInv ==
  ASSUME Inv, Finish, d # 1
  PROVE  Inv'
<1> DEFINE q == Map(layer)
<1>1. /\ layer \in Layer /\ layer \in Nat /\ layer + 1 = d /\ layer = d - 1
      /\ 0 \in Layer /\ layer \in 0 .. d /\ layer + 1 \in 0 .. d
  BY Layers DEF Inv, TypeOK, Finish
<1>2. /\ a' = as[0] /\ b' = bs[layer]
      /\ delta' = [k \in Idx |-> Add(SimplePerm(subperms[layer], delta)[k], deltas[layer][k])]
      /\ pc = "accumulate" /\ pc' = "done"
      /\ UNCHANGED <<layer, perms, perm, composed, as, bs, deltas, subperms, offset>>
  BY <1>1 DEF Finish
<1>3. Reallocated(layer) /\ Composed(layer) /\ perm = composed[layer + 1]
  BY <1>1, <1>2 DEF Inv, Reallocating, Composing
<1>4. q \in [Idx -> Idx]
  BY <1>1, SuffixRange, MapType DEF Map, Inv, TypeOK
<1>5. ASSUME NEW k \in Idx
      PROVE  delta'[k] = Sub(b'[k], a'[perm[k]])
  <2>1. q[k] \in Idx /\ composed[layer][q[k]] \in Idx
    BY <1>1, <1>4, Typing DEF Inv
  <2> DEFINE start == as[0][composed[layer][q[k]]]
             before == as[layer][q[k]]
             masked == bs[layer][k]
  <2>2. start \in Block /\ before \in Block /\ masked \in Block
    BY <1>1, <2>1, Typing DEF Inv, Vector
  <2>3. SimplePerm(subperms[layer], delta)[k] = Sub(before, start)
    <3>1. subperms[layer] = q
      BY <1>3 DEF Reallocated
    <3>2. delta[q[k]] = Sub(before, start)
      BY <1>2, <2>1 DEF Inv, Accumulating
    <3> QED
      BY <3>1, <3>2 DEF SimplePerm
  <2>4. deltas[layer][k] = Sub(masked, before)
    BY <1>3 DEF Reallocated
  <2>5. perm[k] = composed[layer][q[k]]
    BY <1>3 DEF Composed, SimplePerm
  <2>6. Add(Sub(before, start), Sub(masked, before)) = Sub(masked, start)
    <3> HIDE DEF before, start, masked
    <3> QED BY <2>2, Telescope
  <2>7. delta'[k] = Add(SimplePerm(subperms[layer], delta)[k], deltas[layer][k])
    BY <1>2
  <2> QED
    BY <1>2, <2>3, <2>4, <2>5, <2>6, <2>7
<1>6. a' \in Vector /\ b' \in Vector
  BY <1>1, <1>2, Typing DEF Inv
<1>7. delta' \in Vector
  <2>1. \A k \in Idx : delta'[k] \in Block
    BY <1>5, <1>6, BlockClosure DEF Inv, TypeOK, Vector
  <2>2. delta' = [k \in Idx |-> delta'[k]]
    BY <1>2
  <2> QED
    BY <2>1, <2>2 DEF Vector
<1>8. TypeOK'
  BY <1>1, <1>2, <1>6, <1>7 DEF Inv, TypeOK
<1>9. Composing'
  BY <1>2, ComposingStays DEF Inv
<1>10. DeltaCorrelates'
  BY <1>2, <1>5 DEF DeltaCorrelates
<1>11. (Translating /\ Reallocating /\ Offsets /\ Accumulating /\ Depths)'
  BY <1>2 DEF Translating, Reallocating, Offsets, Accumulating, Depths
<1> QED
  BY <1>8, <1>9, <1>10, <1>11 DEF Inv

\* and a stuttering step.
LEMMA StutterInv ==
  ASSUME Inv, UNCHANGED vars
  PROVE  Inv'
<1>1. UNCHANGED <<pc, layer, perms, perm, composed, as, bs, deltas, subperms, offset,
                  a, b, delta>>
  BY DEF vars
<1>2. TypeOK'
  BY <1>1 DEF Inv, TypeOK
<1>3. Composing' /\ Reallocating'
  <2>1. Composing'
    BY <1>1 DEF Inv, Composing, Composed, Map, LayerMap, SimplePerm
  <2>2. Reallocating'
    BY <1>1 DEF Inv, Reallocating, Reallocated, Map, LayerMap
  <2> QED
    BY <2>1, <2>2
<1>4. \A m \in Layer : Translated(m) => Translated(m)'
  BY <1>1, Zenon DEF Translated
<1>5. Translating'
  BY <1>1, <1>4, Zenon DEF Inv, Translating
<1>6. (Offsets /\ Accumulating /\ Depths /\ DeltaCorrelates)'
  BY <1>1 DEF Inv, Offsets, Accumulating, Depths, DeltaCorrelates
<1> QED
  BY <1>2, <1>3, <1>5, <1>6 DEF Inv

\* The invariant holds in every reachable state, if the walk visits the layers' blocks.
LEMMA Invariance ==
  ASSUME LayersAgree
  PROVE  Spec => []Inv
<1>1. Inv /\ [Next]_vars => Inv'
  <2> SUFFICES ASSUME Inv, [Next]_vars PROVE Inv'
    OBVIOUS
  <2>1. CASE PermReconstruct
    BY <2>1, PermReconstructInv
  <2>2. ASSUME NEW u \in Masks, NEW v \in Masks, ShareTranslation(u, v) PROVE Inv'
    BY <2>2, ShareTranslationInv
  <2>3. CASE Finish
    BY <2>3, FinishSingleInv, FinishLayersInv
  <2>4. CASE Reallocate
    BY <2>4, ReallocateInv
  <2>5. CASE SendOffset
    BY <2>5, SendOffsetInv
  <2>6. CASE Accumulate
    BY <2>6, AccumulateInv
  <2>7. CASE UNCHANGED vars
    BY <2>7, StutterInv
  <2> QED
    BY <2>1, <2>2, <2>3, <2>4, <2>5, <2>6, <2>7 DEF Next
<1> QED
  BY InitInv, <1>1, PTL DEF Spec

-----------------------------------------------------------------------------
(* The theorems. *)

\* Offline ends with delta the receiver's share of b less a permuted, for any
\* number of elements and size of the small permutations of which the second's
\* logarithm divides the first's, and for a flat shuffle of any size; for any
\* permutations and masks.  The other sizes are refuted by a run.
THEOREM OfflineCorrelates ==
  ASSUME n % t = 0 \/ d = 1
  PROVE  Spec => []DeltaCorrelates
<1>1. Inv => DeltaCorrelates
  BY DEF Inv
<1> QED
  BY Agreement, Invariance, <1>1, PTL

\* For the same sizes every index the loops compute is in range and every vector
\* keeps its length and type.
THEOREM OfflineTypeCorrect ==
  ASSUME n % t = 0 \/ d = 1
  PROVE  Spec => []TypeOK
<1>1. Inv => TypeOK
  BY DEF Inv
<1> QED
  BY Agreement, Invariance, <1>1, PTL
=============================================================================
