----------------------------- MODULE OpvProofs -----------------------------
(***************************************************************************)
(* Proofs about Opv: for every depth, every group of blocks with an XOR,   *)
(* every generator, every draw of the roots and every permutation.         *)
(*                                                                         *)
(* What the module defines by recursion is brought under induction over    *)
(* sets of numbers: a function that obeys the recursion exists (Recursion),*)
(* so that Sums, Xors and Tree are such functions.  The loops lose an      *)
(* entry where the other vector has zero (SumsDrop, XorsDrop), and a turn  *)
(* of the loop over levels takes a level of the tree with a hole in it to  *)
(* the next (NextLevel).  Inv is the inductive invariant.                  *)
(***************************************************************************)
EXTENDS Opv, WellFoundedInduction, TLAPS

-----------------------------------------------------------------------------
(* Induction, and the functions that Opv defines by recursion. *)

\* A set of numbers has a least one.
LEMMA LeastNumber ==
  ASSUME NEW T, T \subseteq Nat, T # {}
  PROVE  \E x \in T : \A y \in T : ~(y < x)
<1> DEFINE L == OpToRel(<, Nat)
<1>1. IsWellFoundedOn(L, Nat)
  BY NatLessThanWellFounded
<1>2. \E x \in T : \A y \in T : ~(<<y, x>> \in L)
  <2> HIDE DEF L
  <2> QED
    BY <1>1, WFMin
<1>3. PICK x \in T : \A y \in T : ~(<<y, x>> \in L)
  BY <1>2
<1>4. ASSUME NEW y \in T
      PROVE  ~(y < x)
  BY <1>3 DEF OpToRel
<1> QED
  BY <1>4

\* Induction up to n, for a set of numbers.
LEMMA UpTo ==
  ASSUME NEW n \in Nat, NEW S, 0 \in S, \A k \in 0 .. n - 1 : k \in S => k + 1 \in S
  PROVE  \A k \in 0 .. n : k \in S
<1> DEFINE T == {k \in 0 .. n : k \notin S}
<1> SUFFICES ASSUME T # {}
             PROVE  FALSE
  OBVIOUS
<1>1. PICK k \in T : \A j \in T : ~(j < k)
  <2>1. T \subseteq Nat
    OBVIOUS
  <2> HIDE DEF T
  <2> QED
    BY <2>1, LeastNumber
<1>2. k # 0 /\ k \in 1 .. n
  OBVIOUS
<1>3. k - 1 \in 0 .. n - 1 /\ k - 1 < k /\ (k - 1) + 1 = k /\ k - 1 \in 0 .. n
  BY <1>2
<1>4. k - 1 \in S
  BY <1>1, <1>3
<1> QED
  BY <1>3, <1>4

\* g starts with x and takes step G[k] after its value at k, inside D.
Runs(g, n, x, D, G) ==
  /\ g = [k \in 0 .. n |-> g[k]]
  /\ g[0] = x
  /\ \A k \in 0 .. n : g[k] \in D[k]
  /\ \A k \in 0 .. n - 1 : g[k + 1] = G[k][g[k]]

\* A function can be defined by recursion up to n.
LEMMA Recursion ==
  ASSUME NEW n \in Nat, NEW D, NEW G, NEW x, x \in D[0],
         \A k \in 0 .. n - 1 : \A y \in D[k] : G[k][y] \in D[k + 1]
  PROVE  \E g : Runs(g, n, x, D, G)
<1> DEFINE S == {m \in 0 .. n : \E g : Runs(g, m, x, D, G)}
<1>1. 0 \in S
  <2> DEFINE g == [k \in 0 .. 0 |-> x]
  <2>1. Runs(g, 0, x, D, G)
    BY DEF Runs
  <2> QED
    BY <2>1
<1>2. ASSUME NEW m \in 0 .. n - 1, m \in S
      PROVE  m + 1 \in S
  <2>1. PICK g : Runs(g, m, x, D, G)
    BY <1>2
  <2> DEFINE h == [k \in 0 .. m + 1 |-> IF k = m + 1 THEN G[m][g[m]] ELSE g[k]]
  <2>2. \A k \in 0 .. m : h[k] = g[k]
    OBVIOUS
  <2>3. h[m + 1] = G[m][g[m]]
    OBVIOUS
  <2>4. h = [k \in 0 .. m + 1 |-> h[k]]
    OBVIOUS
  <2>5. g[m] \in D[m] /\ G[m][g[m]] \in D[m + 1]
    BY <2>1 DEF Runs
  <2> HIDE DEF h
  <2>6. h[0] = x
    BY <2>1, <2>2 DEF Runs
  <2>7. \A k \in 0 .. m + 1 : h[k] \in D[k]
    BY <2>1, <2>2, <2>3, <2>5 DEF Runs
  <2>8. \A k \in 0 .. (m + 1) - 1 : h[k + 1] = G[k][h[k]]
    <3> SUFFICES ASSUME NEW k \in 0 .. m
                 PROVE  h[k + 1] = G[k][h[k]]
      OBVIOUS
    <3>1. CASE k = m
      BY <3>1, <2>2, <2>3
    <3>2. CASE k # m
      <4>1. k \in 0 .. m - 1 /\ k + 1 \in 0 .. m
        BY <3>2
      <4> QED
        BY <4>1, <2>1, <2>2 DEF Runs
    <3> QED
      BY <3>1, <3>2
  <2>9. Runs(h, m + 1, x, D, G)
    BY <2>4, <2>6, <2>7, <2>8 DEF Runs
  <2> QED
    BY <2>9
<1> HIDE DEF S
<1>3. n \in S
  BY <1>1, <1>2, UpTo
<1> QED
  BY <1>3 DEF S

Blocks(n) == [0 .. n - 1 -> Block]

\* The two operations as functions, so that a lemma can be about both.
Addition == [x \in Block |-> [y \in Block |-> Add(x, y)]]
Parity == [x \in Block |-> [y \in Block |-> Xor(x, y)]]

Abelian(op) ==
  /\ zero_block \in Block
  /\ op \in [Block -> [Block -> Block]]
  /\ \A x \in Block : op[x][zero_block] = x
  /\ \A x, y \in Block : op[x][y] = op[y][x]
  /\ \A x, y, z \in Block : op[op[x][y]][z] = op[x][op[y][z]]

\* operator+ of blocks.
LEMMA AdditionAbelian == Abelian(Addition)
<1>1. \A x, y \in Block : Add(x, y) \in Block
  BY GroupAssumption
<1>2. \A x, y \in Block : Addition[x][y] = Add(x, y)
  BY DEF Addition
<1>3. Addition \in [Block -> [Block -> Block]]
  BY <1>1 DEF Addition
<1>4. zero_block \in Block /\ \A x \in Block : Addition[x][zero_block] = x
  BY <1>2, GroupAssumption
<1>5. ASSUME NEW x \in Block, NEW y \in Block
      PROVE  Addition[x][y] = Addition[y][x]
  <2>1. Add(x, y) = Add(y, x)
    BY GroupAssumption
  <2> QED
    BY <1>2, <2>1
<1>6. ASSUME NEW x \in Block, NEW y \in Block, NEW z \in Block
      PROVE  Addition[Addition[x][y]][z] = Addition[x][Addition[y][z]]
  <2>1. Addition[Addition[x][y]][z] = Add(Add(x, y), z)
    BY <1>1, <1>2
  <2>2. Addition[x][Addition[y][z]] = Add(x, Add(y, z))
    BY <1>1, <1>2
  <2> QED
    BY <2>1, <2>2, GroupAssumption
<1> QED
  BY <1>3, <1>4, <1>5, <1>6 DEF Abelian

\* operator^ of blocks.
LEMMA ParityAbelian == Abelian(Parity)
<1>1. \A x, y \in Block : Xor(x, y) \in Block
  BY GroupAssumption, XorAssumption
<1>2. \A x, y \in Block : Parity[x][y] = Xor(x, y)
  BY DEF Parity
<1>3. Parity \in [Block -> [Block -> Block]]
  BY <1>1 DEF Parity
<1>4. zero_block \in Block /\ \A x \in Block : Parity[x][zero_block] = x
  BY <1>2, GroupAssumption, XorAssumption
<1>5. ASSUME NEW x \in Block, NEW y \in Block
      PROVE  Parity[x][y] = Parity[y][x]
  <2>1. Xor(x, y) = Xor(y, x)
    BY GroupAssumption, XorAssumption
  <2> QED
    BY <1>2, <2>1
<1>6. ASSUME NEW x \in Block, NEW y \in Block, NEW z \in Block
      PROVE  Parity[Parity[x][y]][z] = Parity[x][Parity[y][z]]
  <2>1. Parity[Parity[x][y]][z] = Xor(Xor(x, y), z)
    BY <1>1, <1>2
  <2>2. Parity[x][Parity[y][z]] = Xor(x, Xor(y, z))
    BY <1>1, <1>2
  <2> QED
    BY <2>1, <2>2, GroupAssumption, XorAssumption
<1> QED
  BY <1>3, <1>4, <1>5, <1>6 DEF Abelian

\* The values that a loop over f goes through.
Walk(g, n, f, op) ==
  /\ g = [k \in 0 .. n |-> g[k]]
  /\ g[0] = zero_block
  /\ \A k \in 0 .. n : g[k] \in Block
  /\ \A k \in 0 .. n - 1 : g[k + 1] = op[g[k]][f[k]]

\* There are such values.
LEMMA WalkExists ==
  ASSUME NEW n \in Nat, NEW f \in Blocks(n), NEW op, Abelian(op)
  PROVE  \E g : Walk(g, n, f, op)
<1> DEFINE D == [k \in 0 .. n |-> Block]
           G == [k \in 0 .. n - 1 |-> [y \in Block |-> op[y][f[k]]]]
<1>1. zero_block \in D[0]
  BY DEF Abelian
<1>2. \A k \in 0 .. n - 1 : f[k] \in Block
  BY DEF Blocks
<1>3. ASSUME NEW k \in 0 .. n - 1, NEW y \in Block
      PROVE  G[k][y] \in Block
  <2>1. f[k] \in Block /\ G[k][y] = op[y][f[k]]
    BY <1>2
  <2> HIDE DEF G
  <2>2. \A x, z \in Block : op[x][z] \in Block
    BY DEF Abelian
  <2> QED
    BY <2>1, <2>2
<1>4. \A k \in 0 .. n : D[k] = Block
  OBVIOUS
<1>5. \A k \in 0 .. n - 1 : \A y \in Block : G[k][y] = op[y][f[k]]
  OBVIOUS
<1>6. \A k \in 0 .. n - 1 : \A y \in D[k] : G[k][y] \in D[k + 1]
  <2> HIDE DEF D, G
  <2> TAKE k \in 0 .. n - 1
  <2>1. k \in 0 .. n /\ k + 1 \in 0 .. n
    OBVIOUS
  <2> QED
    BY <2>1, <1>3, <1>4
<1> HIDE DEF D, G
<1>7. PICK g : Runs(g, n, zero_block, D, G)
  BY <1>1, <1>6, Recursion
<1>8. \A k \in 0 .. n : g[k] \in Block
  BY <1>7, <1>4 DEF Runs
<1>9. \A k \in 0 .. n - 1 : g[k + 1] = op[g[k]][f[k]]
  <2> TAKE k \in 0 .. n - 1
  <2>1. g[k + 1] = G[k][g[k]]
    BY <1>7 DEF Runs
  <2>2. k \in 0 .. n
    OBVIOUS
  <2>3. g[k] \in Block
    BY <2>2, <1>8
  <2> QED
    BY <2>1, <2>3, <1>5
<1> QED
  BY <1>7, <1>8, <1>9 DEF Runs, Walk

\* A loop over blocks stays in the blocks.
LEMMA WalkClosed ==
  ASSUME NEW n \in Nat, NEW f \in Blocks(n), NEW op, Abelian(op), NEW s,
         s = [k \in 0 .. n |-> s[k]], s[0] = zero_block,
         \A k \in 0 .. n - 1 : s[k] \in Block => s[k + 1] = op[s[k]][f[k]]
  PROVE  Walk(s, n, f, op)
<1> DEFINE S == {k \in 0 .. n : s[k] \in Block}
<1>1. 0 \in S
  BY DEF Abelian
<1>2. ASSUME NEW k \in 0 .. n - 1, k \in S
      PROVE  k + 1 \in S
  <2>1. s[k] \in Block /\ f[k] \in Block
    BY <1>2 DEF Blocks
  <2>2. op[s[k]][f[k]] \in Block
    <3>1. \A x, y \in Block : op[x][y] \in Block
      BY DEF Abelian
    <3> QED
      BY <2>1, <3>1
  <2>3. s[k + 1] = op[s[k]][f[k]]
    BY <2>1
  <2> QED
    BY <2>2, <2>3
<1> HIDE DEF S
<1>3. \A k \in 0 .. n : k \in S
  BY <1>1, <1>2, UpTo
<1>4. \A k \in 0 .. n : s[k] \in Block
  BY <1>3 DEF S
<1>5. \A k \in 0 .. n - 1 : s[k + 1] = op[s[k]][f[k]]
  <2> TAKE k \in 0 .. n - 1
  <2>1. k \in 0 .. n
    OBVIOUS
  <2> QED
    BY <2>1, <1>4
<1> QED
  BY <1>4, <1>5 DEF Walk

\* Where h has zero at j and f elsewhere, the loop over f ends one operation away.
LEMMA WalkDrop ==
  ASSUME NEW n \in Nat, NEW f \in Blocks(n), NEW h \in Blocks(n), NEW op, Abelian(op),
         NEW j \in 0 .. n - 1, h[j] = zero_block,
         \A i \in 0 .. n - 1 : i # j => h[i] = f[i],
         NEW g, Walk(g, n, f, op), NEW e, Walk(e, n, h, op)
  PROVE  g[n] = op[e[n]][f[j]]
<1> DEFINE S == {k \in 0 .. n : g[k] = IF j < k THEN op[e[k]][f[j]] ELSE e[k]}
<1>1. 0 \in S
  BY DEF Walk
<1>2. ASSUME NEW k \in 0 .. n - 1, k \in S
      PROVE  k + 1 \in S
  <2>1. /\ g[k] \in Block /\ e[k] \in Block
        /\ g[k + 1] = op[g[k]][f[k]] /\ e[k + 1] = op[e[k]][h[k]]
    <3>1. k \in 0 .. n
      OBVIOUS
    <3>2. g[k] \in Block /\ g[k + 1] = op[g[k]][f[k]]
      BY <3>1 DEF Walk
    <3>3. e[k] \in Block /\ e[k + 1] = op[e[k]][h[k]]
      BY <3>1 DEF Walk
    <3> QED
      BY <3>2, <3>3
  <2>2. f[k] \in Block /\ h[k] \in Block /\ f[j] \in Block
    BY DEF Blocks
  <2>3. g[k] = IF j < k THEN op[e[k]][f[j]] ELSE e[k]
    BY <1>2
  <2>4. CASE j < k
    <3>1. g[k + 1] = op[op[e[k]][f[j]]][f[k]] /\ e[k + 1] = op[e[k]][f[k]]
      BY <2>1, <2>3, <2>4
    <3>2. \A x, y, z \in Block : op[op[x][y]][z] = op[op[x][z]][y]
      <4>1. \A x, y \in Block : op[x][y] = op[y][x]
        BY DEF Abelian
      <4>2. \A x, y, z \in Block : op[op[x][y]][z] = op[x][op[y][z]]
        BY DEF Abelian
      <4> QED
        BY <4>1, <4>2
    <3>3. op[op[e[k]][f[j]]][f[k]] = op[op[e[k]][f[k]]][f[j]]
      BY <2>1, <2>2, <3>2
    <3> QED
      BY <2>4, <3>1, <3>3
  <2>5. CASE j = k
    <3>1. g[k + 1] = op[e[k]][f[j]] /\ e[k + 1] = op[e[k]][zero_block]
      BY <2>1, <2>3, <2>5
    <3>2. op[e[k]][zero_block] = e[k]
      BY <2>1 DEF Abelian
    <3> QED
      BY <2>5, <3>1, <3>2
  <2>6. CASE k < j
    <3>1. g[k + 1] = e[k + 1]
      BY <2>1, <2>3, <2>6
    <3> QED
      BY <2>6, <3>1
  <2> QED
    BY <2>4, <2>5, <2>6
<1> HIDE DEF S
<1>3. \A k \in 0 .. n : k \in S
  BY <1>1, <1>2, UpTo
<1> QED
  BY <1>3 DEF S

\* Sums and Xors are such loops.
LEMMA SumWalk ==
  ASSUME NEW n \in Nat, NEW f \in Blocks(n)
  PROVE  Walk(Sums(f, n), n, f, Addition)
<1> DEFINE P(s) == s = [k \in 0 .. n |-> IF k = 0 THEN zero_block ELSE Add(s[k - 1], f[k - 1])]
<1>1. \A k \in 0 .. n - 1 : f[k] \in Block
  BY DEF Blocks
<1>2. PICK g : Walk(g, n, f, Addition)
  BY AdditionAbelian, WalkExists
<1>3. \A k \in 0 .. n : g[k] = IF k = 0 THEN zero_block ELSE Add(g[k - 1], f[k - 1])
  <2> TAKE k \in 0 .. n
  <2>1. CASE k = 0
    BY <2>1, <1>2 DEF Walk
  <2>2. CASE k # 0
    <3>1. k - 1 \in 0 .. n - 1 /\ k - 1 \in 0 .. n /\ (k - 1) + 1 = k
      BY <2>2
    <3>2. g[k] = Addition[g[k - 1]][f[k - 1]] /\ g[k - 1] \in Block
      BY <1>2, <3>1 DEF Walk
    <3> QED
      BY <1>1, <3>1, <3>2, <2>2 DEF Addition
  <2> QED
    BY <2>1, <2>2
<1>4. P(g)
  <2>1. g = [k \in 0 .. n |-> g[k]]
    BY <1>2 DEF Walk
  <2> QED
    BY <2>1, <1>3
<1>5. Sums(f, n) = CHOOSE s : P(s)
  BY DEF Sums
<1> HIDE DEF P
<1>6. P(Sums(f, n))
  BY <1>4, <1>5
<1> DEFINE s == Sums(f, n)
<1>7. s = [k \in 0 .. n |-> IF k = 0 THEN zero_block ELSE Add(s[k - 1], f[k - 1])]
  BY <1>6 DEF P
<1> HIDE DEF s
<1>8. s = [k \in 0 .. n |-> s[k]] /\ s[0] = zero_block
  BY <1>7
<1>9. ASSUME NEW k \in 0 .. n - 1, s[k] \in Block
      PROVE  s[k + 1] = Addition[s[k]][f[k]]
  <2>1. k + 1 \in 0 .. n /\ k + 1 # 0 /\ (k + 1) - 1 = k
    OBVIOUS
  <2>2. s[k + 1] = Add(s[k], f[k])
    BY <2>1, <1>7
  <2> QED
    BY <2>2, <1>1, <1>9 DEF Addition
<1>10. Walk(s, n, f, Addition)
  BY <1>8, <1>9, AdditionAbelian, WalkClosed
<1> QED
  BY <1>10 DEF s

\* The same of operator^.
LEMMA XorWalk ==
  ASSUME NEW n \in Nat, NEW f \in Blocks(n)
  PROVE  Walk(Xors(f, n), n, f, Parity)
<1> DEFINE P(s) == s = [k \in 0 .. n |-> IF k = 0 THEN zero_block ELSE Xor(s[k - 1], f[k - 1])]
<1>1. \A k \in 0 .. n - 1 : f[k] \in Block
  BY DEF Blocks
<1>2. PICK g : Walk(g, n, f, Parity)
  BY ParityAbelian, WalkExists
<1>3. \A k \in 0 .. n : g[k] = IF k = 0 THEN zero_block ELSE Xor(g[k - 1], f[k - 1])
  <2> TAKE k \in 0 .. n
  <2>1. CASE k = 0
    BY <2>1, <1>2 DEF Walk
  <2>2. CASE k # 0
    <3>1. k - 1 \in 0 .. n - 1 /\ k - 1 \in 0 .. n /\ (k - 1) + 1 = k
      BY <2>2
    <3>2. g[k] = Parity[g[k - 1]][f[k - 1]] /\ g[k - 1] \in Block
      BY <1>2, <3>1 DEF Walk
    <3> QED
      BY <1>1, <3>1, <3>2, <2>2 DEF Parity
  <2> QED
    BY <2>1, <2>2
<1>4. P(g)
  <2>1. g = [k \in 0 .. n |-> g[k]]
    BY <1>2 DEF Walk
  <2> QED
    BY <2>1, <1>3
<1>5. Xors(f, n) = CHOOSE s : P(s)
  BY DEF Xors
<1> HIDE DEF P
<1>6. P(Xors(f, n))
  BY <1>4, <1>5
<1> DEFINE s == Xors(f, n)
<1>7. s = [k \in 0 .. n |-> IF k = 0 THEN zero_block ELSE Xor(s[k - 1], f[k - 1])]
  BY <1>6 DEF P
<1> HIDE DEF s
<1>8. s = [k \in 0 .. n |-> s[k]] /\ s[0] = zero_block
  BY <1>7
<1>9. ASSUME NEW k \in 0 .. n - 1, s[k] \in Block
      PROVE  s[k + 1] = Parity[s[k]][f[k]]
  <2>1. k + 1 \in 0 .. n /\ k + 1 # 0 /\ (k + 1) - 1 = k
    OBVIOUS
  <2>2. s[k + 1] = Xor(s[k], f[k])
    BY <2>1, <1>7
  <2> QED
    BY <2>2, <1>1, <1>9 DEF Parity
<1>10. Walk(s, n, f, Parity)
  BY <1>8, <1>9, ParityAbelian, WalkClosed
<1> QED
  BY <1>10 DEF s

\* Sums lose what one entry loses.
LEMMA SumsDrop ==
  ASSUME NEW n \in Nat, NEW f \in Blocks(n), NEW h \in Blocks(n), NEW j \in 0 .. n - 1,
         h[j] = zero_block, \A i \in 0 .. n - 1 : i # j => h[i] = f[i]
  PROVE  Sums(f, n)[n] = Add(Sums(h, n)[n], f[j])
<1>1. Sums(f, n)[n] = Addition[Sums(h, n)[n]][f[j]]
  <2>1. Walk(Sums(f, n), n, f, Addition) /\ Walk(Sums(h, n), n, h, Addition)
    BY SumWalk
  <2> QED
    BY <2>1, AdditionAbelian, WalkDrop
<1>2. Sums(h, n)[n] \in Block
  BY SumWalk DEF Walk
<1>3. f[j] \in Block
  BY DEF Blocks
<1> QED
  BY <1>1, <1>2, <1>3 DEF Addition

\* The same of exclusive ors.
LEMMA XorsDrop ==
  ASSUME NEW n \in Nat, NEW f \in Blocks(n), NEW h \in Blocks(n), NEW j \in 0 .. n - 1,
         h[j] = zero_block, \A i \in 0 .. n - 1 : i # j => h[i] = f[i]
  PROVE  XorOf(f, n) = Xor(XorOf(h, n), f[j])
<1>1. XorOf(f, n) = Parity[XorOf(h, n)][f[j]]
  <2>1. Walk(Xors(f, n), n, f, Parity) /\ Walk(Xors(h, n), n, h, Parity)
    BY XorWalk
  <2> QED
    BY <2>1, ParityAbelian, WalkDrop DEF XorOf
<1>2. XorOf(h, n) \in Block
  BY XorWalk DEF Walk, XorOf
<1>3. f[j] \in Block
  BY DEF Blocks
<1> QED
  BY <1>1, <1>2, <1>3 DEF Parity

\* An exclusive or of blocks is a block.
LEMMA XorOfBlock ==
  ASSUME NEW n \in Nat, NEW f \in Blocks(n)
  PROVE  XorOf(f, n) \in Block
BY XorWalk DEF Walk, XorOf

\* The exclusive or of one block is the block.
LEMMA XorOfOne ==
  ASSUME NEW f \in Blocks(1)
  PROVE  XorOf(f, 1) = f[0]
<1>1. Walk(Xors(f, 1), 1, f, Parity)
  BY XorWalk
<1>2. /\ Xors(f, 1)[0] = zero_block
      /\ Xors(f, 1)[0 + 1] = Parity[Xors(f, 1)[0]][f[0]]
  BY <1>1 DEF Walk
<1>3. f[0] \in Block /\ zero_block \in Block
  BY GroupAssumption DEF Blocks
<1>4. XorOf(f, 1) = Xor(zero_block, f[0])
  BY <1>2, <1>3 DEF Parity, XorOf
<1>5. Xor(zero_block, f[0]) = Xor(f[0], zero_block)
  BY <1>3, XorAssumption
<1> QED
  BY <1>3, <1>4, <1>5, XorAssumption

\* How differences and sums of blocks go together.
LEMMA SubFacts ==
  /\ \A x, y, z \in Block : z = Sub(x, y) <=> Add(z, y) = x
  /\ \A x, y, z, u \in Block : Add(Add(x, y), Add(z, u)) = Add(Add(x, z), Add(y, u))
<1>1. ASSUME NEW x \in Block, NEW y \in Block, NEW z \in Block
      PROVE  z = Sub(x, y) <=> Add(z, y) = x
  <2>1. Add(Sub(x, y), y) = x
    BY GroupAssumption
  <2>2. Sub(Add(z, y), y) = z
    BY GroupAssumption
  <2> QED
    BY <2>1, <2>2
<1>2. ASSUME NEW x \in Block, NEW y \in Block, NEW z \in Block, NEW u \in Block
      PROVE  Add(Add(x, y), Add(z, u)) = Add(Add(x, z), Add(y, u))
  <2>1. \A i, j \in Block : Add(i, j) \in Block
    BY GroupAssumption
  <2>2. \A i, j, k \in Block : Add(Add(i, j), k) = Add(i, Add(j, k))
    BY GroupAssumption
  <2>3. Add(Add(x, y), Add(z, u)) = Add(x, Add(y, Add(z, u)))
    BY <2>1, <2>2
  <2>4. Add(y, Add(z, u)) = Add(Add(y, z), u)
    BY <2>2
  <2>5. Add(y, z) = Add(z, y)
    BY GroupAssumption
  <2>6. Add(Add(z, y), u) = Add(z, Add(y, u))
    BY <2>2
  <2>7. Add(x, Add(z, Add(y, u))) = Add(Add(x, z), Add(y, u))
    BY <2>1, <2>2
  <2> QED
    BY <2>3, <2>4, <2>5, <2>6, <2>7
<1> QED
  BY <1>1, <1>2

\* The sum of differences is the difference of the sums.
LEMMA SumsOfDifferences ==
  ASSUME NEW n \in Nat, NEW f \in Blocks(n), NEW h \in Blocks(n)
  PROVE  Sums([j \in 0 .. n - 1 |-> Sub(f[j], h[j])], n)[n] = Sub(Sums(f, n)[n], Sums(h, n)[n])
<1> DEFINE m == [j \in 0 .. n - 1 |-> Sub(f[j], h[j])]
           sf == Sums(f, n)
           sh == Sums(h, n)
           sm == Sums(m, n)
<1>1. \A j \in 0 .. n - 1 : f[j] \in Block /\ h[j] \in Block
  BY DEF Blocks
<1>2. \A j \in 0 .. n - 1 : Sub(f[j], h[j]) \in Block
  BY <1>1, GroupAssumption
<1>3. m \in Blocks(n) /\ \A j \in 0 .. n - 1 : m[j] = Sub(f[j], h[j])
  BY <1>2 DEF Blocks
<1> HIDE DEF m
<1>4. Walk(sf, n, f, Addition) /\ Walk(sh, n, h, Addition) /\ Walk(sm, n, m, Addition)
  BY <1>3, SumWalk
<1> HIDE DEF sf, sh, sm
<1>5. \A k \in 0 .. n : sf[k] \in Block /\ sh[k] \in Block /\ sm[k] \in Block
  BY <1>4 DEF Walk
<1> DEFINE S == {k \in 0 .. n : Add(sm[k], sh[k]) = sf[k]}
<1>6. 0 \in S
  <2>1. sf[0] = zero_block /\ sh[0] = zero_block /\ sm[0] = zero_block
    BY <1>4 DEF Walk
  <2> QED
    BY <2>1, GroupAssumption
<1>7. ASSUME NEW k \in 0 .. n - 1, k \in S
      PROVE  k + 1 \in S
  <2>1. k \in 0 .. n /\ k + 1 \in 0 .. n
    OBVIOUS
  <2>2. /\ sf[k + 1] = Addition[sf[k]][f[k]]
        /\ sh[k + 1] = Addition[sh[k]][h[k]]
        /\ sm[k + 1] = Addition[sm[k]][m[k]]
    BY <1>4 DEF Walk
  <2>3. /\ sf[k] \in Block /\ sh[k] \in Block /\ sm[k] \in Block
        /\ f[k] \in Block /\ h[k] \in Block /\ m[k] \in Block
    BY <1>1, <1>2, <1>3, <1>5, <2>1
  <2>4. /\ sf[k + 1] = Add(sf[k], f[k])
        /\ sh[k + 1] = Add(sh[k], h[k])
        /\ sm[k + 1] = Add(sm[k], m[k])
    BY <2>2, <2>3 DEF Addition
  <2>5. Add(m[k], h[k]) = f[k]
    BY <1>3, <2>3, SubFacts
  <2>6. Add(sm[k], sh[k]) = sf[k]
    BY <1>7
  <2>7. Add(Add(sm[k], m[k]), Add(sh[k], h[k])) = Add(Add(sm[k], sh[k]), Add(m[k], h[k]))
    BY <2>3, SubFacts
  <2> QED
    BY <2>1, <2>4, <2>5, <2>6, <2>7
<1> HIDE DEF S
<1>8. \A k \in 0 .. n : k \in S
  BY <1>6, <1>7, UpTo
<1>9. Add(sm[n], sh[n]) = sf[n]
  BY <1>8 DEF S
<1>10. sm[n] = Sub(sf[n], sh[n])
  BY <1>5, <1>9, SubFacts
<1> QED
  BY <1>10 DEF m, sf, sh, sm

-----------------------------------------------------------------------------
(* The tree, its levels and the path to an entry. *)

\* What is known of the powers of two up to the depth.
LEMMA Powers ==
  /\ 2 ^ 0 = 1
  /\ \A c \in 0 .. depth : 2 ^ c \in Nat \ {0}
  /\ \A c \in 0 .. depth - 1 : 2 ^ (c + 1) = 2 * 2 ^ c
<1> DEFINE S == {c \in 0 .. depth : 2 ^ c \in Nat \ {0}}
<1>1. depth \in Nat
  BY OpvAssumption
<1>2. 0 \in S
  BY <1>1, PowerAssumption
<1>3. ASSUME NEW c \in 0 .. depth - 1, c \in S
      PROVE  c + 1 \in S
  <2>1. c + 1 \in 0 .. depth
    BY <1>1
  <2>2. 2 ^ (c + 1) = 2 * 2 ^ c
    BY PowerAssumption
  <2> DEFINE p == 2 ^ c
  <2>3. p \in Nat \ {0}
    BY <1>3
  <2> HIDE DEF p
  <2>4. 2 * p \in Nat \ {0}
    BY <2>3
  <2> QED
    BY <2>1, <2>2, <2>4 DEF p
<1> HIDE DEF S
<1>4. \A c \in 0 .. depth : c \in S
  BY <1>1, <1>2, <1>3, UpTo
<1> QED
  BY <1>4, PowerAssumption DEF S

\* There is a row, and the rows are numbered as the leaves are.
LEMMA Length == length \in Nat \ {0} /\ 0 \in Row /\ Row = 0 .. 2 ^ depth - 1
BY Powers, OpvAssumption DEF length, Row

\* The number a multiple and a remainder are divided into.
LEMMA Quotient ==
  ASSUME NEW n \in Nat \ {0}, NEW k \in Nat, NEW r \in 0 .. n - 1
  PROVE  (n * k + r) \div n = k
BY Z3

\* To divide by twice n is to divide by n, and then by two.
LEMMA QuotientTwice ==
  ASSUME NEW n \in Nat \ {0}, NEW x \in Nat
  PROVE  x \div (2 * n) = (x \div n) \div 2
<1> DEFINE y == x \div n
           z == y \div 2
           r == n * (y % 2) + (x % n)
<1>1. x = n * y + (x % n) /\ x % n \in 0 .. n - 1 /\ y \in Nat
  BY Z3
<1>2. y = 2 * z + (y % 2) /\ y % 2 \in {0, 1} /\ z \in Nat
  BY <1>1
<1>3. r \in 0 .. (2 * n) - 1
  <2> HIDE DEF y
  <2>1. CASE y % 2 = 0
    BY <2>1, <1>1
  <2>2. CASE y % 2 = 1
    BY <2>2, <1>1
  <2> QED
    BY <2>1, <2>2, <1>2
<1>4. x = (2 * n) * z + r
  <2> DEFINE t == y % 2
             u == x % n
  <2>1. /\ x = n * y + u /\ u \in Nat
        /\ y = 2 * z + t /\ t \in Nat /\ z \in Nat
    BY <1>1, <1>2
  <2> HIDE DEF t, u, y, z
  <2>2. n * y = (2 * n) * z + n * t
    BY <2>1, Z3
  <2>3. x = (2 * n) * z + (n * t + u)
    BY <2>1, <2>2, Z3
  <2> QED
    BY <2>3 DEF t, u
<1> HIDE DEF r, z
<1>5. ((2 * n) * z + r) \div (2 * n) = z
  <2>1. 2 * n \in Nat \ {0}
    OBVIOUS
  <2> DEFINE m == 2 * n
  <2> HIDE DEF m
  <2>2. (m * z + r) \div m = z
    BY <1>2, <1>3, <2>1, Quotient DEF m
  <2> QED
    BY <2>2 DEF m
<1> QED
  BY <1>4, <1>5 DEF z

\* The node of level c above entry x.
Above(x, c) == x \div 2 ^ (depth - c)

\* The path to x: the node one level down is on the side that x's bit does not name.
LEMMA PathStep ==
  ASSUME NEW x \in Row
  PROVE  /\ Above(x, 0) = 0 /\ Above(x, depth) = x
         /\ \A c \in 0 .. depth : Above(x, c) \in 0 .. 2 ^ c - 1
         /\ \A c \in 0 .. depth - 1 : /\ Bits(x)[c] \in {0, 1}
                                      /\ Above(x, c + 1) = 2 * Above(x, c) + (1 - Bits(x)[c])
<1>1. depth \in Nat \ {0} /\ x \in Nat
  BY OpvAssumption, Length
<1> DEFINE S == {k \in 0 .. depth : x \div 2 ^ k \in 0 .. 2 ^ (depth - k) - 1}
<1>2. x \div 2 ^ 0 = x
  BY <1>1, Powers
<1>3. 0 \in S
  <2>1. depth - 0 = depth
    BY <1>1
  <2> QED
    BY <1>1, <1>2, <2>1, Length
<1>4. \A k \in 0 .. depth - 1 : x \div 2 ^ (k + 1) = (x \div 2 ^ k) \div 2
  <2> TAKE k \in 0 .. depth - 1
  <2>1. k \in 0 .. depth
    BY <1>1
  <2>2. 2 ^ k \in Nat \ {0} /\ 2 ^ (k + 1) = 2 * 2 ^ k
    BY <2>1, Powers
  <2> DEFINE p == 2 ^ k
  <2> HIDE DEF p
  <2>3. x \div (2 * p) = (x \div p) \div 2
    BY <1>1, <2>2, QuotientTwice DEF p
  <2> QED
    BY <2>2, <2>3 DEF p
<1>5. ASSUME NEW k \in 0 .. depth - 1, k \in S
      PROVE  k + 1 \in S
  <2>1. k + 1 \in 0 .. depth /\ depth - (k + 1) \in 0 .. depth - 1 /\ (depth - (k + 1)) + 1 = depth - k
    BY <1>1
  <2>2. 2 ^ (depth - k) = 2 * 2 ^ (depth - (k + 1)) /\ 2 ^ (depth - (k + 1)) \in Nat \ {0}
    <3> DEFINE e == depth - (k + 1)
    <3>1. e \in 0 .. depth - 1 /\ e \in 0 .. depth /\ depth - k = e + 1
      BY <1>1
    <3> HIDE DEF e
    <3>2. 2 ^ (e + 1) = 2 * 2 ^ e /\ 2 ^ e \in Nat \ {0}
      BY <3>1, Powers
    <3> QED
      BY <3>1, <3>2 DEF e
  <2> DEFINE y == x \div 2 ^ k
             p == 2 ^ (depth - (k + 1))
  <2>3. y \in 0 .. (2 * p) - 1 /\ p \in Nat \ {0}
    BY <1>5, <2>2
  <2> HIDE DEF y, p
  <2>4. y \div 2 \in 0 .. p - 1
    BY <2>3
  <2> QED
    BY <2>1, <2>4, <1>4 DEF y, p
<1>6. \A k \in 0 .. depth : k \in S
  <2> HIDE DEF S
  <2> QED
    BY <1>1, <1>3, <1>5, UpTo
<1>7. \A c \in 0 .. depth : Above(x, c) \in 0 .. 2 ^ c - 1
  <2> TAKE c \in 0 .. depth
  <2>1. depth - c \in 0 .. depth /\ depth - (depth - c) = c
    BY <1>1
  <2> QED
    BY <1>6, <2>1 DEF Above
<1>8. Above(x, 0) = 0
  <2>1. Above(x, 0) \in 0 .. 0
    <3>1. 0 \in 0 .. depth /\ 2 ^ 0 - 1 = 0
      BY <1>1, Powers
    <3> QED
      BY <1>7, <3>1
  <2> QED
    BY <2>1
<1>9. Above(x, depth) = x
  <2>1. depth - depth = 0
    BY <1>1
  <2> QED
    BY <1>2, <2>1 DEF Above
<1>10. ASSUME NEW c \in 0 .. depth - 1
       PROVE  /\ Bits(x)[c] \in {0, 1}
              /\ Above(x, c + 1) = 2 * Above(x, c) + (1 - Bits(x)[c])
  <2>1. /\ depth - (c + 1) \in 0 .. depth - 1 /\ depth - (c + 1) = (depth - 1) - c
        /\ (depth - (c + 1)) + 1 = depth - c /\ c + 1 \in 0 .. depth
    BY <1>1
  <2> DEFINE y == x \div 2 ^ (depth - (c + 1))
  <2>2. x \div 2 ^ (depth - c) = y \div 2
    BY <1>4, <2>1
  <2>3. y \in Nat
    <3>1. Above(x, c + 1) \in 0 .. 2 ^ (c + 1) - 1
      BY <1>7, <2>1
    <3>2. 2 ^ (c + 1) \in Nat
      BY <2>1, Powers
    <3> QED
      BY <3>1, <3>2 DEF Above
  <2>4. Bits(x)[c] = 1 - (y % 2)
    BY <2>1 DEF Bits
  <2>5. Above(x, c + 1) = y /\ Above(x, c) = y \div 2
    BY <2>2 DEF Above
  <2> HIDE DEF y
  <2>6. y % 2 \in {0, 1} /\ y = 2 * (y \div 2) + (y % 2)
    BY <2>3
  <2> DEFINE t == y % 2
             h == y \div 2
  <2>7. h \in Int
    BY <2>3
  <2> HIDE DEF t, h
  <2> QED
    BY <2>4, <2>5, <2>6, <2>7 DEF t, h
<1> QED
  BY <1>7, <1>8, <1>9, <1>10

Nodes(c) == [0 .. 2 ^ c - 1 -> Block]

\* A node below level c: its parent and its side.
LEMMA ChildPlace ==
  ASSUME NEW c \in 0 .. depth - 1, NEW i \in 0 .. 2 ^ (c + 1) - 1
  PROVE  i \div 2 \in 0 .. 2 ^ c - 1 /\ i % 2 \in {0, 1} /\ i = 2 * (i \div 2) + (i % 2)
<1> DEFINE p == 2 ^ c
<1>1. p \in Nat \ {0} /\ i \in 0 .. (2 * p) - 1
  BY Powers, OpvAssumption
<1> HIDE DEF p
<1>2. i \div 2 \in 0 .. p - 1 /\ i % 2 \in {0, 1} /\ i = 2 * (i \div 2) + (i % 2)
  BY <1>1
<1> QED
  BY <1>2 DEF p

\* Seeds expand to seeds.
LEMMA Expands ==
  ASSUME NEW x \in Block, NEW side \in {0, 1}
  PROVE  DLenPRG[x][side] \in Block
BY OpvAssumption

\* Every level of a tree holds the seeds that those of the level above expand to.
LEMMA TreeLevels ==
  ASSUME NEW root \in Block
  PROVE  /\ Tree(root)[0] = [i \in 0 .. 0 |-> root]
         /\ \A c \in 0 .. depth : Tree(root)[c] \in Nodes(c)
         /\ \A c \in 0 .. depth - 1 : Tree(root)[c + 1] =
               [i \in 0 .. 2 ^ (c + 1) - 1 |-> DLenPRG[Tree(root)[c][i \div 2]][i % 2]]
<1> DEFINE Below(c, y) == [i \in 0 .. 2 ^ (c + 1) - 1 |-> DLenPRG[y[i \div 2]][i % 2]]
           P(s) == s = [c \in 0 .. depth |->
                          [i \in 0 .. 2 ^ c - 1 |->
                             IF c = 0 THEN root ELSE DLenPRG[s[c - 1][i \div 2]][i % 2]]]
           D == [c \in 0 .. depth |-> Nodes(c)]
           G == [c \in 0 .. depth - 1 |-> [y \in Nodes(c) |-> Below(c, y)]]
           x == [i \in 0 .. 0 |-> root]
<1>1. depth \in Nat \ {0} /\ 2 ^ 0 - 1 = 0
  BY OpvAssumption, Powers
<1>2. x \in Nodes(0)
  BY <1>1 DEF Nodes
<1>3. \A c \in 0 .. depth : D[c] = Nodes(c)
  OBVIOUS
<1>4. \A c \in 0 .. depth - 1 : \A y \in Nodes(c) : G[c][y] = Below(c, y)
  OBVIOUS
<1>5. ASSUME NEW c \in 0 .. depth - 1, NEW y \in Nodes(c)
      PROVE  Below(c, y) \in Nodes(c + 1)
  <2>1. ASSUME NEW i \in 0 .. 2 ^ (c + 1) - 1
        PROVE  DLenPRG[y[i \div 2]][i % 2] \in Block
    <3>1. i \div 2 \in 0 .. 2 ^ c - 1 /\ i % 2 \in {0, 1}
      BY ChildPlace
    <3>2. y[i \div 2] \in Block
      BY <3>1 DEF Nodes
    <3> QED
      BY <3>1, <3>2, Expands
  <2> QED
    BY <2>1 DEF Nodes
<1> HIDE DEF x, D, G, Below
<1>6. \A c \in 0 .. depth - 1 : \A y \in D[c] : G[c][y] \in D[c + 1]
  <2> TAKE c \in 0 .. depth - 1
  <2>1. c \in 0 .. depth /\ c + 1 \in 0 .. depth
    BY <1>1
  <2> QED
    BY <2>1, <1>3, <1>4, <1>5
<1>7. PICK g : Runs(g, depth, x, D, G)
  <2>1. x \in D[0]
    BY <1>1, <1>2, <1>3
  <2> QED
    BY <1>1, <1>6, <2>1, Recursion
<1>8. P(g)
  <2>1. g = [c \in 0 .. depth |-> g[c]] /\ g[0] = x
    BY <1>7 DEF Runs
  <2>2. ASSUME NEW c \in 0 .. depth
        PROVE  g[c] = [i \in 0 .. 2 ^ c - 1 |->
                         IF c = 0 THEN root ELSE DLenPRG[g[c - 1][i \div 2]][i % 2]]
    <3>1. CASE c = 0
      <4>1. g[0] = [i \in 0 .. 2 ^ 0 - 1 |-> root]
        BY <1>1, <2>1 DEF x
      <4> QED
        BY <3>1, <4>1
    <3>2. CASE c # 0
      <4>1. c - 1 \in 0 .. depth - 1 /\ c - 1 \in 0 .. depth /\ (c - 1) + 1 = c
        BY <1>1, <3>2
      <4>2. g[c - 1] \in Nodes(c - 1)
        BY <1>3, <1>7, <4>1 DEF Runs
      <4>3. g[(c - 1) + 1] = G[c - 1][g[c - 1]]
        BY <1>7, <4>1 DEF Runs
      <4>4. g[c] = Below(c - 1, g[c - 1])
        BY <4>1, <4>2, <4>3, <1>4
      <4> QED
        BY <3>2, <4>1, <4>4 DEF Below
    <3> QED
      BY <3>1, <3>2
  <2> QED
    BY <2>1, <2>2
<1>9. Tree(root) = CHOOSE s : P(s)
  BY DEF Tree
<1> HIDE DEF P
<1>10. P(Tree(root))
  BY <1>8, <1>9
<1> DEFINE t == Tree(root)
<1>11. t = [c \in 0 .. depth |->
              [i \in 0 .. 2 ^ c - 1 |->
                 IF c = 0 THEN root ELSE DLenPRG[t[c - 1][i \div 2]][i % 2]]]
  BY <1>10 DEF P
<1> HIDE DEF t
<1>12. t[0] = x
  <2>1. t[0] = [i \in 0 .. 2 ^ 0 - 1 |-> root]
    BY <1>1, <1>11
  <2> QED
    BY <1>1, <2>1 DEF x
<1>13. ASSUME NEW c \in 0 .. depth - 1
       PROVE  t[c + 1] = Below(c, t[c])
  <2>1. c + 1 \in 0 .. depth /\ c + 1 # 0 /\ (c + 1) - 1 = c
    BY <1>1
  <2>2. t[c + 1] = [i \in 0 .. 2 ^ (c + 1) - 1 |->
                      IF c + 1 = 0 THEN root ELSE DLenPRG[t[(c + 1) - 1][i \div 2]][i % 2]]
    BY <1>11, <2>1
  <2> QED
    BY <2>1, <2>2 DEF Below
<1> DEFINE S == {c \in 0 .. depth : t[c] \in Nodes(c)}
<1>14. 0 \in S
  BY <1>1, <1>2, <1>12
<1>15. ASSUME NEW c \in 0 .. depth - 1, c \in S
       PROVE  c + 1 \in S
  <2>1. c + 1 \in 0 .. depth
    BY <1>1
  <2> QED
    BY <1>5, <1>13, <1>15, <2>1
<1> HIDE DEF S
<1>16. \A c \in 0 .. depth : c \in S
  BY <1>1, <1>14, <1>15, UpTo
<1>17. \A c \in 0 .. depth : t[c] \in Nodes(c)
  BY <1>16 DEF S
<1> QED
  BY <1>12, <1>13, <1>17 DEF t, x, Below

\* The seeds of one side of a level, and what ALICE sends of them.
Side(root, c, side) == [j \in 0 .. 2 ^ c - 1 |-> DLenPRG[Tree(root)[c][j]][side]]

\* ALICE's string for a side is the exclusive or of its seeds.
LEMMA SideBlocks ==
  ASSUME NEW root \in Block, NEW c \in 0 .. depth - 1, NEW side \in {0, 1}
  PROVE  /\ 2 ^ c \in Nat /\ Side(root, c, side) \in Blocks(2 ^ c)
         /\ PrepareCorrelation(root)[c][side] = XorOf(Side(root, c, side), 2 ^ c)
         /\ PrepareCorrelation(root)[c][side] \in Block
<1>1. c \in 0 .. depth
  BY OpvAssumption
<1>2. 2 ^ c \in Nat
  BY <1>1, Powers
<1>3. \A j \in 0 .. 2 ^ c - 1 : Tree(root)[c][j] \in Block
  BY <1>1, TreeLevels DEF Nodes
<1>4. Side(root, c, side) \in Blocks(2 ^ c)
  BY <1>3, Expands DEF Side, Blocks
<1>5. PrepareCorrelation(root)[c][side] = XorOf(Side(root, c, side), 2 ^ c)
  BY DEF PrepareCorrelation, Side
<1> QED
  BY <1>2, <1>4, <1>5, XorOfBlock

\* Of the first level BOB gets the node on the side of his bit.
LEMMA FirstSeed ==
  ASSUME NEW root \in Block, NEW side \in {0, 1}
  PROVE  PrepareCorrelation(root)[0][side] = Tree(root)[1][side]
<1>1. 0 \in 0 .. depth - 1 /\ 2 ^ 0 = 1 /\ 2 ^ (0 + 1) = 2 /\ depth \in Nat
  BY OpvAssumption, Powers
<1>2. Side(root, 0, side) \in Blocks(1) /\ PrepareCorrelation(root)[0][side] = XorOf(Side(root, 0, side), 1)
  BY <1>1, SideBlocks
<1>3. XorOf(Side(root, 0, side), 1) = Side(root, 0, side)[0]
  BY <1>2, XorOfOne
<1>4. Side(root, 0, side)[0] = DLenPRG[Tree(root)[0][0]][side]
  BY <1>1 DEF Side
<1>5. Tree(root)[0 + 1] = [i \in 0 .. 2 ^ (0 + 1) - 1 |-> DLenPRG[Tree(root)[0][i \div 2]][i % 2]]
  BY <1>1, TreeLevels
<1>6. side \in 0 .. 2 ^ (0 + 1) - 1 /\ side \div 2 = 0 /\ side % 2 = side
  BY <1>1
<1>7. Tree(root)[0 + 1][side] = DLenPRG[Tree(root)[0][side \div 2]][side % 2]
  BY <1>5, <1>6
<1> QED
  BY <1>2, <1>3, <1>4, <1>6, <1>7

\* The other node of a pair.
LEMMA Siblings ==
  /\ \A k \in Nat, e \in {0, 1} : Sibling(2 * k + e) = 2 * k + (1 - e)
  /\ \A i \in Nat : Sibling(i) \in Nat /\ Sibling(Sibling(i)) = i
  /\ \A c \in 1 .. depth : \A i \in 0 .. 2 ^ c - 1 : Sibling(i) \in 0 .. 2 ^ c - 1
<1>1. \A k \in Nat, e \in {0, 1} : (2 * k + e) % 2 = e
  OBVIOUS
<1>2. ASSUME NEW k \in Nat, NEW e \in {0, 1}
      PROVE  Sibling(2 * k + e) = 2 * k + (1 - e)
  BY <1>1 DEF Sibling
<1>3. ASSUME NEW i \in Nat
      PROVE  \E k \in Nat, e \in {0, 1} : i = 2 * k + e
  <2>1. i = 2 * (i \div 2) + (i % 2) /\ i \div 2 \in Nat /\ i % 2 \in {0, 1}
    OBVIOUS
  <2> QED
    BY <2>1
<1>4. ASSUME NEW i \in Nat
      PROVE  Sibling(i) \in Nat /\ Sibling(Sibling(i)) = i
  <2>1. PICK k \in Nat, e \in {0, 1} : i = 2 * k + e
    BY <1>3
  <2>2. Sibling(i) = 2 * k + (1 - e)
    BY <1>2, <2>1
  <2>3. 1 - e \in {0, 1} /\ 1 - (1 - e) = e
    OBVIOUS
  <2>4. Sibling(2 * k + (1 - e)) = 2 * k + (1 - (1 - e))
    BY <1>2, <2>3
  <2> QED
    BY <2>1, <2>2, <2>3, <2>4
<1>5. ASSUME NEW c \in 1 .. depth, NEW i \in 0 .. 2 ^ c - 1
      PROVE  Sibling(i) \in 0 .. 2 ^ c - 1
  <2>1. depth \in Nat /\ c - 1 \in 0 .. depth - 1 /\ c - 1 \in 0 .. depth /\ (c - 1) + 1 = c
    BY OpvAssumption
  <2> DEFINE p == 2 ^ (c - 1)
  <2>2. 2 ^ c = 2 * p /\ p \in Nat \ {0}
    BY <2>1, Powers
  <2> HIDE DEF p
  <2>3. i \in Nat
    BY <2>2
  <2>4. PICK k \in Nat, e \in {0, 1} : i = 2 * k + e
    BY <1>3, <2>3
  <2>5. Sibling(i) = 2 * k + (1 - e)
    BY <1>2, <2>4
  <2>6. k < p
    BY <2>2, <2>4
  <2> QED
    BY <2>2, <2>5, <2>6
<1> QED
  BY <1>2, <1>4, <1>5

\* Level c of a tree, with zero for the node above x.
Holed(root, x, c) ==
  [i \in 0 .. 2 ^ c - 1 |-> IF i = Above(x, c) THEN zero_block ELSE Tree(root)[c][i]]

\* The exclusive or of what BOB does know of a side.
Known(Q, c, side) ==
  XorOf([j \in 0 .. 2 ^ c - 1 |->
           IF Q[j] = zero_block THEN zero_block ELSE DLenPRG[Q[j]][side]], 2 ^ c)

\* What the exclusive or of a side leaves of it is the child of the punctured node.
LEMMA Uncovered ==
  ASSUME NEW root \in Block, NEW x \in Row, NEW c \in 1 .. depth - 1, NEW side \in {0, 1},
         \A i \in 0 .. 2 ^ c - 1 : Tree(root)[c][i] # zero_block \/ i = Above(x, c)
  PROVE  Xor(PrepareCorrelation(root)[c][side], Known(Holed(root, x, c), c, side))
         = DLenPRG[Tree(root)[c][Above(x, c)]][side]
<1> DEFINE n == 2 ^ c
           f == Side(root, c, side)
           Q == Holed(root, x, c)
           h == [j \in 0 .. n - 1 |-> IF Q[j] = zero_block THEN zero_block ELSE DLenPRG[Q[j]][side]]
           k == Above(x, c)
<1>1. c \in 0 .. depth - 1 /\ c \in 0 .. depth
  BY OpvAssumption
<1>2. n \in Nat /\ f \in Blocks(n) /\ PrepareCorrelation(root)[c][side] = XorOf(f, n)
  BY <1>1, SideBlocks
<1>3. k \in 0 .. n - 1
  BY <1>1, PathStep
<1>4. \A j \in 0 .. n - 1 : f[j] = DLenPRG[Tree(root)[c][j]][side] /\ f[j] \in Block
  BY <1>2 DEF Side, Blocks
<1>5. \A j \in 0 .. n - 1 : Q[j] = IF j = k THEN zero_block ELSE Tree(root)[c][j]
  BY DEF Holed
<1>6. \A j \in 0 .. n - 1 : h[j] = IF Q[j] = zero_block THEN zero_block ELSE DLenPRG[Q[j]][side]
  OBVIOUS
<1>7. Known(Q, c, side) = XorOf(h, n)
  BY DEF Known
<1>8. h = [j \in 0 .. n - 1 |-> h[j]]
  OBVIOUS
<1> HIDE DEF h, Q, f, k
<1>9. h[k] = zero_block
  BY <1>3, <1>5, <1>6
<1>10. ASSUME NEW j \in 0 .. n - 1, j # k
       PROVE  h[j] = f[j]
  <2>1. Tree(root)[c][j] # zero_block
    BY <1>10 DEF k
  <2> QED
    BY <2>1, <1>4, <1>5, <1>6, <1>10
<1>11. h \in Blocks(n)
  <2>1. \A j \in 0 .. n - 1 : h[j] \in Block
    BY <1>4, <1>9, <1>10, GroupAssumption
  <2> QED
    BY <2>1, <1>8 DEF Blocks
<1>12. XorOf(f, n) = Xor(XorOf(h, n), f[k])
  BY <1>2, <1>3, <1>9, <1>10, <1>11, XorsDrop
<1>13. XorOf(h, n) \in Block /\ f[k] \in Block
  BY <1>2, <1>3, <1>4, <1>11, XorOfBlock
<1>14. Xor(Xor(XorOf(h, n), f[k]), XorOf(h, n)) = f[k]
  <2> DEFINE m == XorOf(h, n)
             y == f[k]
  <2>1. m \in Block /\ y \in Block
    BY <1>13
  <2> HIDE DEF m, y
  <2>2. Xor(m, y) = Xor(y, m)
    BY <2>1, XorAssumption
  <2>3. Xor(Xor(y, m), m) = Xor(y, Xor(m, m))
    BY <2>1, XorAssumption
  <2>4. Xor(m, m) = zero_block /\ Xor(y, zero_block) = y
    BY <2>1, XorAssumption
  <2> QED
    BY <2>2, <2>3, <2>4 DEF m, y
<1> QED
  BY <1>2, <1>3, <1>4, <1>7, <1>12, <1>14 DEF Q, k

\* One turn of the loop takes a level with its hole to the next.
LEMMA NextLevel ==
  ASSUME NEW root \in Block, NEW x \in Row, NEW c \in 1 .. depth - 1,
         \A i \in 0 .. 2 ^ c - 1 : Tree(root)[c][i] # zero_block \/ i = Above(x, c),
         NEW Q, Q = Holed(root, x, c), NEW side, side = Bits(x)[c],
         NEW seed, seed = PrepareCorrelation(root)[c][side],
         NEW i \in 0 .. 2 ^ (c + 1) - 1,
         NEW child, child = (IF Q[i \div 2] = zero_block THEN Pair(side, seed)
                             ELSE DLenPRG[Q[i \div 2]])[i % 2]
  PROVE  (IF i = 2 * Above(x, c) + side THEN Xor(child, Known(Q, c, side)) ELSE child)
         = Holed(root, x, c + 1)[i]
<1> DEFINE k == Above(x, c)
           j == i \div 2
           e == i % 2
           t == Tree(root)
<1>1. c \in 0 .. depth - 1 /\ c \in 0 .. depth
  BY OpvAssumption
<1>2. k \in 0 .. 2 ^ c - 1 /\ side \in {0, 1} /\ Above(x, c + 1) = 2 * k + (1 - side)
  BY <1>1, PathStep
<1>3. j \in 0 .. 2 ^ c - 1 /\ e \in {0, 1} /\ i = 2 * j + e
  BY <1>1, ChildPlace
<1>4. 2 ^ c \in Nat
  BY <1>1, Powers
<1>5. Q[j] = IF j = k THEN zero_block ELSE t[c][j]
  BY <1>3 DEF Holed
<1>6. t[c + 1][i] = DLenPRG[t[c][j]][e]
  <2>1. t[c + 1] = [n \in 0 .. 2 ^ (c + 1) - 1 |-> DLenPRG[t[c][n \div 2]][n % 2]]
    BY <1>1, TreeLevels
  <2> HIDE DEF t
  <2> QED
    BY <2>1
<1>7. Holed(root, x, c + 1)[i] = IF i = Above(x, c + 1) THEN zero_block ELSE t[c + 1][i]
  BY DEF Holed
<1>8. j # k => t[c][j] # zero_block
  BY <1>3
<1>9. Xor(seed, Known(Q, c, side)) = DLenPRG[t[c][k]][side]
  BY <1>2, Uncovered
<1>10. child = (IF Q[j] = zero_block THEN Pair(side, seed) ELSE DLenPRG[Q[j]])[e]
  OBVIOUS
<1> HIDE DEF k, j, e, t
<1>11. CASE j # k
  <2>1. child = DLenPRG[t[c][j]][e]
    BY <1>5, <1>8, <1>10, <1>11
  <2>2. i # 2 * k + side /\ i # Above(x, c + 1)
    BY <1>2, <1>3, <1>4, <1>11
  <2> QED
    BY <2>1, <2>2, <1>6, <1>7 DEF k
<1>12. CASE j = k
  <2>1. child = Pair(side, seed)[e]
    BY <1>5, <1>10, <1>12
  <2>2. child = IF e = side THEN seed ELSE zero_block
    BY <2>1, <1>3 DEF Pair
  <2>3. CASE e = side
    <3>1. i = 2 * k + side /\ i # Above(x, c + 1)
      BY <1>2, <1>3, <1>4, <1>12, <2>3
    <3> QED
      BY <3>1, <2>2, <2>3, <1>6, <1>7, <1>9, <1>12 DEF k
  <2>4. CASE e # side
    <3>1. e = 1 - side
      BY <1>2, <1>3, <2>4
    <3>2. i # 2 * k + side /\ i = Above(x, c + 1)
      BY <1>2, <1>3, <1>4, <1>12, <3>1
    <3> QED
      BY <3>2, <2>2, <2>4, <1>7 DEF k
  <2> QED
    BY <2>3, <2>4
<1> QED
  BY <1>11, <1>12

\* The first layer is the first level with its hole.
LEMMA FirstLevel ==
  ASSUME NEW root \in Block, NEW x \in Row, NEW side, side = Bits(x)[0]
  PROVE  /\ side \in {0, 1} /\ 2 ^ 1 = 2 /\ side = Sibling(Above(x, 1))
         /\ Pair(side, PrepareCorrelation(root)[0][side]) = Holed(root, x, 1)
<1>1. 0 \in 0 .. depth - 1 /\ 0 \in 0 .. depth /\ 2 ^ 0 = 1 /\ 2 ^ (0 + 1) = 2
  BY OpvAssumption, Powers
<1>2. side \in {0, 1} /\ Above(x, 0 + 1) = 2 * Above(x, 0) + (1 - side) /\ Above(x, 0) = 0
  BY <1>1, PathStep
<1>3. Above(x, 1) = 1 - side
  BY <1>2
<1>4. side = Sibling(1 - side)
  <2>1. 1 - side \in {0, 1} /\ 1 - side = 2 * 0 + (1 - side) /\ side = 2 * 0 + (1 - (1 - side))
    BY <1>2
  <2>2. Sibling(2 * 0 + (1 - side)) = 2 * 0 + (1 - (1 - side))
    BY <2>1, Siblings
  <2> QED
    BY <2>1, <2>2
<1>5. PrepareCorrelation(root)[0][side] = Tree(root)[1][side]
  BY <1>2, FirstSeed
<1>6. 0 .. 2 ^ 1 - 1 = {0, 1}
  BY <1>1
<1>7. Holed(root, x, 1) = [i \in {0, 1} |-> IF i = 1 - side THEN zero_block ELSE Tree(root)[1][i]]
  BY <1>3, <1>6 DEF Holed
<1>8. ASSUME NEW i \in {0, 1}
      PROVE  (IF i = side THEN PrepareCorrelation(root)[0][side] ELSE zero_block)
             = IF i = 1 - side THEN zero_block ELSE Tree(root)[1][i]
  <2>1. (i = 1 - side) <=> (i # side)
    BY <1>2
  <2>2. CASE i = side
    BY <2>1, <2>2, <1>5
  <2>3. CASE i # side
    BY <2>1, <2>3
  <2> QED
    BY <2>2, <2>3
<1>9. Pair(side, PrepareCorrelation(root)[0][side])
      = [i \in {0, 1} |-> IF i = side THEN PrepareCorrelation(root)[0][side] ELSE zero_block]
  BY DEF Pair
<1> QED
  BY <1>1, <1>2, <1>3, <1>4, <1>7, <1>8, <1>9

-----------------------------------------------------------------------------
(* The inductive invariant. *)

Begun(s) == IF pc[s] = "setup" THEN row[s] ELSE row[s] + 1
Whole(s) == IF pc[s] \in {"sum", "done"} THEN length ELSE row[s]

\* The transfers keep the parties at the same row.
Lockstep ==
  /\ Begun(ALICE) = Begun(BOB)
  /\ \A s \in {ALICE, BOB} : pc[s] \in {"sum", "done"} => row[s] = length - 1
  /\ pc[ALICE] \notin {"layer", "write"}

\* BOB has the side that his permutation asks for of the row he is at.
Transferred ==
  pc[BOB] \in {"expand", "layer", "write"} =>
     \A c \in 0 .. depth - 1 :
        seeds[c] = PrepareCorrelation(roots[row[BOB]])[c][Bits(perm[row[BOB]])[c]]

Layers ==
  /\ pc[BOB] = "layer" => cur_depth \in 1 .. depth - 1
  /\ pc[BOB] = "write" => cur_depth = depth

Follows ==
  pc[BOB] \in {"layer", "write"} => path = Sibling(Above(perm[row[BOB]], cur_depth))

Rebuilt ==
  pc[BOB] \in {"layer", "write"} /\ NoZero(row[BOB]) =>
     q = Holed(roots[row[BOB]], perm[row[BOB]], cur_depth)

Vectors ==
  /\ \A r \in Row : r < Whole(ALICE) => v[ALICE][r] = Tree(roots[r])[depth]
  /\ \A r \in Row : r < Whole(BOB) /\ NoZero(r) => v[BOB][r] = Holed(roots[r], perm[r], depth)

Totals ==
  /\ pc[ALICE] = "done" => /\ a = [i \in Row |-> ColumnSum(v[ALICE], i)]
                           /\ b = [i \in Row |-> RowSum(v[ALICE], i)]
  /\ pc[BOB] = "done" => delta = [i \in Row |-> Difference(v[BOB], i)]

Inv == TypeOK /\ Lockstep /\ Transferred /\ Layers /\ Follows /\ Rebuilt /\ Vectors /\ Totals

-----------------------------------------------------------------------------
(* The invariant is kept: lemmas about states and steps. *)

\* What the types say, in the form the steps need it.
LEMMA StateFacts ==
  ASSUME TypeOK
  PROVE  /\ \A r \in Row : roots[r] \in Block /\ perm[r] \in Row
         /\ \A s \in {ALICE, BOB} : row[s] \in Row
         /\ Row \subseteq Nat /\ ALICE # BOB
         /\ \A r \in Row : NoZero(r) <=>
               \A c \in 1 .. depth - 1 : \A i \in 0 .. 2 ^ c - 1 :
                  Tree(roots[r])[c][i] # zero_block \/ i = Above(perm[r], c)
<1>1. \A r \in Row : roots[r] \in Block /\ perm[r] \in Row
  BY OpvAssumption DEF TypeOK
<1>2. \A s \in {ALICE, BOB} : row[s] \in Row
  BY DEF TypeOK
<1>3. Row \subseteq Nat /\ ALICE # BOB
  BY Length DEF Row, ALICE, BOB
<1> QED
  BY <1>1, <1>2, <1>3 DEF NoZero, OnPath, Above

\* A row whose root is kept keeps what is said of it.
LEMMA RowKept ==
  ASSUME perm' = perm, NEW r, roots'[r] = roots[r]
  PROVE  /\ (roots[r])' = roots[r] /\ (perm[r])' = perm[r]
         /\ NoZero(r)' <=> NoZero(r)
BY DEF NoZero, OnPath

\* What is said of BOB's level only depends on his own state.
LEMMA BobKept ==
  ASSUME TypeOK, Transferred, Layers, Follows, Rebuilt,
         UNCHANGED <<perm, roots, seeds, cur_depth, q, path>>,
         pc'[BOB] = pc[BOB], row'[BOB] = row[BOB]
  PROVE  Transferred' /\ Layers' /\ Follows' /\ Rebuilt'
<1>1. NoZero(row[BOB])' <=> NoZero(row[BOB])
  BY DEF NoZero, OnPath
<1>2. Transferred'
  BY DEF Transferred
<1>3. Layers'
  BY DEF Layers
<1>4. Follows'
  BY DEF Follows
<1>5. Rebuilt'
  BY <1>1 DEF Rebuilt
<1> QED
  BY <1>2, <1>3, <1>4, <1>5

\* A party that has filled its row is at the next one, or done with them.
LEMMA FillStep ==
  ASSUME TypeOK, NEW s \in {ALICE, BOB}, NEW vec \in [Row -> Block], Filled(s, vec),
         pc[s] \notin {"setup", "sum", "done"}
  PROVE  /\ pc' \in [{ALICE, BOB} -> {"setup", "expand", "layer", "write", "sum", "done"}]
         /\ row' \in [{ALICE, BOB} -> Row]
         /\ v' \in [{ALICE, BOB} -> [Row -> [Row -> Block]]]
         /\ \A o \in {ALICE, BOB} : o # s => pc'[o] = pc[o] /\ row'[o] = row[o] /\ v'[o] = v[o]
         /\ v'[s][row[s]] = vec
         /\ \A r \in Row : r # row[s] => v'[s][r] = v[s][r]
         /\ pc'[s] \in {"setup", "sum"}
         /\ pc'[s] = "sum" => row'[s] = length - 1
         /\ Begun(s)' = Begun(s) /\ Whole(s)' = row[s] + 1
<1>1. row[s] \in 0 .. length - 1 /\ length \in Nat
  BY StateFacts, Length DEF Row
<1>2. /\ pc' = [pc EXCEPT ![s] = IF row[s] + 1 = length THEN "sum" ELSE "setup"]
      /\ row' = [row EXCEPT ![s] = IF row[s] + 1 = length THEN row[s] ELSE row[s] + 1]
      /\ v' = [v EXCEPT ![s][row[s]] = vec]
  BY DEF Filled, Step, TypeOK
<1>3. row'[s] = IF row[s] + 1 = length THEN row[s] ELSE row[s] + 1
  BY <1>2 DEF TypeOK
<1>4. pc'[s] = IF row[s] + 1 = length THEN "sum" ELSE "setup"
  BY <1>2 DEF TypeOK
<1>5. row' \in [{ALICE, BOB} -> Row]
  <2>1. (IF row[s] + 1 = length THEN row[s] ELSE row[s] + 1) \in Row
    BY <1>1 DEF Row
  <2> QED
    BY <1>2, <2>1 DEF TypeOK
<1>6. pc' \in [{ALICE, BOB} -> {"setup", "expand", "layer", "write", "sum", "done"}]
  BY <1>2 DEF TypeOK
<1>7. /\ v' \in [{ALICE, BOB} -> [Row -> [Row -> Block]]]
      /\ v'[s][row[s]] = vec
      /\ \A r \in Row : r # row[s] => v'[s][r] = v[s][r]
  <2>1. row[s] \in Row
    BY StateFacts
  <2> QED
    BY <1>2, <2>1 DEF TypeOK
<1>8. \A o \in {ALICE, BOB} : o # s => pc'[o] = pc[o] /\ row'[o] = row[o] /\ v'[o] = v[o]
  BY <1>2 DEF TypeOK
<1>9. Begun(s)' = Begun(s)
  BY <1>1, <1>3, <1>4 DEF Begun
<1>10. Whole(s)' = row[s] + 1
  BY <1>1, <1>3, <1>4 DEF Whole, length
<1>11. pc'[s] = "sum" => row'[s] = length - 1
  BY <1>1, <1>3, <1>4
<1> QED
  BY <1>4, <1>5, <1>6, <1>7, <1>8, <1>9, <1>10, <1>11

\* The initial states.
LEMMA InitInv == Init => Inv
<1> SUFFICES ASSUME Init
             PROVE  Inv
  OBVIOUS
<1>1. zero_block \in Block /\ Zeros \in [Row -> Block] /\ 0 \in Row /\ depth \in Nat
  BY GroupAssumption, Length, OpvAssumption DEF Zeros
<1>2. /\ pc[ALICE] = "setup" /\ pc[BOB] = "setup" /\ row[ALICE] = 0 /\ row[BOB] = 0
      /\ pc \in [{ALICE, BOB} -> {"setup", "expand", "layer", "write", "sum", "done"}]
      /\ row \in [{ALICE, BOB} -> Row]
  BY <1>1 DEF Init
<1>3. TypeOK
  <2>1. 0 .. 2 ^ 0 - 1 = {0}
    BY Powers
  <2>2. q \in [0 .. 2 ^ cur_depth - 1 -> Block] /\ path \in DOMAIN q /\ cur_depth \in 0 .. depth
    BY <1>1, <2>1 DEF Init
  <2>3. perm \in Perms /\ roots \in [Row -> Block] /\ {a, b, delta} \subseteq [Row -> Block]
    BY <1>1 DEF Init
  <2>4. seeds \in [0 .. depth - 1 -> Block]
    BY <1>1 DEF Init
  <2>5. v \in [{ALICE, BOB} -> [Row -> [Row -> Block]]]
    BY <1>1 DEF Init
  <2> QED
    BY <1>2, <2>2, <2>3, <2>4, <2>5 DEF TypeOK
<1>4. Lockstep
  BY <1>2 DEF Lockstep, Begun
<1>5. Vectors
  BY <1>2, Length DEF Vectors, Whole, Row
<1> QED
  BY <1>2, <1>3, <1>4, <1>5 DEF Inv, Transferred, Layers, Follows, Rebuilt, Totals

\* The transfers hand BOB what Transferred says, and change no row that is filled.
LEMMA SetupKeeps ==
  ASSUME Inv, NEW root \in Roots, OblivSetup(root)
  PROVE  Inv'
<1> DEFINE r0 == row[ALICE]
<1>1. /\ pc[ALICE] = "setup" /\ pc[BOB] = "setup" /\ row[ALICE] = row[BOB]
      /\ r0 \in Row /\ perm[r0] \in Row /\ root \in Block
  BY StateFacts, OpvAssumption DEF Inv, OblivSetup, Lockstep, Begun
<1>2. /\ pc'[ALICE] = "expand" /\ pc'[BOB] = "expand"
      /\ pc' \in [{ALICE, BOB} -> {"setup", "expand", "layer", "write", "sum", "done"}]
  BY DEF OblivSetup
<1>3. roots' = [roots EXCEPT ![r0] = root]
  BY DEF OblivSetup
<1>4. seeds' = [c \in 0 .. depth - 1 |-> PrepareCorrelation(root)[c][Bits(perm[r0])[c]]]
  BY <1>1 DEF OblivSetup
<1>5. UNCHANGED <<perm, row, cur_depth, q, path, v, a, b, delta>>
  BY DEF OblivSetup
<1>6. roots' \in [Row -> Block] /\ roots'[r0] = root /\ \A r \in Row : r # r0 => roots'[r] = roots[r]
  BY <1>1, <1>3 DEF Inv, TypeOK
<1>7. seeds' \in [0 .. depth - 1 -> Block]
  <2>1. ASSUME NEW c \in 0 .. depth - 1
        PROVE  PrepareCorrelation(root)[c][Bits(perm[r0])[c]] \in Block
    <3>1. Bits(perm[r0])[c] \in {0, 1}
      BY <1>1, PathStep
    <3> QED
      BY <1>1, <3>1, SideBlocks
  <2> QED
    BY <1>4, <2>1
<1>8. TypeOK'
  BY <1>2, <1>5, <1>6, <1>7 DEF Inv, TypeOK
<1>9. Lockstep'
  <2>1. row'[ALICE] = row'[BOB]
    BY <1>1, <1>5
  <2>2. \A s \in {ALICE, BOB} : pc'[s] = "expand"
    BY <1>2
  <2> QED
    BY <2>1, <2>2, <1>2 DEF Lockstep, Begun
<1>10. Transferred'
  <2>1. row'[BOB] = r0 /\ perm' = perm
    BY <1>1, <1>5
  <2>2. \A c \in 0 .. depth - 1 : seeds'[c] = PrepareCorrelation(root)[c][Bits(perm[r0])[c]]
    BY <1>4
  <2> QED
    BY <2>1, <2>2, <1>6 DEF Transferred
<1>11. Vectors'
  <2>1. \A s \in {ALICE, BOB} : Whole(s)' = row[s] /\ Whole(s) = row[s] /\ row[s] = r0
    BY <1>1, <1>2, <1>5 DEF Whole
  <2>2. ASSUME NEW r \in Row, r < r0
        PROVE  roots'[r] = roots[r] /\ (NoZero(r)' <=> NoZero(r))
    <3>1. r # r0
      BY <1>1, <2>2, StateFacts DEF Inv
    <3>2. roots'[r] = roots[r] /\ perm' = perm
      BY <1>5, <1>6, <3>1
    <3> QED
      BY <3>2, RowKept
  <2>3. v' = v /\ perm' = perm
    BY <1>5
  <2> QED
    BY <2>1, <2>2, <2>3 DEF Inv, Vectors
<1> QED
  BY <1>2, <1>8, <1>9, <1>10, <1>11 DEF Inv, Layers, Follows, Rebuilt, Totals

\* ALICE's vector is the last level of the tree.
LEMMA AliceFills ==
  ASSUME Inv, SimpleExpand
  PROVE  Inv'
<1> DEFINE r0 == row[ALICE]
           vec == Tree(roots[r0])[depth]
<1>1. pc[ALICE] = "expand" /\ Filled(ALICE, vec) /\ TypeOK
  BY DEF SimpleExpand, Inv
<1>2. UNCHANGED <<perm, roots, seeds, cur_depth, q, path, a, b, delta>>
  BY DEF SimpleExpand
<1>3. r0 \in Row /\ roots[r0] \in Block /\ ALICE # BOB
  BY <1>1, StateFacts
<1>4. vec \in [Row -> Block]
  <2>1. depth \in 0 .. depth
    BY OpvAssumption
  <2> QED
    BY <1>3, <2>1, TreeLevels, Length DEF Nodes
<1> HIDE DEF vec
<1>5. /\ pc' \in [{ALICE, BOB} -> {"setup", "expand", "layer", "write", "sum", "done"}]
      /\ row' \in [{ALICE, BOB} -> Row]
      /\ v' \in [{ALICE, BOB} -> [Row -> [Row -> Block]]]
      /\ pc'[BOB] = pc[BOB] /\ row'[BOB] = row[BOB] /\ v'[BOB] = v[BOB]
      /\ v'[ALICE][r0] = vec
      /\ \A r \in Row : r # r0 => v'[ALICE][r] = v[ALICE][r]
      /\ pc'[ALICE] \in {"setup", "sum"}
      /\ pc'[ALICE] = "sum" => row'[ALICE] = length - 1
      /\ Begun(ALICE)' = Begun(ALICE) /\ Whole(ALICE)' = r0 + 1
  BY <1>1, <1>3, <1>4, FillStep
<1>6. TypeOK'
  BY <1>1, <1>2, <1>5 DEF TypeOK
<1>7. Lockstep'
  <2>1. Begun(BOB)' = Begun(BOB)
    BY <1>5 DEF Begun
  <2> QED
    BY <1>5, <2>1 DEF Lockstep, Inv
<1>8. Transferred' /\ Layers' /\ Follows' /\ Rebuilt'
  BY <1>1, <1>2, <1>5, BobKept DEF Inv
<1>9. Vectors'
  <2>1. \A r \in Row : NoZero(r)' <=> NoZero(r)
    BY <1>2 DEF NoZero, OnPath
  <2>2. Whole(BOB)' = Whole(BOB) /\ Whole(ALICE) = r0
    BY <1>1, <1>5 DEF Whole
  <2>3. ASSUME NEW r \in Row, r < r0 + 1
        PROVE  v'[ALICE][r] = Tree(roots[r])[depth]
    <3>1. CASE r = r0
      BY <3>1, <1>5 DEF vec
    <3>2. CASE r # r0
      <4>1. r < r0
        BY <2>3, <3>2, <1>1, <1>3, StateFacts
      <4> QED
        BY <4>1, <3>2, <2>2, <1>5 DEF Inv, Vectors
    <3> QED
      BY <3>1, <3>2
  <2>4. \A r \in Row : r < Whole(ALICE)' => v'[ALICE][r] = Tree(roots'[r])[depth]
    BY <2>3, <1>2, <1>5
  <2>5. \A r \in Row : r < Whole(BOB)' /\ NoZero(r)' =>
                          v'[BOB][r] = Holed(roots'[r], perm'[r], depth)
    BY <2>1, <2>2, <1>2, <1>5 DEF Inv, Vectors
  <2> QED
    BY <2>4, <2>5 DEF Vectors
<1>10. Totals'
  BY <1>2, <1>5 DEF Inv, Totals, Difference
<1> QED
  BY <1>6, <1>7, <1>8, <1>9, <1>10 DEF Inv

\* A step of BOB alone that fills no row.
LEMMA BobMoves ==
  ASSUME Inv, UNCHANGED <<perm, row, roots, v, a, b, delta>>,
         pc[BOB] \in {"expand", "layer"}, NEW l \in {"layer", "write"}, Step(BOB, l)
  PROVE  /\ pc' \in [{ALICE, BOB} -> {"setup", "expand", "layer", "write", "sum", "done"}]
         /\ pc'[BOB] = l /\ Lockstep' /\ Vectors' /\ Totals'
         /\ NoZero(row[BOB])' <=> NoZero(row[BOB])
<1>1. TypeOK /\ ALICE # BOB
  BY StateFacts DEF Inv
<1>2. /\ pc' \in [{ALICE, BOB} -> {"setup", "expand", "layer", "write", "sum", "done"}]
      /\ pc'[BOB] = l /\ pc'[ALICE] = pc[ALICE]
  BY <1>1 DEF Step, TypeOK
<1>3. \A r : NoZero(r)' <=> NoZero(r)
  BY DEF NoZero, OnPath
<1>4. \A s \in {ALICE, BOB} : Begun(s)' = Begun(s) /\ Whole(s)' = Whole(s)
  BY <1>2 DEF Begun, Whole
<1>5. Lockstep'
  BY <1>2, <1>4 DEF Inv, Lockstep
<1>6. Vectors'
  BY <1>3, <1>4 DEF Inv, Vectors
<1>7. Totals'
  BY <1>2 DEF Inv, Totals, Difference
<1> QED
  BY <1>2, <1>3, <1>5, <1>6, <1>7

\* BOB's first layer is the first level with its hole.
LEMMA RootKeeps ==
  ASSUME Inv, PunctureRoot
  PROVE  Inv'
<1> DEFINE r0 == row[BOB]
           root == roots[r0]
           x == perm[r0]
           side == Bits(x)[0]
           l == IF depth = 1 THEN "write" ELSE "layer"
<1>1. /\ TypeOK /\ pc[BOB] = "expand" /\ Step(BOB, l)
      /\ q' = Pair(side, seeds[0]) /\ path' = side /\ cur_depth' = 1
      /\ UNCHANGED <<perm, row, roots, seeds, v, a, b, delta>>
  BY DEF PunctureRoot, bits, Inv
<1>2. r0 \in Row /\ root \in Block /\ x \in Row /\ depth \in Nat \ {0}
  BY <1>1, StateFacts, OpvAssumption
<1>3. seeds[0] = PrepareCorrelation(root)[0][side] /\ seeds[0] \in Block
  <2>1. 0 \in 0 .. depth - 1
    BY <1>2
  <2> QED
    BY <1>1, <2>1 DEF Inv, Transferred, TypeOK
<1>4. /\ pc' \in [{ALICE, BOB} -> {"setup", "expand", "layer", "write", "sum", "done"}]
      /\ pc'[BOB] = l /\ Lockstep' /\ Vectors' /\ Totals'
  BY <1>1, BobMoves
<1>5. /\ side \in {0, 1} /\ 0 .. 2 ^ 1 - 1 = {0, 1} /\ side = Sibling(Above(x, 1))
      /\ Pair(side, PrepareCorrelation(root)[0][side]) = Holed(root, x, 1)
  <2>1. /\ side \in {0, 1} /\ 2 ^ 1 = 2 /\ side = Sibling(Above(x, 1))
        /\ Pair(side, PrepareCorrelation(root)[0][side]) = Holed(root, x, 1)
    BY <1>2, FirstLevel
  <2> QED
    BY <2>1
<1>6. TypeOK'
  <2>1. q' \in [{0, 1} -> Block]
    BY <1>1, <1>3, GroupAssumption DEF Pair
  <2>2. q' \in [0 .. 2 ^ cur_depth' - 1 -> Block] /\ path' \in DOMAIN q'
    BY <2>1, <1>1, <1>5
  <2>3. cur_depth' \in 0 .. depth
    BY <1>1, <1>2
  <2> QED
    BY <2>2, <2>3, <1>1, <1>4 DEF TypeOK
<1>7. Transferred'
  BY <1>1 DEF Inv, Transferred
<1>8. Layers'
  BY <1>1, <1>2, <1>4 DEF Layers
<1>9. Follows'
  BY <1>1, <1>5 DEF Follows
<1>10. Rebuilt'
  BY <1>1, <1>3, <1>5 DEF Rebuilt
<1> QED
  BY <1>4, <1>6, <1>7, <1>8, <1>9, <1>10 DEF Inv

\* A turn of his loop: types, the path and the queue at the next level.
LEMMA LayerKeeps ==
  ASSUME Inv, PunctureLayer
  PROVE  Inv'
<1> DEFINE r0 == row[BOB]
           root == roots[r0]
           x == perm[r0]
           c == cur_depth
           side == Bits(x)[c]
           l == IF c + 1 < depth THEN "layer" ELSE "write"
           child(i) == (IF q[i \div 2] = zero_block THEN Pair(side, seeds[c])
                        ELSE DLenPRG[q[i \div 2]])[i % 2]
           mask == Known(q, c, side)
<1>1. /\ TypeOK /\ pc[BOB] = "layer" /\ Step(BOB, l)
      /\ path' = 2 * Sibling(path) + side /\ cur_depth' = c + 1
      /\ UNCHANGED <<perm, row, roots, seeds, v, a, b, delta>>
  BY DEF PunctureLayer, NextPath, bits, Inv
<1>2. /\ r0 \in Row /\ root \in Block /\ x \in Row /\ depth \in Nat \ {0}
      /\ c \in 1 .. depth - 1 /\ c \in 0 .. depth - 1 /\ c \in 0 .. depth /\ c + 1 \in 0 .. depth
  BY <1>1, StateFacts, OpvAssumption DEF Inv, Layers
<1>3. seeds[c] = PrepareCorrelation(root)[c][side] /\ seeds[c] \in Block
  BY <1>1, <1>2 DEF Inv, Transferred, TypeOK
<1>4. /\ side \in {0, 1} /\ Above(x, c + 1) = 2 * Above(x, c) + (1 - side)
      /\ Above(x, c) \in 0 .. 2 ^ c - 1
  BY <1>2, PathStep
<1>5. 2 ^ c \in Nat \ {0} /\ 2 ^ (c + 1) = 2 * 2 ^ c
  BY <1>2, Powers
<1>6. q \in [0 .. 2 ^ c - 1 -> Block] /\ DOMAIN q = 0 .. 2 ^ c - 1
  BY <1>1 DEF TypeOK
<1>7. path = Sibling(Above(x, c)) /\ Sibling(path) = Above(x, c)
  <2>1. Above(x, c) \in Nat
    BY <1>4, <1>5
  <2>2. path = Sibling(Above(x, c))
    BY <1>1 DEF Inv, Follows
  <2> QED
    BY <2>1, <2>2, Siblings
<1>8. AggMask = mask
  BY <1>6 DEF AggMask, CheckOnPath, Known, bits
<1>9. q' = [i \in 0 .. 2 ^ (c + 1) - 1 |-> IF i = path' THEN Xor(child(i), mask) ELSE child(i)]
  BY <1>8 DEF PunctureLayer, Children, CheckOnPath, bits
<1>10. /\ pc' \in [{ALICE, BOB} -> {"setup", "expand", "layer", "write", "sum", "done"}]
       /\ pc'[BOB] = l /\ Lockstep' /\ Vectors' /\ Totals'
       /\ NoZero(r0)' <=> NoZero(r0)
  BY <1>1, BobMoves
<1>11. mask \in Block
  <2> DEFINE h == [j \in 0 .. 2 ^ c - 1 |->
                     IF q[j] = zero_block THEN zero_block ELSE DLenPRG[q[j]][side]]
  <2>1. h \in Blocks(2 ^ c)
    BY <1>4, <1>6, Expands, GroupAssumption DEF Blocks
  <2>2. mask = XorOf(h, 2 ^ c)
    BY DEF Known
  <2> HIDE DEF h, mask
  <2> QED
    BY <2>1, <2>2, <1>5, XorOfBlock
<1>12. ASSUME NEW i \in 0 .. 2 ^ (c + 1) - 1
       PROVE  child(i) \in Block
  <2>1. i \div 2 \in 0 .. 2 ^ c - 1 /\ i % 2 \in {0, 1}
    BY <1>2, ChildPlace
  <2>2. q[i \div 2] \in Block
    BY <2>1, <1>6
  <2>3. DLenPRG[q[i \div 2]][i % 2] \in Block
    BY <2>1, <2>2, Expands
  <2>4. Pair(side, seeds[c])[i % 2] \in Block
    BY <2>1, <1>3, GroupAssumption DEF Pair
  <2> QED
    BY <2>3, <2>4
<1> HIDE DEF mask, child
<1>13. TypeOK'
  <2>1. q' \in [0 .. 2 ^ (c + 1) - 1 -> Block]
    <3>1. \A i \in 0 .. 2 ^ (c + 1) - 1 : Xor(child(i), mask) \in Block
      BY <1>11, <1>12, XorAssumption
    <3> QED
      BY <3>1, <1>9, <1>12
  <2>2. path' \in 0 .. 2 ^ (c + 1) - 1
    <3> DEFINE p == 2 ^ c
               k == Above(x, c)
    <3>1. k \in 0 .. p - 1 /\ p \in Nat \ {0} /\ 2 ^ (c + 1) = 2 * p /\ path' = 2 * k + side
      BY <1>1, <1>4, <1>5, <1>7
    <3> HIDE DEF p, k, side, c
    <3> QED
      BY <3>1, <1>4
  <2>3. DOMAIN q' = 0 .. 2 ^ (c + 1) - 1
    BY <2>1
  <2> QED
    BY <2>1, <2>2, <2>3, <1>1, <1>2, <1>10 DEF TypeOK
<1>14. Transferred'
  BY <1>1 DEF Inv, Transferred
<1>15. Layers'
  <2>1. (pc[BOB])' = l /\ l = IF c + 1 < depth THEN "layer" ELSE "write"
    BY <1>10
  <2> QED
    BY <2>1, <1>1, <1>2 DEF Layers
<1>16. Follows'
  <2>1. Sibling(2 * Above(x, c) + (1 - side)) = 2 * Above(x, c) + side
    <3>1. Above(x, c) \in Nat /\ 1 - side \in {0, 1} /\ 1 - (1 - side) = side
      BY <1>4, <1>5
    <3>2. Sibling(2 * Above(x, c) + (1 - side)) = 2 * Above(x, c) + (1 - (1 - side))
      BY <3>1, Siblings
    <3> QED
      BY <3>1, <3>2
  <2> QED
    BY <2>1, <1>1, <1>4, <1>7 DEF Follows
<1>17. Rebuilt'
  <2> SUFFICES ASSUME NoZero(r0)
               PROVE  q' = Holed(root, x, c + 1)
    BY <1>1, <1>10 DEF Rebuilt
  <2>1. q = Holed(root, x, c)
    BY <1>1 DEF Inv, Rebuilt
  <2>2. \A i \in 0 .. 2 ^ c - 1 : Tree(root)[c][i] # zero_block \/ i = Above(x, c)
    BY <1>1, <1>2, StateFacts
  <2>3. ASSUME NEW i \in 0 .. 2 ^ (c + 1) - 1
        PROVE  (IF i = path' THEN Xor(child(i), mask) ELSE child(i)) = Holed(root, x, c + 1)[i]
    <3>1. path' = 2 * Above(x, c) + side
      BY <1>1, <1>7
    <3> HIDE DEF root, x, side, c
    <3>2. (IF i = 2 * Above(x, c) + side THEN Xor(child(i), Known(q, c, side)) ELSE child(i))
          = Holed(root, x, c + 1)[i]
      BY <1>2, <1>3, <2>1, <2>2, NextLevel DEF child, side
    <3> QED
      BY <3>1, <3>2 DEF mask
  <2>4. Holed(root, x, c + 1) = [i \in 0 .. 2 ^ (c + 1) - 1 |-> Holed(root, x, c + 1)[i]]
    BY DEF Holed
  <2> QED
    BY <1>9, <2>3, <2>4
<1> QED
  BY <1>10, <1>13, <1>14, <1>15, <1>16, <1>17 DEF Inv

\* BOB's vector is the last level with its hole.
LEMMA BobFills ==
  ASSUME Inv, PunctureExpand
  PROVE  Inv'
<1> DEFINE r0 == row[BOB]
<1>1. pc[BOB] = "write" /\ Filled(BOB, q) /\ TypeOK
  BY DEF PunctureExpand, Inv
<1>2. UNCHANGED <<perm, roots, seeds, cur_depth, q, path, a, b, delta>>
  BY DEF PunctureExpand
<1>3. r0 \in Row /\ ALICE # BOB
  BY <1>1, StateFacts
<1>4. q \in [Row -> Block] /\ cur_depth = depth
  BY <1>1, Length DEF Inv, Layers, TypeOK
<1>5. /\ pc' \in [{ALICE, BOB} -> {"setup", "expand", "layer", "write", "sum", "done"}]
      /\ row' \in [{ALICE, BOB} -> Row]
      /\ v' \in [{ALICE, BOB} -> [Row -> [Row -> Block]]]
      /\ pc'[ALICE] = pc[ALICE] /\ row'[ALICE] = row[ALICE] /\ v'[ALICE] = v[ALICE]
      /\ v'[BOB][r0] = q
      /\ \A r \in Row : r # r0 => v'[BOB][r] = v[BOB][r]
      /\ pc'[BOB] \in {"setup", "sum"}
      /\ pc'[BOB] = "sum" => row'[BOB] = length - 1
      /\ Begun(BOB)' = Begun(BOB) /\ Whole(BOB)' = r0 + 1
  BY <1>1, <1>3, <1>4, FillStep
<1>6. TypeOK'
  BY <1>1, <1>2, <1>5 DEF TypeOK
<1>7. Lockstep'
  <2>1. Begun(ALICE)' = Begun(ALICE)
    BY <1>5 DEF Begun
  <2> QED
    BY <1>5, <2>1 DEF Lockstep, Inv
<1>8. Transferred' /\ Layers' /\ Follows' /\ Rebuilt'
  BY <1>5 DEF Transferred, Layers, Follows, Rebuilt
<1>9. Vectors'
  <2>1. \A r \in Row : NoZero(r)' <=> NoZero(r)
    BY <1>2 DEF NoZero, OnPath
  <2>2. Whole(ALICE)' = Whole(ALICE) /\ Whole(BOB) = r0
    BY <1>1, <1>5 DEF Whole
  <2>3. ASSUME NEW r \in Row, r < r0 + 1, NoZero(r)
        PROVE  v'[BOB][r] = Holed(roots[r], perm[r], depth)
    <3>1. CASE r = r0
      BY <2>3, <3>1, <1>1, <1>4, <1>5 DEF Inv, Rebuilt
    <3>2. CASE r # r0
      <4>1. r < r0
        BY <2>3, <3>2, <1>1, <1>3, StateFacts
      <4> QED
        BY <2>3, <4>1, <3>2, <2>2, <1>5 DEF Inv, Vectors
    <3> QED
      BY <3>1, <3>2
  <2>4. \A r \in Row : r < Whole(ALICE)' => v'[ALICE][r] = Tree(roots'[r])[depth]
    BY <2>2, <1>2, <1>5 DEF Inv, Vectors
  <2>5. \A r \in Row : r < Whole(BOB)' /\ NoZero(r)' =>
                          v'[BOB][r] = Holed(roots'[r], perm'[r], depth)
    BY <2>1, <2>3, <1>2, <1>5
  <2> QED
    BY <2>4, <2>5 DEF Vectors
<1>10. Totals'
  BY <1>2, <1>5 DEF Inv, Totals
<1> QED
  BY <1>6, <1>7, <1>8, <1>9, <1>10 DEF Inv

\* A sum over the rows is a block.
LEMMA SumOfBlock ==
  ASSUME NEW f \in [Row -> Block]
  PROVE  SumOf(f) \in Block
<1>1. length \in Nat /\ f \in Blocks(length) /\ length \in 0 .. length
  BY Length DEF Blocks, Row
<1> QED
  BY <1>1, SumWalk DEF SumOf, Walk

\* The sums of ShareTranslation are blocks.
LEMMA SumsTyped ==
  ASSUME TypeOK
  PROVE  /\ \A s \in {ALICE, BOB}, i, j \in Row : v[s][i][j] \in Block
         /\ \A s \in {ALICE, BOB}, i \in Row :
               /\ [j \in Row |-> v[s][j][i]] \in [Row -> Block]
               /\ ColumnSum(v[s], i) \in Block /\ RowSum(v[s], i) \in Block
         /\ \A i \in Row : Difference(v[BOB], i) \in Block
<1>1. \A s \in {ALICE, BOB}, i, j \in Row : v[s][i][j] \in Block
  BY DEF TypeOK
<1>2. ASSUME NEW s \in {ALICE, BOB}, NEW i \in Row
      PROVE  /\ [j \in Row |-> v[s][j][i]] \in [Row -> Block]
             /\ ColumnSum(v[s], i) \in Block /\ RowSum(v[s], i) \in Block
  <2>1. [j \in Row |-> v[s][j][i]] \in [Row -> Block]
    BY <1>1
  <2>2. v[s][i] \in [Row -> Block]
    BY DEF TypeOK
  <2> QED
    BY <2>1, <2>2, SumOfBlock DEF ColumnSum, RowSum
<1>3. ASSUME NEW i \in Row
      PROVE  Difference(v[BOB], i) \in Block
  <2>1. perm[i] \in Row
    BY StateFacts
  <2>2. ASSUME NEW j \in Row
        PROVE  Sub(v[BOB][i][j], v[BOB][j][perm[i]]) \in Block
    BY <1>1, <2>1, GroupAssumption
  <2>3. [j \in Row |-> Sub(v[BOB][i][j], v[BOB][j][perm[i]])] \in [Row -> Block]
    BY <2>2
  <2> QED
    BY <2>3, SumOfBlock DEF Difference
<1> QED
  BY <1>1, <1>2, <1>3

\* A party that sums up keeps its vectors and its rows.
LEMMA PartySums ==
  ASSUME Inv, NEW s \in {ALICE, BOB}, pc[s] = "sum", Step(s, "done"),
         UNCHANGED <<perm, row, roots, seeds, cur_depth, q, path, v>>
  PROVE  /\ pc' \in [{ALICE, BOB} -> {"setup", "expand", "layer", "write", "sum", "done"}]
         /\ pc'[s] = "done" /\ \A o \in {ALICE, BOB} : o # s => pc'[o] = pc[o]
         /\ Lockstep' /\ Transferred' /\ Layers' /\ Follows' /\ Rebuilt' /\ Vectors'
<1>1. /\ pc' \in [{ALICE, BOB} -> {"setup", "expand", "layer", "write", "sum", "done"}]
      /\ pc'[s] = "done" /\ \A o \in {ALICE, BOB} : o # s => pc'[o] = pc[o]
  BY DEF Step, Inv, TypeOK
<1>2. \A o \in {ALICE, BOB} : Begun(o)' = Begun(o) /\ Whole(o)' = Whole(o)
  BY <1>1 DEF Begun, Whole
<1>3. \A r : NoZero(r)' <=> NoZero(r)
  BY DEF NoZero, OnPath
<1>4. Lockstep'
  BY <1>1, <1>2 DEF Inv, Lockstep
<1>5. Vectors'
  BY <1>2, <1>3 DEF Inv, Vectors
<1>6. pc'[BOB] \in {"expand", "layer", "write"} => pc'[BOB] = pc[BOB]
  BY <1>1
<1>7. Transferred' /\ Layers' /\ Follows' /\ Rebuilt'
  <2>1. Transferred'
    BY <1>6 DEF Inv, Transferred
  <2>2. Layers'
    BY <1>6 DEF Inv, Layers
  <2>3. Follows'
    BY <1>6 DEF Inv, Follows
  <2>4. Rebuilt'
    BY <1>3, <1>6 DEF Inv, Rebuilt
  <2> QED
    BY <2>1, <2>2, <2>3, <2>4
<1> QED
  BY <1>1, <1>4, <1>5, <1>7

\* ALICE's sums of columns and rows.
LEMMA AliceSums ==
  ASSUME Inv, SumAlice
  PROVE  Inv'
<1>1. /\ TypeOK /\ pc[ALICE] = "sum" /\ Step(ALICE, "done") /\ ALICE # BOB
      /\ UNCHANGED <<perm, row, roots, seeds, cur_depth, q, path, v, delta>>
      /\ a' = [i \in Row |-> ColumnSum(v[ALICE], i)]
      /\ b' = [i \in Row |-> RowSum(v[ALICE], i)]
  BY StateFacts DEF SumAlice, Inv
<1>2. /\ pc' \in [{ALICE, BOB} -> {"setup", "expand", "layer", "write", "sum", "done"}]
      /\ pc'[ALICE] = "done" /\ pc'[BOB] = pc[BOB]
      /\ Lockstep' /\ Transferred' /\ Layers' /\ Follows' /\ Rebuilt' /\ Vectors'
  BY <1>1, PartySums
<1>3. a' \in [Row -> Block] /\ b' \in [Row -> Block]
  BY <1>1, SumsTyped
<1>4. TypeOK'
  BY <1>1, <1>2, <1>3 DEF TypeOK
<1>5. Totals'
  BY <1>1, <1>2 DEF Inv, Totals, Difference
<1> QED
  BY <1>2, <1>4, <1>5 DEF Inv

\* BOB's sums of differences.
LEMMA BobSums ==
  ASSUME Inv, SumBob
  PROVE  Inv'
<1>1. /\ TypeOK /\ pc[BOB] = "sum" /\ Step(BOB, "done") /\ ALICE # BOB
      /\ UNCHANGED <<perm, row, roots, seeds, cur_depth, q, path, v, a, b>>
      /\ delta' = [i \in Row |-> Difference(v[BOB], i)]
  BY StateFacts DEF SumBob, Inv
<1>2. /\ pc' \in [{ALICE, BOB} -> {"setup", "expand", "layer", "write", "sum", "done"}]
      /\ pc'[BOB] = "done" /\ pc'[ALICE] = pc[ALICE]
      /\ Lockstep' /\ Transferred' /\ Layers' /\ Follows' /\ Rebuilt' /\ Vectors'
  BY <1>1, PartySums
<1>3. delta' \in [Row -> Block]
  BY <1>1, SumsTyped
<1>4. TypeOK'
  BY <1>1, <1>2, <1>3 DEF TypeOK
<1>5. Totals'
  <2>1. \A i \in Row : Difference(v[BOB], i)' = Difference(v[BOB], i)
    BY <1>1 DEF Difference
  <2> QED
    BY <2>1, <1>1, <1>2 DEF Inv, Totals
<1> QED
  BY <1>2, <1>4, <1>5 DEF Inv

\* Inv holds initially and every step keeps it.
THEOREM InvInductive == Spec => []Inv
<1>1. Init => Inv
  BY InitInv
<1>2. Inv /\ [Next]_vars => Inv'
  <2> SUFFICES ASSUME Inv, [Next]_vars
               PROVE  Inv'
    OBVIOUS
  <2>1. CASE \E root \in Roots : OblivSetup(root)
    BY <2>1, SetupKeeps
  <2>2. CASE SimpleExpand
    BY <2>2, AliceFills
  <2>3. CASE SumAlice
    BY <2>3, AliceSums
  <2>4. CASE PunctureRoot
    BY <2>4, RootKeeps
  <2>5. CASE PunctureLayer
    BY <2>5, LayerKeeps
  <2>6. CASE PunctureExpand
    BY <2>6, BobFills
  <2>7. CASE SumBob
    BY <2>7, BobSums
  <2>8. CASE UNCHANGED vars
    <3>1. TypeOK' /\ Lockstep' /\ Totals'
      BY <2>8 DEF vars, Inv, TypeOK, Lockstep, Begun, Totals, Difference
    <3>2. Transferred' /\ Layers' /\ Follows' /\ Rebuilt'
      BY <2>8, BobKept DEF vars, Inv
    <3>3. Vectors'
      BY <2>8 DEF vars, Inv, Vectors, Whole, NoZero, OnPath
    <3> QED
      BY <3>1, <3>2, <3>3 DEF Inv
  <2> QED
    BY <2>1, <2>2, <2>3, <2>4, <2>5, <2>6, <2>7, <2>8 DEF Next
<1> QED
  BY <1>1, <1>2, PTL DEF Spec

\* Every variable keeps its type; the queue always has as many nodes as its level, and
\* the place that is corrected is one of them.
THEOREM TypeCorrect == Spec => []TypeOK
<1>1. Inv => TypeOK
  BY DEF Inv
<1> QED
  BY <1>1, InvInductive, PTL

\* For every depth and generator, after every layer of PunctureExpand: BOB's queue is
\* that level of ALICE's tree but for the one node on the path, and the seed he has
\* corrected is its sibling, unless a seed he met was zero by itself.
THEOREM QueueFollows == Spec => []QueueIsPuncturedLevel
<1>1. Inv => QueueIsPuncturedLevel
  <2> SUFFICES ASSUME Inv, pc[BOB] \in {"layer", "write"}, NoZero(row[BOB]), NEW i \in DOMAIN q
               PROVE  /\ q[i] = IF OnPath(row[BOB], cur_depth, i) THEN zero_block
                                ELSE Tree(roots[row[BOB]])[cur_depth][i]
                      /\ i = path <=> OnPath(row[BOB], cur_depth, Sibling(i))
    BY DEF QueueIsPuncturedLevel
  <2> DEFINE x == perm[row[BOB]]
             c == cur_depth
             k == Above(x, c)
  <2>1. c \in 0 .. depth /\ 2 ^ c \in Nat /\ DOMAIN q = 0 .. 2 ^ c - 1
    BY Powers DEF Inv, TypeOK
  <2>2. k \in 0 .. 2 ^ c - 1
    BY <2>1, StateFacts, PathStep DEF Inv
  <2>3. q = Holed(roots[row[BOB]], x, c)
    BY DEF Inv, Rebuilt
  <2>4. q[i] = IF i = k THEN zero_block ELSE Tree(roots[row[BOB]])[c][i]
    BY <2>1, <2>3 DEF Holed
  <2>5. \A j : OnPath(row[BOB], c, j) <=> j = k
    BY DEF OnPath, Above
  <2>6. path = Sibling(k)
    BY DEF Inv, Follows
  <2>7. Sibling(Sibling(k)) = k /\ Sibling(Sibling(i)) = i
    BY <2>1, <2>2, Siblings
  <2> HIDE DEF k, c
  <2>8. i = path <=> Sibling(i) = k
    BY <2>6, <2>7
  <2> QED
    BY <2>4, <2>5, <2>8 DEF c
<1> QED
  BY <1>1, InvInductive, PTL

\* For every length and permutation: what ShareTranslation leaves at BOB is the row sums
\* of ALICE less her permuted column sums, though he lacks an entry of every row: the
\* entry that a row sum lacks is the one the column sum taken from it lacks.
THEOREM DeltaCorrelates == Spec => []Correlated
<1>1. Inv => Correlated
  <2> SUFFICES ASSUME Inv, Done, \A r \in Row : NoZero(r), NEW i \in Row
               PROVE  delta[i] = Sub(b[i], a[perm[i]])
    BY DEF Correlated
  <2> DEFINE A == v[ALICE]
             B == v[BOB]
             p == perm[i]
             gain == A[i][p]
             own == B[i]
             col == [j \in Row |-> B[j][p]]
             whole == [j \in Row |-> A[j][p]]
  <2>1. /\ TypeOK /\ pc[ALICE] = "done" /\ pc[BOB] = "done" /\ p \in Row
        /\ length \in Nat /\ Row = 0 .. length - 1
    BY StateFacts, Length DEF Inv, Done, Row
  <2>2. \A s \in {ALICE, BOB}, j, k \in Row : v[s][j][k] \in Block
    BY <2>1, SumsTyped
  <2>3. \A j, k \in Row : A[j][k] \in Block /\ B[j][k] \in Block
    BY <2>2
  <2>4. \A j, k \in Row : B[j][k] = IF k = perm[j] THEN zero_block ELSE A[j][k]
    <3> SUFFICES ASSUME NEW j \in Row, NEW k \in Row
                 PROVE  B[j][k] = IF k = perm[j] THEN zero_block ELSE A[j][k]
      OBVIOUS
    <3>1. j < Whole(ALICE) /\ j < Whole(BOB)
      BY <2>1 DEF Whole
    <3>2. A[j] = Tree(roots[j])[depth] /\ B[j] = Holed(roots[j], perm[j], depth)
      BY <3>1 DEF Inv, Vectors
    <3>3. Above(perm[j], depth) = perm[j]
      BY <2>1, StateFacts, PathStep
    <3>4. k \in 0 .. 2 ^ depth - 1
      BY Length
    <3>5. B[j][k] = IF k = Above(perm[j], depth) THEN zero_block ELSE Tree(roots[j])[depth][k]
      BY <3>2, <3>4 DEF Holed
    <3> QED
      BY <3>2, <3>3, <3>5
  <2>5. /\ A[i] \in Blocks(length) /\ own \in Blocks(length)
        /\ whole \in Blocks(length) /\ col \in Blocks(length)
    BY <2>1, <2>3 DEF Blocks, TypeOK
  <2>6. SumOf(A[i]) = Add(SumOf(own), gain)
    <3>1. own[p] = zero_block /\ \A j \in Row : j # p => own[j] = A[i][j]
      BY <2>1, <2>4
    <3> HIDE DEF A, own, p
    <3> QED
      BY <3>1, <2>1, <2>5, SumsDrop DEF SumOf, gain
  <2>7. SumOf(whole) = Add(SumOf(col), gain)
    <3>1. \A j \in Row : perm[j] = p => j = i
      BY <2>1, OpvAssumption DEF TypeOK
    <3>2. col[i] = zero_block /\ \A j \in Row : j # i => col[j] = whole[j]
      BY <3>1, <2>1, <2>4
    <3>3. whole[i] = gain
      OBVIOUS
    <3> HIDE DEF whole, col, gain
    <3> QED
      BY <3>2, <3>3, <2>1, <2>5, SumsDrop DEF SumOf
  <2>8. Difference(B, i) = Sub(SumOf(own), SumOf(col))
    <3>1. \A j \in Row : col[j] = B[j][p]
      OBVIOUS
    <3>2. Difference(B, i) = SumOf([j \in Row |-> Sub(own[j], col[j])])
      BY <3>1 DEF Difference
    <3> HIDE DEF own, col, B
    <3> QED
      BY <3>2, <2>1, <2>5, SumsOfDifferences DEF SumOf
  <2>9. delta[i] = Difference(B, i) /\ b[i] = SumOf(A[i]) /\ a[p] = SumOf(whole)
    BY <2>1 DEF Inv, Totals, ColumnSum, RowSum
  <2>10. SumOf(own) \in Block /\ SumOf(col) \in Block /\ gain \in Block
    BY <2>1, <2>3, <2>5, SumOfBlock DEF Blocks
  <2> HIDE DEF A, B, own, col, whole, gain, p
  <2>11. Sub(Add(SumOf(own), gain), Add(SumOf(col), gain)) = Sub(SumOf(own), SumOf(col))
    <3> DEFINE x == SumOf(own)
               y == SumOf(col)
               d == Sub(x, y)
    <3>1. x \in Block /\ y \in Block /\ d \in Block /\ Add(d, y) = x
      BY <2>10, SubFacts, GroupAssumption
    <3> HIDE DEF x, y, d
    <3>2. Add(d, Add(y, gain)) = Add(Add(d, y), gain)
      BY <3>1, <2>10, GroupAssumption
    <3>3. Add(y, gain) \in Block /\ Add(x, gain) \in Block
      BY <3>1, <2>10, GroupAssumption
    <3>4. d = Sub(Add(x, gain), Add(y, gain))
      BY <3>1, <3>2, <3>3, SubFacts
    <3> QED
      BY <3>4 DEF x, y, d
  <2> QED
    BY <2>6, <2>7, <2>8, <2>9, <2>11 DEF p
<1> QED
  BY <1>1, InvInductive, PTL
=============================================================================
