-------------------------------- MODULE Opv --------------------------------
(***************************************************************************)
(* The oblivious punctured vectors of pvfss/src/opv.cc and what            *)
(* ShareTranslation of pvfss/src/ss_shuffle.cc makes of them.              *)
(*                                                                         *)
(* For every row of a square matrix ALICE expands a seed into a vector,    *)
(* along a binary tree.  BOB gets, by one oblivious transfer per level,    *)
(* the XOR of the seeds on one side of that level, and rebuilds the vector *)
(* but for one entry: he keeps a level in a queue, with zero in the place  *)
(* of the node he must not know, and takes the seeds he knows out of the   *)
(* XOR to find the sibling of that node.  Column and row sums then give    *)
(* the correlation of the shuffle.                                         *)
(*                                                                         *)
(* The transfers (IKNP) and the generator (DLenPRG) are libraries.         *)
(***************************************************************************)
EXTENDS BlockGroup, Integers

CONSTANTS
  depth,     \* log2(length)
  Xor(_, _), \* operator^ of blocks
  DLenPRG,   \* DLenPRG[seed][side]: the two seeds a seed expands to
  Roots,     \* seeds ALICE may draw
  Perms      \* permutations BOB may have

length == 2 ^ depth
Row == 0 .. length - 1
ALICE == 1
BOB == 2

ASSUME OpvAssumption ==
  /\ depth \in Nat \ {0}
  /\ DLenPRG \in [Block -> [{0, 1} -> Block]]
  /\ Roots \subseteq Block /\ Perms \subseteq [Row -> Row]
  /\ \A f \in Perms : \A i, j \in Row : f[i] = f[j] => i = j

ASSUME XorAssumption ==
  /\ \A x, y \in Block : Xor(x, y) \in Block /\ Xor(x, y) = Xor(y, x)
  /\ \A x \in Block : Xor(x, zero_block) = x /\ Xor(x, x) = zero_block
  /\ \A x, y, z \in Block : Xor(Xor(x, y), z) = Xor(x, Xor(y, z))

\* Of ^ the provers only need what it is up to depth.
ASSUME PowerAssumption == 2 ^ 0 = 1 /\ \A n \in 0 .. depth - 1 : 2 ^ (n + 1) = 2 * 2 ^ n

VARIABLES
  perm,      \* BOB's permutation
  pc,        \* pc[s]: where party s is
  row,       \* row[s]: the row it is at
  roots,     \* roots[r]: the seed ALICE drew for row r
  seeds,     \* BOB's transferred seeds, by level
  cur_depth, \* BOB's level
  q,         \* BOB's queue: his nodes of that level
  path,      \* the place in q that he corrects
  v,         \* v[s][r]: the vector of row r at party s
  a, b,      \* ALICE's sums
  delta      \* BOB's

vars == <<perm, pc, row, roots, seeds, cur_depth, q, path, v, a, b, delta>>

\* f[0], f[1], ... added, and XORed, one after the other to a zero block.
Sums(f, n) ==
  LET sum[k \in 0 .. n] == IF k = 0 THEN zero_block ELSE Add(sum[k - 1], f[k - 1]) IN sum
Xors(f, n) ==
  LET xor[k \in 0 .. n] == IF k = 0 THEN zero_block ELSE Xor(xor[k - 1], f[k - 1]) IN xor
SumOf(f) == Sums(f, length)[length]
XorOf(f, n) == Xors(f, n)[n]

\* The tree below a root, level by level.
Tree(root) ==
  LET level[c \in 0 .. depth] ==
        [i \in 0 .. 2 ^ c - 1 |->
           IF c = 0 THEN root ELSE DLenPRG[level[c - 1][i \div 2]][i % 2]]
  IN  level

\* ALICE's strings for the transfers: the XOR of each side of every level.
PrepareCorrelation(root) ==
  [c \in 0 .. depth - 1 |-> [side \in {0, 1} |->
     XorOf([j \in 0 .. 2 ^ c - 1 |-> DLenPRG[Tree(root)[c][j]][side]], 2 ^ c)]]

\* BOB's choices: at each level the side that the path to x does not take.
Bits(x) == [c \in 0 .. depth - 1 |-> 1 - ((x \div 2 ^ (depth - 1 - c)) % 2)]

Zeros == [i \in Row |-> zero_block]

Init ==
  /\ perm \in Perms
  /\ pc = [s \in {ALICE, BOB} |-> "setup"]
  /\ row = [s \in {ALICE, BOB} |-> 0]
  /\ roots = Zeros
  /\ seeds = [c \in 0 .. depth - 1 |-> zero_block]
  /\ cur_depth = 0 /\ q = [i \in {0} |-> zero_block] /\ path = 0
  /\ v = [s \in {ALICE, BOB} |-> [r \in Row |-> Zeros]]
  /\ a = Zeros /\ b = Zeros /\ delta = Zeros

Step(s, l) == pc' = [pc EXCEPT ![s] = l]

-----------------------------------------------------------------------------
(* One row: the transfers, then each party on its own. *)

\* ALICE draws a root; the transfers need both parties at OblivSetup.
OblivSetup(root) ==
  /\ pc[ALICE] = "setup" /\ pc[BOB] = "setup"
  /\ roots' = [roots EXCEPT ![row[ALICE]] = root]
  /\ seeds' = [c \in 0 .. depth - 1 |-> PrepareCorrelation(root)[c][Bits(perm[row[BOB]])[c]]]
  /\ pc' = [s \in {ALICE, BOB} |-> "expand"]
  /\ UNCHANGED <<perm, row, cur_depth, q, path, v, a, b, delta>>

\* Party s has its vector of the row.
Filled(s, vec) ==
  /\ v' = [v EXCEPT ![s][row[s]] = vec]
  /\ row' = [row EXCEPT ![s] = IF @ + 1 = length THEN @ ELSE @ + 1]
  /\ Step(s, IF row[s] + 1 = length THEN "sum" ELSE "setup")

SimpleExpand ==
  /\ pc[ALICE] = "expand"
  /\ Filled(ALICE, Tree(roots[row[ALICE]])[depth])
  /\ UNCHANGED <<perm, roots, seeds, cur_depth, q, path, a, b, delta>>

bits == Bits(perm[row[BOB]])

\* A node and its sibling side by side: zero where BOB must not know, x beside it.
Pair(side, x) == [i \in {0, 1} |-> IF i = side THEN x ELSE zero_block]

\* The first layer is a transferred seed and zero.
PunctureRoot ==
  /\ pc[BOB] = "expand"
  /\ q' = Pair(bits[0], seeds[0])
  /\ path' = bits[0] /\ cur_depth' = 1
  /\ Step(BOB, IF depth = 1 THEN "write" ELSE "layer")
  /\ UNCHANGED <<perm, row, roots, seeds, v, a, b, delta>>

CheckOnPath(x) == x = zero_block

\* The two children BOB puts in the queue for a node, before correction.
Children(x) ==
  IF CheckOnPath(x) THEN Pair(bits[cur_depth], seeds[cur_depth]) ELSE DLenPRG[x]

\* The XOR of what BOB knows of the transferred seed.
AggMask ==
  XorOf([j \in DOMAIN q |-> IF CheckOnPath(q[j]) THEN zero_block
                            ELSE DLenPRG[q[j]][bits[cur_depth]]], 2 ^ cur_depth)

\* Variant: BOB follows the path of the siblings.
SiblingBelow(k) == 2 * k + bits[cur_depth]

\* The other node of the pair k is in is the punctured one; k's successor is the
\* child of it that the path does not take.
Sibling(k) == IF k % 2 = 0 THEN k + 1 ELSE k - 1
NextPath(k) == 2 * Sibling(k) + bits[cur_depth]

\* One turn of the loop over levels.
PunctureLayer ==
  /\ pc[BOB] = "layer"
  /\ path' = NextPath(path)
  /\ q' = [i \in 0 .. 2 ^ (cur_depth + 1) - 1 |->
             LET child == Children(q[i \div 2])[i % 2]
             IN  IF i = path' THEN Xor(child, AggMask) ELSE child]
  /\ cur_depth' = cur_depth + 1
  /\ Step(BOB, IF cur_depth + 1 < depth THEN "layer" ELSE "write")
  /\ UNCHANGED <<perm, row, roots, seeds, v, a, b, delta>>

PunctureExpand ==
  /\ pc[BOB] = "write"
  /\ Filled(BOB, q)
  /\ UNCHANGED <<perm, roots, seeds, cur_depth, q, path, a, b, delta>>

-----------------------------------------------------------------------------
(* ShareTranslation, when all rows are there. *)

ColumnSum(m, i) == SumOf([j \in Row |-> m[j][i]])
RowSum(m, i) == SumOf(m[i])

SumAlice ==
  /\ pc[ALICE] = "sum"
  /\ a' = [i \in Row |-> ColumnSum(v[ALICE], i)]
  /\ b' = [i \in Row |-> RowSum(v[ALICE], i)]
  /\ Step(ALICE, "done")
  /\ UNCHANGED <<perm, row, roots, seeds, cur_depth, q, path, v, delta>>

\* Variant: the column is not permuted.
DifferenceUnpermuted(m, i) == SumOf([j \in Row |-> Sub(m[i][j], m[j][i])])

Difference(m, i) == SumOf([j \in Row |-> Sub(m[i][j], m[j][perm[i]])])

SumBob ==
  /\ pc[BOB] = "sum"
  /\ delta' = [i \in Row |-> Difference(v[BOB], i)]
  /\ Step(BOB, "done")
  /\ UNCHANGED <<perm, row, roots, seeds, cur_depth, q, path, v, a, b>>

Done == pc[ALICE] = "done" /\ pc[BOB] = "done"

Next ==
  \/ \E root \in Roots : OblivSetup(root)
  \/ SimpleExpand \/ SumAlice
  \/ PunctureRoot \/ PunctureLayer \/ PunctureExpand \/ SumBob
  \/ Done /\ UNCHANGED vars

Spec == Init /\ [][Next]_vars

-----------------------------------------------------------------------------
TypeOK ==
  /\ perm \in Perms /\ row \in [{ALICE, BOB} -> Row]
  /\ pc \in [{ALICE, BOB} -> {"setup", "expand", "layer", "write", "sum", "done"}]
  /\ roots \in [Row -> Block] /\ seeds \in [0 .. depth - 1 -> Block]
  /\ cur_depth \in 0 .. depth /\ q \in [0 .. 2 ^ cur_depth - 1 -> Block]
  /\ path \in DOMAIN q
  /\ v \in [{ALICE, BOB} -> [Row -> [Row -> Block]]]
  /\ {a, b, delta} \subseteq [Row -> Block]

\* Zero stands for the punctured node, so that a seed that happens to be zero is
\* taken for it: NoZero says that BOB meets none in the tree of row r.
OnPath(r, c, i) == i = perm[r] \div 2 ^ (depth - c)
NoZero(r) ==
  \A c \in 1 .. depth - 1 : \A i \in 0 .. 2 ^ c - 1 :
     Tree(roots[r])[c][i] # zero_block \/ OnPath(r, c, i)

\* After every layer BOB's queue is that level of ALICE's tree, with zero for the
\* one node on the path, and the seed he corrected is its sibling.
QueueIsPuncturedLevel ==
  pc[BOB] \in {"layer", "write"} /\ NoZero(row[BOB]) =>
     \A i \in DOMAIN q :
        LET tree == Tree(roots[row[BOB]])
        IN  /\ q[i] = IF OnPath(row[BOB], cur_depth, i) THEN zero_block
                       ELSE tree[cur_depth][i]
            /\ i = path <=> OnPath(row[BOB], cur_depth, Sibling(i))

\* What the shuffle is built on: delta is the difference of b and a permuted,
\* though BOB lacks one entry of every row.
Correlated ==
  Done /\ (\A r \in Row : NoZero(r)) =>
     \A i \in Row : delta[i] = Sub(b[i], a[perm[i]])
=============================================================================
