----------------------------- MODULE FullDomain -----------------------------
(***************************************************************************)
(* fullDomainVDPF of vdpf/src/vdpf.c and fullDomainDPF of vdpf/src/dpf.c:  *)
(* a party evaluates its share at every input at once.  The whole tree is  *)
(* expanded into a flat heap, level by level, and no node is expanded      *)
(* twice; where the parent of the next pair stands is worked out from      *)
(* three running counters.  The proof that fullDomainVDPF computes beside  *)
(* the outputs is left out: it hashes a leaf with its heap slot, where     *)
(* genVDPF and batchEvalVDPF hash it with the input, which shows in no     *)
(* proof while the words do not depend on what is hashed (DpfContext).     *)
(***************************************************************************)
EXTENDS Vdpf

NumLeaves == 2 ^ Size
TreeSize == 2 * NumLeaves - 1
Slot == 0 .. TreeSize - 1

\* The bits of an input are those of its place among the leaves.
ASSUME FullDomainAssumption ==
  /\ Identifier \subseteq 0 .. NumLeaves - 1
  /\ \A x \in 0 .. NumLeaves - 1, i \in 1 .. Size :
        GetBit(x, i) = (x \div 2 ^ (Size - i)) % 2
\* What the provers have to be told of powers of two.
ASSUME PowerAssumption ==
  /\ \A i \in 0 .. Size + 1 : 2 ^ i \in Nat \ {0}
  /\ \A i, j \in 0 .. Size + 1 : 2 ^ (i + j) = 2 ^ i * 2 ^ j
  /\ 2 ^ 0 = 1 /\ 2 ^ 1 = 2

VARIABLES
  heap,               \* heap[b]: its arrays seeds and bits
  top,                \* top[b]: its loop variable i, slots filled; 0 before the call
  currLevel,          \* currLevel[b]: the level whose words correct the pair
  levelIndex,         \* levelIndex[b]: slots filled of the level below
  numIndexesInLevel,  \* numIndexesInLevel[b]: slots of that level
  leaf,               \* leaf[b]: outputs written
  full                \* full[b][x]: its output share of input x

fullVars == <<heap, top, currLevel, levelIndex, numIndexesInLevel, leaf, full>>
allVars == <<vars, fullVars>>

Blank == [seed |-> {}, bit |-> 0]

FullInit ==
  /\ Init
  /\ heap = [b \in Party |-> [h \in Slot |-> Blank]]
  /\ top = [b \in Party |-> 0]
  /\ currLevel = [b \in Party |-> 0]
  /\ levelIndex = [b \in Party |-> 0]
  /\ numIndexesInLevel = [b \in Party |-> 2]
  /\ leaf = [b \in Party |-> 0]
  /\ full = [b \in Party |-> [x \in 0 .. NumLeaves - 1 |-> Zero]]

\* The call, which the party makes when its batch is done.
FullRoot(b) ==
  /\ pc = "done" /\ cur[b] \notin DOMAIN Inputs
  /\ top[b] = 0
  /\ heap' = [heap EXCEPT ![b][0] = Root(b)]
  /\ top' = [top EXCEPT ![b] = 1]
  /\ UNCHANGED <<vars, currLevel, levelIndex, numIndexesInLevel, leaf, full>>

\* Variant: the slots of the level above are counted from its end.
ParentFromEnd(i, li, ni) == IF i > 1 THEN i - li - (ni \div 2) ELSE 0

\* The slot of the node whose children go to slots i and i + 1.
ParentIndex(i, li, ni) == IF i > 1 THEN i - li - ((ni - li) \div 2) ELSE 0

\* The children of node n at the given level, corrected.
Pair(n, l) ==
  LET c == dpfPRG(n.seed)
  IN  [d \in Side |-> Corrected(c[d], n.bit, sCW[l + 1], tCW[l + 1][d])]

\* Both children of one node; the counters move on to the next level behind
\* the last pair of this one.
FullExpand(b) ==
  /\ top[b] \in 1 .. TreeSize - 1
  /\ LET i    == top[b]
         n    == heap[b][ParentIndex(i, levelIndex[b], numIndexesInLevel[b])]
         pair == Pair(n, currLevel[b])
         last == levelIndex[b] + 2 = numIndexesInLevel[b]
     IN  /\ heap' = [heap EXCEPT ![b][i] = pair[0], ![b][i + 1] = pair[1]]
         /\ top' = [top EXCEPT ![b] = i + 2]
         /\ levelIndex' = [levelIndex EXCEPT ![b] = IF last THEN 0 ELSE @ + 2]
         /\ currLevel' = [currLevel EXCEPT ![b] = IF last THEN @ + 1 ELSE @]
         /\ numIndexesInLevel' =
              [numIndexesInLevel EXCEPT ![b] = IF last THEN 2 * @ ELSE @]
  /\ UNCHANGED <<vars, leaf, full>>

\* The slot of leaf x.
LeafIndex(x) == TreeSize - NumLeaves + x

FullLeaf(b) ==
  /\ top[b] = TreeSize
  /\ leaf[b] < NumLeaves
  /\ full' = [full EXCEPT ![b][leaf[b]] = LeafOutput(b, heap[b][LeafIndex(leaf[b])])]
  /\ leaf' = [leaf EXCEPT ![b] = @ + 1]
  /\ UNCHANGED <<vars, heap, top, currLevel, levelIndex, numIndexesInLevel>>

FullStep(b) == FullRoot(b) \/ FullExpand(b) \/ FullLeaf(b)

FullNext ==
  \/ Next /\ UNCHANGED fullVars
  \/ \E b \in Party : FullStep(b)

FullSpec == FullInit /\ [][FullNext]_allVars

-----------------------------------------------------------------------------
FullTypeOK ==
  /\ heap \in [Party -> [Slot -> [seed : Block, bit : Bit]]]
  /\ top \in [Party -> 0 .. TreeSize]
  /\ currLevel \in [Party -> Level]
  /\ levelIndex \in [Party -> 0 .. NumLeaves]
  /\ numIndexesInLevel \in [Party -> 2 .. 2 * NumLeaves]
  /\ leaf \in [Party -> 0 .. NumLeaves]
  /\ full \in [Party -> [0 .. NumLeaves - 1 -> Value]]

\* The full-domain functions promise the outputs of the batch evaluation at every input
\* ("much faster than batching the evaluation points"): the two parties' outputs
\* for x are shares of the point function, for every x and not for a batch.
FullDomainShares ==
  \A x \in 0 .. NumLeaves - 1 :
     (x < leaf[0] /\ x < leaf[1]) =>
        Combine(full[0][x], full[1][x]) = PointFunction(x)
=============================================================================
