-------------------------------- MODULE Vdpf --------------------------------
(***************************************************************************)
(* The two distributed point functions: the verifiable one (genVDPF,       *)
(* batchEvalVDPF) of vdpf/src/vdpf.c and the plain one (genDPF,            *)
(* batchEvalDPF) of vdpf/src/dpf.c.  Both grow and walk the same tree and   *)
(* differ in its ends.                                                     *)
(*                                                                         *)
(* A key pair shares the point function that is beta at alpha and 0        *)
(* elsewhere: in the field for the verifiable scheme, as blocks under XOR  *)
(* for the plain one, where beta is the block 1.  Both shares hold the     *)
(* same correction words and differ in the root seed; each party walks its *)
(* own GGM tree from its root towards an input, correcting a node's        *)
(* children when its control bit is set.                                   *)
(*                                                                         *)
(* A 128-bit block is the set of the positions of its one bits; the block  *)
(* cipher, the random source and the reduction of a block are parameters.  *)
(* The proof that batchEvalVDPF also computes is the subject of DpfContext.*)
(***************************************************************************)
EXTENDS Field61, Sequences

CONSTANTS
  Size,          \* bits of an input: the depth of the tree
  BlockBits,     \* bit positions of a block
  AesEcb,        \* the block cipher under the shared PRF key
  FromBlock,     \* field61_from_u128 of a block
  Identifier,    \* points a key may be generated for or evaluated on
  GetBit(_, _),  \* getbit(x, size, i): bit i of x, the highest first
  Betas,         \* values at the point
  Inputs,        \* the batch both servers evaluate, in its order
  MaxRetries     \* bound: restarts of the generation loop

Block == SUBSET BlockBits
Party == {0, 1}
Side == {0, 1}          \* LEFT, RIGHT
Bit == {0, 1}
Level == 0 .. Size

ASSUME SizeAssumption == Size \in Nat \ {0}
ASSUME BlockAssumption ==
  /\ {0, 1} \subseteq BlockBits
  /\ AesEcb \in [Block -> Block]
  /\ FromBlock \in [Block -> Element]
ASSUME InputAssumption ==
  /\ MaxRetries \in Nat
  /\ Inputs \in Seq(Identifier)
  /\ Betas \subseteq Element
  /\ \A x \in Identifier, i \in 1 .. Size : GetBit(x, i) \in Bit
\* Identifiers fit in Size bits: their low bits tell them apart.
ASSUME IdentifiersFit ==
  \A x, y \in Identifier :
     (\A i \in 1 .. Size : GetBit(x, i) = GetBit(y, i)) => x = y

VARIABLES
  scheme,    \* the pair of functions in use: "dpf" or "vdpf"
  pc,        \* where key generation is: "seed", "grow" or "done"
  retries,   \* restarts of its loop
  alpha,     \* its argument index
  beta,      \* its argument beta; genDPF has the constant 1
  level,     \* its loop variable: levels grown
  gseed,     \* gseed[b][i]: seeds0[i], seeds1[i], the path to alpha
  gbit,      \* gbit[b][i]: bits0[i], bits1[i]
  sCW,       \* sCW[i]: seed correction word of level i
  tCW,       \* tCW[i][d]: control correction bit of level i for side d
  lastCW,    \* the output correction word
  cur,       \* cur[b]: the input party b evaluates
  depth,     \* depth[b]: levels it has walked
  seeds,     \* seeds[b][l][i]: its seed at level i on the way to input l
  bits,      \* bits[b][l][i]: its control bit there
  out        \* out[b][l]: its output share of input l

genVars == <<scheme, pc, retries, alpha, beta, level, gseed, gbit, sCW, tCW, lastCW>>
evalVars == <<cur, depth, seeds, bits, out>>
vars == <<genVars, evalVars>>

-----------------------------------------------------------------------------
(* Blocks: vdpf/include/common.h and vdpf/src/common.c. *)

Xor(a, b) == (a \ b) \cup (b \ a)
XorBit(s, t) == IF s = t THEN 0 ELSE 1
reverse_lsb(a) == Xor(a, {0})
lsb(a) == IF 0 \in a THEN 1 ELSE 0
seed_lsb(a) == IF 1 \in a THEN 1 ELSE 0
set_lsb_zero(a) == a \ {0}

\* The two children of a seed: the cipher on the seed and on its neighbour,
\* fed forward; the lowest bit of each becomes its control bit.
dpfPRG(seed) ==
  LET input == set_lsb_zero(seed)
      stash == [d \in Side |->
                  IF d = 0 THEN Xor(AesEcb[input], input)
                  ELSE reverse_lsb(Xor(AesEcb[reverse_lsb(input)], input))]
  IN  [d \in Side |-> [seed |-> set_lsb_zero(stash[d]), bit |-> lsb(stash[d])]]

\* A child as its party sees it, corrected when the parent's bit is set.
Corrected(child, bit, sc, tc) ==
  IF bit = 1
  THEN [seed |-> Xor(child.seed, sc), bit |-> XorBit(child.bit, tc)]
  ELSE child

-----------------------------------------------------------------------------
(* Outputs: field elements that add up, or blocks under XOR. *)

One == {0}     \* the block 1

Value == IF scheme = "dpf" THEN Block ELSE Element
Zero == IF scheme = "dpf" THEN {} ELSE 0
PointValues == IF scheme = "dpf" THEN {One} ELSE Betas
Combine(u, v) == IF scheme = "dpf" THEN Xor(u, v) ELSE field61_add(u, v)
PointFunction(x) == IF x = alpha THEN beta ELSE Zero

-----------------------------------------------------------------------------
(* Key generation. *)

Row(v) == [i \in Level |-> v]

Init ==
  /\ scheme \in {"dpf", "vdpf"}
  /\ pc = "seed" /\ retries = 0 /\ level = 0
  /\ alpha \in Identifier
  /\ beta \in PointValues
  /\ gseed = [b \in Party |-> Row({})]
  /\ gbit = [b \in Party |-> Row(0)]
  /\ sCW = Row({})
  /\ tCW = Row([d \in Side |-> 0])
  /\ lastCW = Zero
  /\ cur = [b \in Party |-> 1]
  /\ depth = [b \in Party |-> 0]
  /\ seeds = [b \in Party |-> [l \in DOMAIN Inputs |-> Row({})]]
  /\ bits = [b \in Party |-> [l \in DOMAIN Inputs |-> Row(0)]]
  /\ out = [b \in Party |-> [l \in DOMAIN Inputs |-> Zero]]

\* Fresh root seeds, at the start of each turn of the loop.
GenSeed(r0, r1) ==
  /\ pc = "seed"
  /\ gseed' = [b \in Party |-> [gseed[b] EXCEPT ![0] = IF b = 0 THEN r0 ELSE r1]]
  /\ gbit' = [b \in Party |-> [gbit[b] EXCEPT ![0] = b]]
  /\ level' = 0
  /\ pc' = "grow"
  /\ UNCHANGED <<scheme, retries, alpha, beta, sCW, tCW, lastCW, evalVars>>

\* Variant: the bits are made to agree on both sides.
ControlWordOneSided(c0, c1, keep) ==
  [d \in Side |-> XorBit(c0[d].bit, c1[d].bit)]

\* The control correction bits make the two bits differ on the side alpha
\* takes and agree on the other.
ControlWord(c0, c1, keep) ==
  [d \in Side |-> XorBit(XorBit(c0[d].bit, c1[d].bit), IF d = keep THEN 1 ELSE 0)]

GenLevel ==
  /\ pc = "grow"
  /\ level < Size
  /\ LET i    == level + 1
         c0   == dpfPRG(gseed[0][level])
         c1   == dpfPRG(gseed[1][level])
         keep == GetBit(alpha, i)
         sc   == Xor(c0[1 - keep].seed, c1[1 - keep].seed)
         tc   == ControlWord(c0, c1, keep)
         next == [b \in Party |->
                    Corrected((IF b = 0 THEN c0 ELSE c1)[keep],
                              gbit[b][level], sc, tc[keep])]
     IN  /\ sCW' = [sCW EXCEPT ![i] = sc]
         /\ tCW' = [tCW EXCEPT ![i] = tc]
         /\ gseed' = [b \in Party |-> [gseed[b] EXCEPT ![i] = next[b].seed]]
         /\ gbit' = [b \in Party |-> [gbit[b] EXCEPT ![i] = next[b].bit]]
         /\ level' = i
  /\ UNCHANGED <<scheme, pc, retries, alpha, beta, lastCW, evalVars>>

\* Variant: the first tree is taken as it is.
SelectorsUnchecked == TRUE

\* The leaves of alpha must tell which party corrects its check words; a plain
\* key has none.
SelectorsDiffer ==
  scheme = "vdpf" => seed_lsb(gseed[0][Size]) # seed_lsb(gseed[1][Size])

GenRetry ==
  /\ pc = "grow"
  /\ level = Size
  /\ ~SelectorsDiffer
  /\ retries < MaxRetries
  /\ retries' = retries + 1
  /\ pc' = "seed"
  /\ UNCHANGED <<scheme, alpha, beta, level, gseed, gbit, sCW, tCW, lastCW, evalVars>>

\* What the party whose control bit is set at alpha has to add to its leaf.
PlainWord == Xor(One, Xor(gseed[0][Size], gseed[1][Size]))

BaseWord ==
  field61_add(beta, field61_sub(FromBlock[gseed[1][Size]],
                                FromBlock[gseed[0][Size]]))

\* Variant: the sign of the correcting party is forgotten.
OutputWordUnsigned == IF scheme = "dpf" THEN PlainWord ELSE BaseWord

\* Party 1 negates its output, so the word is negated if party 1 corrects.
OutputWord ==
  CASE scheme = "dpf"                            -> PlainWord
    [] scheme = "vdpf" /\ gbit[1][Size] = 0 -> BaseWord
    [] scheme = "vdpf" /\ gbit[1][Size] # 0 -> field61_neg(BaseWord)

GenFinish ==
  /\ pc = "grow"
  /\ level = Size
  /\ SelectorsDiffer
  /\ lastCW' = OutputWord
  /\ pc' = "done"
  /\ UNCHANGED <<scheme, retries, alpha, beta, level, gseed, gbit, sCW, tCW, evalVars>>

-----------------------------------------------------------------------------
(* Evaluation by party b; the two parties never wait for each other. *)

\* Where a walk starts: the root seed of the share, and the party as its bit.
Root(b) == [seed |-> gseed[b][0], bit |-> b]

At(b, l, i) ==
  IF i = 0 THEN Root(b) ELSE [seed |-> seeds[b][l][i], bit |-> bits[b][l][i]]

\* The child of a node at level i - 1 on the side that x takes.
Child(n, x, i) ==
  LET d == GetBit(x, i)
  IN  Corrected(dpfPRG(n.seed)[d], n.bit, sCW[i], tCW[i][d])

EvalLevel(b) ==
  /\ pc = "done"
  /\ cur[b] \in DOMAIN Inputs
  /\ depth[b] < Size
  /\ LET l == cur[b]
         i == depth[b] + 1
         c == Child(At(b, l, depth[b]), Inputs[l], i)
     IN  /\ seeds' = [seeds EXCEPT ![b][l][i] = c.seed]
         /\ bits' = [bits EXCEPT ![b][l][i] = c.bit]
         /\ depth' = [depth EXCEPT ![b] = i]
  /\ UNCHANGED <<genVars, cur, out>>

\* The output share of a leaf.
PlainOutput(leaf) == IF leaf.bit = 1 THEN Xor(leaf.seed, lastCW) ELSE leaf.seed

FieldOutput(b, leaf) ==
  LET v == FromBlock[leaf.seed]
      w == IF leaf.bit = 1 THEN field61_add(v, lastCW) ELSE v
  IN  IF b = 1 THEN field61_neg(w) ELSE w

LeafOutput(b, leaf) ==
  IF scheme = "dpf" THEN PlainOutput(leaf) ELSE FieldOutput(b, leaf)

EvalLeaf(b) ==
  /\ pc = "done"
  /\ cur[b] \in DOMAIN Inputs
  /\ depth[b] = Size
  /\ out' = [out EXCEPT ![b][cur[b]] = LeafOutput(b, At(b, cur[b], Size))]
  /\ cur' = [cur EXCEPT ![b] = cur[b] + 1]
  /\ depth' = [depth EXCEPT ![b] = 0]
  /\ UNCHANGED <<genVars, seeds, bits>>

Next ==
  \/ \E r0, r1 \in Block : GenSeed(r0, r1)
  \/ GenLevel
  \/ GenRetry
  \/ GenFinish
  \/ \E b \in Party : EvalLevel(b)
  \/ \E b \in Party : EvalLeaf(b)

Spec == Init /\ [][Next]_vars

-----------------------------------------------------------------------------
TypeOK ==
  /\ scheme \in {"dpf", "vdpf"}
  /\ pc \in {"seed", "grow", "done"}
  /\ retries \in 0 .. MaxRetries
  /\ alpha \in Identifier /\ beta \in PointValues
  /\ level \in Level
  /\ gseed \in [Party -> [Level -> Block]]
  /\ gbit \in [Party -> [Level -> Bit]]
  /\ sCW \in [Level -> Block]
  /\ tCW \in [Level -> [Side -> Bit]]
  /\ lastCW \in Value
  /\ cur \in [Party -> 1 .. Len(Inputs) + 1]
  /\ depth \in [Party -> Level]
  /\ seeds \in [Party -> [DOMAIN Inputs -> [Level -> Block]]]
  /\ bits \in [Party -> [DOMAIN Inputs -> [Level -> Bit]]]
  /\ out \in [Party -> [DOMAIN Inputs -> Value]]

\* Party b has walked input l at least to level i.
Walked(b, l, i) ==
  pc = "done" /\ (l < cur[b] \/ (l = cur[b] /\ i <= depth[b]))

\* The first i bits of x are those of alpha.
OnPath(x, i) == \A j \in 1 .. i : GetBit(x, j) = GetBit(alpha, j)

\* The GGM invariant, between two parties that never talk to each other: at a
\* node on the way to alpha their control bits differ, and as soon as an input
\* leaves that way their seeds and control bits agree, and stay so.
TreeInvariant ==
  \A l \in DOMAIN Inputs, i \in Level :
     (Walked(0, l, i) /\ Walked(1, l, i)) =>
        IF OnPath(Inputs[l], i) THEN At(0, l, i).bit # At(1, l, i).bit
        ELSE At(0, l, i) = At(1, l, i)

\* The outputs of one input are shares of the point function, whatever seeds
\* were drawn and however often generation restarted, in either scheme.
SharesOfPointFunction ==
  \A l \in DOMAIN Inputs :
     (l < cur[0] /\ l < cur[1]) =>
        Combine(out[0][l], out[1][l]) = PointFunction(Inputs[l])

\* At the leaf of alpha exactly one party corrects its check words with cs, at
\* every other leaf both do or none: what the retry of genVDPF is for.
OneSelectorAtAlpha ==
  scheme = "vdpf" => \A l \in DOMAIN Inputs :
     (Walked(0, l, Size) /\ Walked(1, l, Size)) =>
        (seed_lsb(At(0, l, Size).seed) # seed_lsb(At(1, l, Size).seed)
           <=> Inputs[l] = alpha)
=============================================================================
