----------------------------- MODULE VdpfProofs -----------------------------
(***************************************************************************)
(* Proofs about the distributed point functions, for every depth, block    *)
(* width, cipher, field modulus and batch of inputs; and about the         *)
(* full-domain evaluation, for every depth, cipher and key: its heap holds *)
(* the tree level by level, wherever the two parties are, and its outputs  *)
(* are shares of the point function at every input.                        *)
(***************************************************************************)
EXTENDS FullDomain, TLAPS

(***************************************************************************)
(* The field.                                                              *)
(***************************************************************************)

\* Reducing a number below twice the modulus takes one subtraction at most.
LEMMA ReduceOnce ==
  ASSUME NEW v \in 0 .. 2 * Modulus - 1
  PROVE  field61_reduce(v) = IF v < Modulus THEN v ELSE v - Modulus
<1>1. CASE v < Modulus
  BY <1>1, ModulusAssumption, SMTT(30) DEF field61_reduce
<1>2. CASE v >= Modulus
  BY <1>2, ModulusAssumption, SMTT(30) DEF field61_reduce
<1> QED
  BY <1>1, <1>2, ModulusAssumption

\* field61_add is addition modulo the field's modulus.
LEMMA AddElement ==
  ASSUME NEW a \in Element, NEW b \in Element
  PROVE  /\ field61_add(a, b) \in Element
         /\ field61_add(a, b) = IF a + b < Modulus THEN a + b ELSE a + b - Modulus
<1> DEFINE s == a + b
<1>1. s \in 0 .. 2 * Modulus - 1
  BY ModulusAssumption DEF Element
<1> HIDE DEF s
<1>2. field61_reduce(s) = IF s < Modulus THEN s ELSE s - Modulus
  BY <1>1, ReduceOnce
<1>3. field61_add(a, b) = field61_reduce(s)
  BY Zenon DEF field61_add, s
<1>4. field61_add(a, b) = IF s < Modulus THEN s ELSE s - Modulus
  BY <1>2, <1>3
<1>5. (IF s < Modulus THEN s ELSE s - Modulus) \in Element
  BY <1>1, ModulusAssumption DEF Element
<1>6. field61_add(a, b) \in Element
  BY <1>4, <1>5
<1>7. field61_add(a, b) = IF a + b < Modulus THEN a + b ELSE a + b - Modulus
  BY <1>4, ModulusAssumption DEF Element, s
<1> QED
  BY <1>6, <1>7

\* field61_sub stays in the field.
LEMMA SubElement ==
  ASSUME NEW a \in Element, NEW b \in Element
  PROVE  field61_sub(a, b) \in Element
  BY ModulusAssumption DEF field61_sub, Element

\* field61_neg is the additive inverse.
LEMMA NegElement ==
  ASSUME NEW a \in Element
  PROVE  field61_neg(a) \in Element /\ field61_add(a, field61_neg(a)) = 0
<1>1. field61_neg(a) \in Element
  BY ModulusAssumption DEF field61_neg, Element
<1> QED
  BY <1>1, AddElement, ModulusAssumption DEF field61_neg, Element

\* The output correction word: whichever party's control bit is set at alpha,
\* the two outputs there sum to beta.
LEMMA OutputsSum ==
  ASSUME NEW c0 \in Element, NEW c1 \in Element, NEW v \in Element
  PROVE  LET base == field61_add(v, field61_sub(c1, c0))
         IN  /\ field61_add(field61_add(c0, base), field61_neg(c1)) = v
             /\ field61_add(c0, field61_neg(field61_add(c1, field61_neg(base)))) = v
<1> DEFINE d == field61_sub(c1, c0)
           base == field61_add(v, d)
<1>1. d \in Element /\ base \in Element /\ base = IF v + d < Modulus THEN v + d ELSE v + d - Modulus
  BY SubElement, AddElement
<1>2. d = IF c1 >= c0 THEN c1 - c0 ELSE Modulus - (c0 - c1)
  BY DEF field61_sub
<1> HIDE DEF d, base
<1>3. field61_add(field61_add(c0, base), field61_neg(c1)) = v
  <2>1. /\ field61_add(c0, base) \in Element
        /\ field61_add(c0, base) = IF c0 + base < Modulus THEN c0 + base ELSE c0 + base - Modulus
    BY <1>1, AddElement
  <2>2. field61_neg(c1) \in Element /\ field61_neg(c1) = IF c1 = 0 THEN 0 ELSE Modulus - c1
    BY NegElement DEF field61_neg
  <2> DEFINE f == field61_add(c0, base)
             n1 == field61_neg(c1)
  <2>3. field61_add(f, n1) = IF f + n1 < Modulus THEN f + n1 ELSE f + n1 - Modulus
    BY <2>1, <2>2, AddElement
  <2>4. f \in Element /\ n1 \in Element
    BY <2>1, <2>2
  <2>5. /\ f = IF c0 + base < Modulus THEN c0 + base ELSE c0 + base - Modulus
        /\ n1 = IF c1 = 0 THEN 0 ELSE Modulus - c1
    BY <2>1, <2>2
  <2> HIDE DEF f, n1
  <2>6. field61_add(f, n1) = v
    BY <1>1, <1>2, <2>3, <2>4, <2>5, ModulusAssumption DEF Element
  <2> QED
    BY <2>6 DEF f, n1
<1>4. field61_add(c0, field61_neg(field61_add(c1, field61_neg(base)))) = v
  <2>1. field61_neg(base) \in Element /\ field61_neg(base) = IF base = 0 THEN 0 ELSE Modulus - base
    BY <1>1, NegElement DEF field61_neg
  <2> DEFINE nb == field61_neg(base)
  <2>2. /\ field61_add(c1, nb) \in Element
        /\ field61_add(c1, nb) = IF c1 + nb < Modulus THEN c1 + nb ELSE c1 + nb - Modulus
    BY <2>1, AddElement
  <2> DEFINE e == field61_add(c1, nb)
  <2>3. field61_neg(e) \in Element /\ field61_neg(e) = IF e = 0 THEN 0 ELSE Modulus - e
    BY <2>2, NegElement DEF field61_neg
  <2>4. field61_add(c0, field61_neg(e)) =
          IF c0 + field61_neg(e) < Modulus THEN c0 + field61_neg(e)
          ELSE c0 + field61_neg(e) - Modulus
    BY <2>3, AddElement
  <2> HIDE DEF nb, e
  <2> QED
    BY <1>1, <1>2, <2>1, <2>2, <2>3, <2>4, ModulusAssumption DEF Element, nb, e
<1> QED
  BY <1>3, <1>4 DEF base, d

(***************************************************************************)
(* Blocks and nodes.                                                       *)
(***************************************************************************)

Node == [seed : Block, bit : Bit]

\* The exclusive or of blocks is its own inverse.
LEMMA XorBlock ==
  ASSUME NEW a \in Block, NEW b \in Block
  PROVE  Xor(a, b) \in Block /\ Xor(a, Xor(b, a)) = b /\ Xor(a, Xor(a, b)) = b
  BY DEF Xor, Block

\* The exclusive or of bits is a bit.
LEMMA XorBitType == \A s, t : XorBit(s, t) \in Bit
  BY DEF XorBit, Bit

\* The children the generator makes are nodes.
LEMMA PrgType ==
  ASSUME NEW s \in Block, NEW d \in Side
  PROVE  dpfPRG(s)[d] \in Node
<1> DEFINE input == set_lsb_zero(s)
           low == Xor(AesEcb[input], input)
           high == reverse_lsb(Xor(AesEcb[reverse_lsb(input)], input))
<1>1. input \in Block /\ reverse_lsb(input) \in Block
  BY BlockAssumption DEF set_lsb_zero, reverse_lsb, Xor, Block
<1>2. AesEcb[input] \in Block /\ AesEcb[reverse_lsb(input)] \in Block
  BY <1>1, BlockAssumption
<1>3. low \in Block /\ Xor(AesEcb[reverse_lsb(input)], input) \in Block
  BY <1>1, <1>2, XorBlock
<1>4. high \in Block
  <2>1. {0} \in Block
    BY BlockAssumption DEF Block
  <2> QED
    BY <1>3, <2>1, XorBlock DEF reverse_lsb
<1> HIDE DEF input, low, high
<1>5. \A a \in Block : [seed |-> set_lsb_zero(a), bit |-> lsb(a)] \in Node
  BY DEF set_lsb_zero, lsb, Node, Block, Bit
<1>6. dpfPRG(s)[d] = LET a == IF d = 0 THEN low ELSE high
                     IN  [seed |-> set_lsb_zero(a), bit |-> lsb(a)]
  BY DEF dpfPRG, Side, low, high, input
<1> QED
  BY <1>3, <1>4, <1>5, <1>6

\* A corrected child is a node.
LEMMA CorrectedType ==
  ASSUME NEW c \in Node, NEW t \in Bit, NEW sc \in Block, NEW tc \in Bit
  PROVE  Corrected(c, t, sc, tc) \in Node
<1>1. c.seed \in Block /\ c.bit \in Bit
  BY DEF Node
<1>2. Xor(c.seed, sc) \in Block /\ XorBit(c.bit, tc) \in Bit
  BY <1>1, XorBlock, XorBitType
<1> QED
  BY <1>1, <1>2 DEF Corrected, Node

\* On the side alpha leaves, the two parties get one child: the seed correction
\* cancels the seed of the party that applies it and the bits are equal.
LEMMA LoseSide ==
  ASSUME NEW c0 \in Node, NEW c1 \in Node, NEW t0 \in Bit, NEW t1 \in Bit, t0 # t1
  PROVE  LET sc == Xor(c0.seed, c1.seed)
             tc == XorBit(XorBit(c0.bit, c1.bit), 0)
         IN  Corrected(c0, t0, sc, tc) = Corrected(c1, t1, sc, tc)
<1> DEFINE sc == Xor(c0.seed, c1.seed)
           tc == XorBit(XorBit(c0.bit, c1.bit), 0)
<1>1. /\ c0.seed \in Block /\ c0.bit \in Bit
      /\ c1.seed \in Block /\ c1.bit \in Bit
      /\ c0 = [seed |-> c0.seed, bit |-> c0.bit]
      /\ c1 = [seed |-> c1.seed, bit |-> c1.bit]
  BY DEF Node
<1>2. Xor(c0.seed, sc) = c1.seed /\ Xor(c1.seed, sc) = c0.seed
  BY <1>1, XorBlock
<1>3. XorBit(c0.bit, tc) = c1.bit /\ XorBit(c1.bit, tc) = c0.bit
  BY <1>1 DEF XorBit, Bit
<1> HIDE DEF sc, tc
<1>4. Corrected(c0, t0, sc, tc) = Corrected(c1, t1, sc, tc)
  <2>1. CASE t0 = 1 /\ t1 = 0
    BY <1>1, <1>2, <1>3, <2>1 DEF Corrected
  <2>2. CASE t0 = 0 /\ t1 = 1
    BY <1>1, <1>2, <1>3, <2>2 DEF Corrected
  <2> QED
    BY <2>1, <2>2 DEF Bit
<1> QED
  BY <1>4 DEF sc, tc

\* On the side alpha takes, their control bits differ again.
LEMMA KeepSide ==
  ASSUME NEW c0 \in Node, NEW c1 \in Node, NEW t0 \in Bit, NEW t1 \in Bit, t0 # t1,
         NEW sc
  PROVE  LET tc == XorBit(XorBit(c0.bit, c1.bit), 1)
         IN  Corrected(c0, t0, sc, tc).bit # Corrected(c1, t1, sc, tc).bit
<1> DEFINE tc == XorBit(XorBit(c0.bit, c1.bit), 1)
<1>1. c0.bit \in Bit /\ c1.bit \in Bit
  BY DEF Node
<1>2. XorBit(c0.bit, tc) # c1.bit /\ XorBit(c1.bit, tc) # c0.bit
  BY <1>1 DEF XorBit, Bit
<1> HIDE DEF tc
<1>3. Corrected(c0, t0, sc, tc).bit # Corrected(c1, t1, sc, tc).bit
  BY <1>1, <1>2 DEF Corrected, Bit
<1> QED
  BY <1>3 DEF tc

(***************************************************************************)
(* Type correctness.                                                       *)
(***************************************************************************)

\* The root of a key is a node.
LEMMA RootType ==
  ASSUME TypeOK, NEW b \in Party
  PROVE  Root(b) \in Node
<1>1. 0 \in Level /\ b \in Bit
  BY SizeAssumption DEF Level, Party, Bit
<1>2. gseed[b][0] \in Block
  BY <1>1 DEF TypeOK
<1> QED
  BY <1>1, <1>2 DEF Root, Node

\* So is what a walk has reached,
LEMMA AtType ==
  ASSUME TypeOK, NEW b \in Party, NEW l \in DOMAIN Inputs, NEW i \in Level
  PROVE  At(b, l, i) \in Node
  BY RootType DEF TypeOK, At, Node

\* and the child it goes to.
LEMMA ChildType ==
  ASSUME TypeOK, NEW n \in Node, NEW x \in Identifier, NEW i \in 1 .. Size
  PROVE  Child(n, x, i) \in Node
<1> DEFINE d == GetBit(x, i)
<1>1. d \in Side /\ i \in Level
  BY InputAssumption, SizeAssumption DEF Side, Bit, Level
<1>2. n.seed \in Block /\ n.bit \in Bit
  BY DEF Node
<1>3. dpfPRG(n.seed)[d] \in Node
  BY <1>1, <1>2, PrgType
<1>4. sCW[i] \in Block /\ tCW[i][d] \in Bit
  BY <1>1 DEF TypeOK
<1> QED
  BY <1>2, <1>3, <1>4, CorrectedType DEF Child

\* The inputs of an evaluation are identifiers.
LEMMA InputType == \A l \in DOMAIN Inputs : Inputs[l] \in Identifier
  BY InputAssumption

\* What a leaf gives is a value.
LEMMA LeafOutputType ==
  ASSUME TypeOK, NEW b \in Party, NEW n \in Node
  PROVE  LeafOutput(b, n) \in Value
<1>0. n.seed \in Block
  BY DEF Node
<1>1. CASE scheme = "dpf"
  BY <1>0, <1>1, XorBlock DEF TypeOK, Value, LeafOutput, PlainOutput
<1>2. CASE scheme # "dpf"
  <2> DEFINE v == FromBlock[n.seed]
             w == IF n.bit = 1 THEN field61_add(v, lastCW) ELSE v
  <2>1. v \in Element
    BY <1>0, BlockAssumption
  <2>2. w \in Element
    BY <1>2, <2>1, AddElement DEF TypeOK, Value
  <2> HIDE DEF w
  <2>3. field61_neg(w) \in Element
    BY <2>2, NegElement
  <2> QED
    BY <1>2, <2>2, <2>3 DEF LeafOutput, FieldOutput, Value, w
<1> QED
  BY <1>1, <1>2

\* What one turn of the generation loop computes for level i of party b.
GrownNode(b, i) ==
  LET c0   == dpfPRG(gseed[0][i - 1])
      c1   == dpfPRG(gseed[1][i - 1])
      keep == GetBit(alpha, i)
  IN  Corrected((IF b = 0 THEN c0 ELSE c1)[keep], gbit[b][i - 1],
                Xor(c0[1 - keep].seed, c1[1 - keep].seed),
                ControlWord(c0, c1, keep)[keep])

\* The correction words of a level, and the nodes after it, have their types.
LEMMA GrowType ==
  ASSUME TypeOK, NEW i \in 1 .. Size
  PROVE  LET c0   == dpfPRG(gseed[0][i - 1])
             c1   == dpfPRG(gseed[1][i - 1])
             keep == GetBit(alpha, i)
         IN  /\ keep \in Side /\ 1 - keep \in Side /\ i - 1 \in Level /\ i \in Level
             /\ \A d \in Side : c0[d] \in Node /\ c1[d] \in Node
             /\ Xor(c0[1 - keep].seed, c1[1 - keep].seed) \in Block
             /\ ControlWord(c0, c1, keep) \in [Side -> Bit]
             /\ \A b \in Party : GrownNode(b, i) \in Node
<1> DEFINE c0 == dpfPRG(gseed[0][i - 1])
           c1 == dpfPRG(gseed[1][i - 1])
           keep == GetBit(alpha, i)
           sc == Xor(c0[1 - keep].seed, c1[1 - keep].seed)
           tc == ControlWord(c0, c1, keep)
<1>1. keep \in Side /\ 1 - keep \in Side /\ i - 1 \in Level /\ i \in Level
  BY InputAssumption, SizeAssumption DEF TypeOK, Side, Bit, Level
<1>2. gseed[0][i - 1] \in Block /\ gseed[1][i - 1] \in Block
  BY <1>1 DEF TypeOK, Party
<1>3. \A d \in Side : c0[d] \in Node /\ c1[d] \in Node
  BY <1>2, PrgType
<1> HIDE DEF c0, c1, keep
<1>4. sc \in Block
  <2>1. c0[1 - keep].seed \in Block /\ c1[1 - keep].seed \in Block
    BY <1>1, <1>3 DEF Node
  <2> QED
    BY <2>1, XorBlock
<1>5. tc \in [Side -> Bit]
  BY XorBitType DEF ControlWord
<1>6. ASSUME NEW b \in Party PROVE GrownNode(b, i) \in Node
  <2>1. gbit[b][i - 1] \in Bit /\ tc[keep] \in Bit
    BY <1>1, <1>5 DEF TypeOK
  <2>2. (IF b = 0 THEN c0 ELSE c1)[keep] \in Node
    BY <1>1, <1>3
  <2> HIDE DEF sc, tc
  <2>3. Corrected((IF b = 0 THEN c0 ELSE c1)[keep], gbit[b][i - 1], sc, tc[keep]) \in Node
    BY <1>4, <2>1, <2>2, CorrectedType
  <2> QED
    BY <2>3 DEF GrownNode, c0, c1, keep, sc, tc
<1> QED
  BY <1>1, <1>3, <1>4, <1>5, <1>6 DEF c0, c1, keep

\* No step changes the scheme.
LEMMA SchemeStable ==
  ASSUME [Next]_vars
  PROVE  scheme' = scheme /\ Value' = Value /\ PointValues' = PointValues
<1>1. scheme' = scheme
  BY DEF Next, GenSeed, GenLevel, GenRetry, GenFinish, EvalLevel, EvalLeaf, vars, genVars
<1> QED
  BY <1>1 DEF Value, PointValues

\* The type invariant of key generation and evaluation.
THEOREM TypeCorrect == Spec => []TypeOK
<1>1. Init => TypeOK
  <2> SUFFICES ASSUME Init PROVE TypeOK
    OBVIOUS
  <2>1. {} \in Block /\ 0 \in Bit /\ 0 \in Level /\ 0 \in Element /\ 1 \in 1 .. Len(Inputs) + 1
    BY SizeAssumption, ModulusAssumption, InputAssumption DEF Block, Bit, Level, Element
  <2>2. retries \in 0 .. MaxRetries
    BY InputAssumption DEF Init
  <2>3. Zero \in Value
    BY <2>1 DEF Zero, Value
  <2> QED
    BY <2>1, <2>2, <2>3 DEF Init, TypeOK, Row
<1>2. TypeOK /\ [Next]_vars => TypeOK'
  <2> SUFFICES ASSUME TypeOK, [Next]_vars PROVE TypeOK'
    OBVIOUS
  <2>0. scheme' = scheme /\ Value' = Value /\ PointValues' = PointValues
    BY SchemeStable
  <2>1. CASE \E r0, r1 \in Block : GenSeed(r0, r1)
    <3> PICK r0 \in Block, r1 \in Block : GenSeed(r0, r1)
      BY <2>1
    <3>1. gseed' \in [Party -> [Level -> Block]]
      BY DEF TypeOK, GenSeed
    <3>2. gbit' \in [Party -> [Level -> Bit]]
      BY DEF TypeOK, GenSeed, Party, Bit
    <3>3. level' \in Level
      BY SizeAssumption DEF GenSeed, Level
    <3> QED
      BY <2>0, <3>1, <3>2, <3>3 DEF TypeOK, GenSeed, evalVars
  <2>2. CASE GenLevel
    <3> DEFINE i == level + 1
               c0 == dpfPRG(gseed[0][level])
               c1 == dpfPRG(gseed[1][level])
               keep == GetBit(alpha, i)
    <3>1. i \in 1 .. Size /\ i - 1 = level
      BY <2>2, SizeAssumption DEF TypeOK, GenLevel, Level
    <3>2. /\ i \in Level
          /\ Xor(c0[1 - keep].seed, c1[1 - keep].seed) \in Block
          /\ ControlWord(c0, c1, keep) \in [Side -> Bit]
          /\ \A b \in Party : GrownNode(b, i) \in Node
      BY <3>1, GrowType
    <3>3. \A b \in Party : /\ gseed'[b] = [gseed[b] EXCEPT ![i] = GrownNode(b, i).seed]
                           /\ gbit'[b] = [gbit[b] EXCEPT ![i] = GrownNode(b, i).bit]
      BY <2>2, <3>1 DEF GenLevel, GrownNode
    <3>4. gseed' \in [Party -> [Level -> Block]] /\ gbit' \in [Party -> [Level -> Bit]]
      <4>1. \A b \in Party : GrownNode(b, i).seed \in Block /\ GrownNode(b, i).bit \in Bit
        BY <3>2 DEF Node
      <4>2. ASSUME NEW b \in Party
            PROVE  gseed'[b] \in [Level -> Block] /\ gbit'[b] \in [Level -> Bit]
        <5> HIDE DEF i
        <5>1. gseed[b] \in [Level -> Block] /\ gbit[b] \in [Level -> Bit]
          BY DEF TypeOK
        <5>2. [gseed[b] EXCEPT ![i] = GrownNode(b, i).seed] \in [Level -> Block]
          BY <3>2, <4>1, <5>1
        <5>3. [gbit[b] EXCEPT ![i] = GrownNode(b, i).bit] \in [Level -> Bit]
          BY <3>2, <4>1, <5>1
        <5> QED
          BY <3>3, <5>2, <5>3
      <4>3. /\ gseed' = [b \in Party |-> gseed'[b]]
            /\ gbit' = [b \in Party |-> gbit'[b]]
        BY <2>2 DEF GenLevel
      <4> QED
        BY <4>2, <4>3
    <3>5. sCW' \in [Level -> Block] /\ tCW' \in [Level -> [Side -> Bit]] /\ level' \in Level
      BY <2>2, <3>2 DEF GenLevel, TypeOK
    <3> QED
      BY <2>0, <2>2, <3>4, <3>5 DEF TypeOK, GenLevel, evalVars
  <2>3. CASE GenRetry
    BY <2>0, <2>3, InputAssumption DEF TypeOK, GenRetry, evalVars
  <2>4. CASE GenFinish
    <3>0. gseed[0][Size] \in Block /\ gseed[1][Size] \in Block
      <4>1. Size \in Level /\ 0 \in Party /\ 1 \in Party
        BY SizeAssumption DEF Level, Party
      <4> QED
        BY <4>1 DEF TypeOK
    <3>1. OutputWord \in Value
      <4>1. CASE scheme = "dpf"
        <5>1. One \in Block
          BY BlockAssumption DEF One, Block
        <5> QED
          BY <3>0, <4>1, <5>1, XorBlock DEF OutputWord, PlainWord, Value
      <4>2. CASE scheme = "vdpf"
        <5> DEFINE a == FromBlock[gseed[0][Size]]
                   c == FromBlock[gseed[1][Size]]
                   base == field61_add(beta, field61_sub(c, a))
        <5>1. a \in Element /\ c \in Element
          BY <3>0, BlockAssumption
        <5>2. beta \in Element
          BY <4>2, InputAssumption DEF TypeOK, PointValues
        <5>3. field61_sub(c, a) \in Element
          BY <5>1, SubElement
        <5>4. OutputWord = IF gbit[1][Size] = 0 THEN base ELSE field61_neg(base)
          BY <4>2 DEF OutputWord, BaseWord
        <5> HIDE DEF a, c
        <5>5. base \in Element
          BY <5>2, <5>3, AddElement
        <5> HIDE DEF base
        <5>6. field61_neg(base) \in Element
          BY <5>5, NegElement
        <5> QED
          BY <4>2, <5>4, <5>5, <5>6 DEF Value
      <4> QED
        BY <4>1, <4>2 DEF TypeOK
    <3>2. lastCW' = OutputWord
      BY <2>4 DEF GenFinish
    <3> QED
      BY <2>0, <2>4, <3>1, <3>2 DEF TypeOK, GenFinish, evalVars
  <2>5. CASE \E b \in Party : EvalLevel(b)
    <3> PICK b \in Party : EvalLevel(b)
      BY <2>5
    <3> DEFINE l == cur[b]
               i == depth[b] + 1
               c == Child(At(b, l, depth[b]), Inputs[l], i)
    <3>1. l \in DOMAIN Inputs /\ depth[b] \in Level /\ i \in 1 .. Size /\ i \in Level
      BY SizeAssumption DEF EvalLevel, TypeOK, Level
    <3>2. c \in Node
      BY <3>1, AtType, ChildType, InputType
    <3>3. c.seed \in Block /\ c.bit \in Bit
      BY <3>2 DEF Node
    <3>4. /\ seeds' = [seeds EXCEPT ![b][l][i] = c.seed]
          /\ bits' = [bits EXCEPT ![b][l][i] = c.bit]
          /\ depth' = [depth EXCEPT ![b] = i]
      BY DEF EvalLevel
    <3> HIDE DEF c, i, l
    <3>5. seeds' \in [Party -> [DOMAIN Inputs -> [Level -> Block]]]
      BY <3>1, <3>3, <3>4 DEF TypeOK
    <3>6. bits' \in [Party -> [DOMAIN Inputs -> [Level -> Bit]]]
      BY <3>1, <3>3, <3>4 DEF TypeOK
    <3> QED
      BY <2>0, <3>1, <3>4, <3>5, <3>6 DEF TypeOK, EvalLevel, genVars
  <2>6. CASE \E b \in Party : EvalLeaf(b)
    <3> PICK b \in Party : EvalLeaf(b)
      BY <2>6
    <3>1. cur[b] \in DOMAIN Inputs /\ Size \in Level /\ 0 \in Level
      BY SizeAssumption DEF EvalLeaf, Level
    <3>2. LeafOutput(b, At(b, cur[b], Size)) \in Value
      BY <3>1, AtType, LeafOutputType
    <3>3. out' \in [Party -> [DOMAIN Inputs -> Value]]
      BY <3>1, <3>2 DEF TypeOK, EvalLeaf
    <3>4. cur[b] + 1 \in 1 .. Len(Inputs) + 1
      BY <3>1, InputAssumption DEF TypeOK
    <3> QED
      BY <2>0, <3>1, <3>3, <3>4 DEF TypeOK, EvalLeaf, genVars
  <2>7. CASE UNCHANGED vars
    BY <2>0, <2>7 DEF TypeOK, vars, genVars, evalVars
  <2> QED
    BY <2>1, <2>2, <2>3, <2>4, <2>5, <2>6, <2>7 DEF Next
<1> QED
  BY <1>1, <1>2, PTL DEF Spec

(***************************************************************************)
(* The inductive invariant.  GenInv describes the path to alpha as it is   *)
(* generated; ChainInv, PathInv and LeftInv describe the walks: a node is  *)
(* the child of the one before it; on the way to alpha it is the node the  *)
(* generator saw; off it the two parties have one node.                    *)
(***************************************************************************)

GenNode(b, i) == [seed |-> gseed[b][i], bit |-> gbit[b][i]]

Grown(i) ==
  LET c0   == dpfPRG(gseed[0][i - 1])
      c1   == dpfPRG(gseed[1][i - 1])
      keep == GetBit(alpha, i)
  IN  /\ sCW[i] = Xor(c0[1 - keep].seed, c1[1 - keep].seed)
      /\ tCW[i] = ControlWord(c0, c1, keep)
      /\ \A b \in Party : GenNode(b, i) = GrownNode(b, i)

GenInv ==
  /\ pc # "seed" => /\ \A b \in Party : gbit[b][0] = b
                    /\ \A i \in 1 .. level : Grown(i)
                    /\ \A i \in 0 .. level : gbit[0][i] # gbit[1][i]
  /\ pc = "done" => level = Size /\ SelectorsDiffer /\ lastCW = OutputWord
  /\ pc # "done" => \A b \in Party : cur[b] = 1 /\ depth[b] = 0

ChainInv ==
  \A b \in Party, l \in DOMAIN Inputs, i \in 1 .. Size :
     Walked(b, l, i) => At(b, l, i) = Child(At(b, l, i - 1), Inputs[l], i)

PathInv ==
  \A b \in Party, l \in DOMAIN Inputs, i \in Level :
     (Walked(b, l, i) /\ OnPath(Inputs[l], i)) => At(b, l, i) = GenNode(b, i)

LeftInv ==
  \A l \in DOMAIN Inputs, i \in Level :
     (Walked(0, l, i) /\ Walked(1, l, i) /\ ~OnPath(Inputs[l], i)) =>
        At(0, l, i) = At(1, l, i)

OutInv ==
  \A b \in Party, l \in DOMAIN Inputs :
     l < cur[b] => out[b][l] = LeafOutput(b, At(b, l, Size))

TreeInv == TypeOK /\ GenInv /\ ChainInv /\ PathInv /\ LeftInv /\ OutInv

(***************************************************************************)
(* One level of the tree.                                                  *)
(***************************************************************************)

\* The control bits of the path to alpha differ level after level.
LEMMA GrownBitsDiffer ==
  ASSUME TypeOK, NEW i \in 1 .. Size, gbit[0][i - 1] # gbit[1][i - 1]
  PROVE  GrownNode(0, i).bit # GrownNode(1, i).bit
<1> DEFINE c0 == dpfPRG(gseed[0][i - 1])
           c1 == dpfPRG(gseed[1][i - 1])
           keep == GetBit(alpha, i)
           sc == Xor(c0[1 - keep].seed, c1[1 - keep].seed)
           tc == XorBit(XorBit(c0[keep].bit, c1[keep].bit), 1)
<1>1. keep \in Side /\ c0[keep] \in Node /\ c1[keep] \in Node /\ i - 1 \in Level
  BY GrowType
<1>2. gbit[0][i - 1] \in Bit /\ gbit[1][i - 1] \in Bit
  BY <1>1 DEF TypeOK, Party
<1>3. /\ GrownNode(0, i) = Corrected(c0[keep], gbit[0][i - 1], sc, tc)
      /\ GrownNode(1, i) = Corrected(c1[keep], gbit[1][i - 1], sc, tc)
  BY <1>1 DEF GrownNode, ControlWord
<1> HIDE DEF c0, c1, keep, sc
<1>4. Corrected(c0[keep], gbit[0][i - 1], sc, tc).bit # Corrected(c1[keep], gbit[1][i - 1], sc, tc).bit
  BY <1>1, <1>2, KeepSide
<1> QED
  BY <1>3, <1>4

\* On the way to alpha, a walk meets the nodes the generator saw.
LEMMA ChildOnPath ==
  ASSUME TypeOK, NEW i \in 1 .. Size, Grown(i), NEW b \in Party,
         NEW x \in Identifier, GetBit(x, i) = GetBit(alpha, i)
  PROVE  Child(GenNode(b, i - 1), x, i) = GenNode(b, i)
<1> DEFINE c0 == dpfPRG(gseed[0][i - 1])
           c1 == dpfPRG(gseed[1][i - 1])
           keep == GetBit(alpha, i)
<1>1. /\ sCW[i] = Xor(c0[1 - keep].seed, c1[1 - keep].seed)
      /\ tCW[i] = ControlWord(c0, c1, keep)
      /\ GenNode(b, i) = GrownNode(b, i)
  BY DEF Grown
<1>2. dpfPRG(gseed[b][i - 1]) = IF b = 0 THEN c0 ELSE c1
  BY DEF Party
<1>3. GenNode(b, i - 1).seed = gseed[b][i - 1] /\ GenNode(b, i - 1).bit = gbit[b][i - 1]
  BY DEF GenNode
<1> HIDE DEF c0, c1
<1>4. Child(GenNode(b, i - 1), x, i) =
        Corrected((IF b = 0 THEN c0 ELSE c1)[keep], gbit[b][i - 1], sCW[i], tCW[i][keep])
  BY <1>2, <1>3 DEF Child
<1>5. GrownNode(b, i) =
        Corrected((IF b = 0 THEN c0 ELSE c1)[keep], gbit[b][i - 1], sCW[i], tCW[i][keep])
  BY <1>1 DEF GrownNode, c0, c1
<1> QED
  BY <1>1, <1>4, <1>5

\* Leaving the way to alpha, the two parties meet in one node.
LEMMA ChildOffPath ==
  ASSUME TypeOK, NEW i \in 1 .. Size, Grown(i), gbit[0][i - 1] # gbit[1][i - 1],
         NEW x \in Identifier, GetBit(x, i) # GetBit(alpha, i)
  PROVE  Child(GenNode(0, i - 1), x, i) = Child(GenNode(1, i - 1), x, i)
<1> DEFINE c0 == dpfPRG(gseed[0][i - 1])
           c1 == dpfPRG(gseed[1][i - 1])
           d == GetBit(x, i)
           sc == Xor(c0[d].seed, c1[d].seed)
           tc == XorBit(XorBit(c0[d].bit, c1[d].bit), 0)
<1>1. d \in Side /\ GetBit(alpha, i) \in Side
  BY InputAssumption DEF TypeOK, Side, Bit
<1>2. d = 1 - GetBit(alpha, i)
  BY <1>1 DEF Side
<1>3. i - 1 \in Level /\ c0[d] \in Node /\ c1[d] \in Node
  BY <1>1, GrowType
<1>4. gbit[0][i - 1] \in Bit /\ gbit[1][i - 1] \in Bit
  BY <1>3 DEF TypeOK, Party
<1>5. sCW[i] = sc
  BY <1>2 DEF Grown
<1>6. tCW[i][d] = tc
  BY <1>1, <1>2 DEF Grown, ControlWord
<1>7. /\ Child(GenNode(0, i - 1), x, i) = Corrected(c0[d], gbit[0][i - 1], sc, tc)
      /\ Child(GenNode(1, i - 1), x, i) = Corrected(c1[d], gbit[1][i - 1], sc, tc)
  BY <1>5, <1>6 DEF Child, GenNode
<1> HIDE DEF c0, c1, d
<1>8. Corrected(c0[d], gbit[0][i - 1], sc, tc) = Corrected(c1[d], gbit[1][i - 1], sc, tc)
  BY <1>3, <1>4, LoseSide
<1> QED
  BY <1>7, <1>8

(***************************************************************************)
(* Generation keeps the invariant: nothing has been walked before it ends. *)
(***************************************************************************)

\* The two seeds start the path.
LEMMA StepSeed ==
  ASSUME TreeInv, TypeOK', NEW r0 \in Block, NEW r1 \in Block, GenSeed(r0, r1)
  PROVE  TreeInv'
<1>1. GenInv'
  <2>1. level' = 0 /\ pc' = "grow" /\ \A b \in Party : gbit'[b][0] = b
    BY SizeAssumption DEF GenSeed, TreeInv, TypeOK, Level
  <2>2. \A b \in Party : cur'[b] = 1 /\ depth'[b] = 0
    BY DEF GenSeed, TreeInv, GenInv, evalVars
  <2> QED
    BY <2>1, <2>2 DEF GenInv, Party
<1>2. \A b, l, j : ~Walked(b, l, j)'
  BY DEF Walked, GenSeed
<1>3. \A b \in Party, l \in DOMAIN Inputs : ~(l < cur'[b])
  BY InputAssumption DEF GenSeed, TreeInv, GenInv, evalVars
<1> QED
  BY <1>1, <1>2, <1>3 DEF TreeInv, ChainInv, PathInv, LeftInv, OutInv, Party

\* A level of the generation extends it by one.
LEMMA StepLevel ==
  ASSUME TreeInv, TypeOK', GenLevel
  PROVE  TreeInv'
<1>0. level \in 0 .. Size /\ level < Size /\ level' = level + 1 /\ Size \in Nat
  BY SizeAssumption DEF TreeInv, TypeOK, GenLevel, Level
<1> PICK i \in 1 .. Size : i = level + 1
  BY <1>0
<1>1. /\ i \in 1 .. Size /\ i \in Level /\ i - 1 = level /\ level' = i
      /\ level \in Nat /\ level \in Level /\ i = level + 1 /\ Size \in Nat
  BY <1>0, SizeAssumption DEF Level
<1>2. \A b \in Party : /\ gseed'[b] = [gseed[b] EXCEPT ![i] = GrownNode(b, i).seed]
                       /\ gbit'[b] = [gbit[b] EXCEPT ![i] = GrownNode(b, i).bit]
  BY <1>1 DEF GenLevel, GrownNode
<1>3. \A b \in Party, j \in Level :
         j # i => gseed'[b][j] = gseed[b][j] /\ gbit'[b][j] = gbit[b][j]
  BY <1>2 DEF TreeInv, TypeOK
<1>4. \A b \in Party : gseed'[b][i] = GrownNode(b, i).seed /\ gbit'[b][i] = GrownNode(b, i).bit
  BY <1>1, <1>2 DEF TreeInv, TypeOK
<1>5. alpha' = alpha /\ pc' = pc /\ pc = "grow" /\ evalVars' = evalVars
  BY DEF GenLevel
<1>6. \A j \in 1 .. Size : j # i => sCW'[j] = sCW[j] /\ tCW'[j] = tCW[j]
  <2>1. /\ sCW' = [sCW EXCEPT ![i] = sCW'[i]] /\ sCW \in [Level -> Block]
        /\ tCW' = [tCW EXCEPT ![i] = tCW'[i]] /\ tCW \in [Level -> [Side -> Bit]]
    BY <1>1 DEF GenLevel, TreeInv, TypeOK
  <2>2. \A j \in 1 .. Size : j \in Level
    BY <1>1 DEF Level
  <2> QED
    BY <1>1, <2>1, <2>2
<1>7. \A j \in 1 .. i : \A b \in Party : GrownNode(b, j)' = GrownNode(b, j)
  <2> SUFFICES ASSUME NEW j \in 1 .. i, NEW b \in Party
               PROVE  GrownNode(b, j)' = GrownNode(b, j)
    OBVIOUS
  <2>1. j - 1 \in Level /\ j - 1 # i
    BY <1>1 DEF Level
  <2>2. gseed'[0][j - 1] = gseed[0][j - 1] /\ gseed'[1][j - 1] = gseed[1][j - 1]
        /\ gbit'[b][j - 1] = gbit[b][j - 1]
    BY <1>3, <2>1 DEF Party
  <2> QED
    BY <1>5, <2>2 DEF GrownNode
<1>8. \A j \in 1 .. level : Grown(j)'
  <2> SUFFICES ASSUME NEW j \in 1 .. level PROVE Grown(j)'
    OBVIOUS
  <2>1. j \in 1 .. Size /\ j # i /\ j \in Level /\ j - 1 \in Level /\ j - 1 # i /\ j \in 1 .. i
    BY <1>1, SizeAssumption DEF Level
  <2>2. Grown(j)
    BY <1>5 DEF TreeInv, GenInv
  <2>3. gseed'[0][j - 1] = gseed[0][j - 1] /\ gseed'[1][j - 1] = gseed[1][j - 1]
    BY <1>3, <2>1 DEF Party
  <2>4. \A b \in Party : GenNode(b, j)' = GenNode(b, j)
    BY <1>3, <2>1 DEF GenNode
  <2>5. sCW'[j] = sCW[j] /\ tCW'[j] = tCW[j]
    BY <1>6, <2>1
  <2>6. \A b \in Party : GrownNode(b, j)' = GrownNode(b, j)
    BY <1>7, <2>1
  <2> QED
    BY <1>5, <2>2, <2>3, <2>4, <2>5, <2>6 DEF Grown
<1>9. Grown(i)'
  <2>1. gseed'[0][level] = gseed[0][level] /\ gseed'[1][level] = gseed[1][level]
    BY <1>1, <1>3 DEF Party, TreeInv, TypeOK
  <2>2. \A b \in Party : GrownNode(b, i)' = GrownNode(b, i)
    BY <1>7, <1>1
  <2>3. \A b \in Party : GenNode(b, i)' = GrownNode(b, i)
    <3> TAKE b \in Party
    <3>1. GrownNode(b, i) \in Node
      BY <1>1, GrowType DEF TreeInv
    <3>2. GrownNode(b, i) = [seed |-> GrownNode(b, i).seed, bit |-> GrownNode(b, i).bit]
      BY <3>1 DEF Node
    <3> QED
      BY <1>4, <3>2 DEF GenNode
  <2>4. /\ sCW'[i] = Xor(dpfPRG(gseed[0][level])[1 - GetBit(alpha, i)].seed,
                         dpfPRG(gseed[1][level])[1 - GetBit(alpha, i)].seed)
        /\ tCW'[i] = ControlWord(dpfPRG(gseed[0][level]), dpfPRG(gseed[1][level]), GetBit(alpha, i))
    BY <1>1 DEF GenLevel, TreeInv, TypeOK
  <2> QED
    BY <1>1, <1>5, <2>1, <2>2, <2>3, <2>4 DEF Grown
<1>10. \A j \in 0 .. i : gbit'[0][j] # gbit'[1][j]
  <2>1. \A j \in 0 .. level : j \in Level /\ j # i
    BY <1>1 DEF Level
  <2>2. \A j \in 0 .. level : gbit'[0][j] # gbit'[1][j]
    BY <1>3, <1>5, <2>1 DEF Party, TreeInv, GenInv
  <2>3. gbit[0][i - 1] # gbit[1][i - 1]
    BY <1>1, <1>5 DEF TreeInv, GenInv, TypeOK, Level
  <2>4. gbit'[0][i] # gbit'[1][i]
    BY <1>1, <1>4, <2>3, GrownBitsDiffer DEF Party, TreeInv
  <2> QED
    BY <1>1, <2>2, <2>4
<1>11. \A b \in Party : gbit'[b][0] = b
  BY <1>1, <1>3, <1>5, SizeAssumption DEF TreeInv, GenInv, Level
<1>12. \A b \in Party : cur'[b] = 1 /\ depth'[b] = 0
  BY <1>5 DEF TreeInv, GenInv, evalVars
<1>13. \A j \in 1 .. i : Grown(j)'
  <2>1. \A j \in 1 .. i : j = i \/ j \in 1 .. level
    BY <1>1
  <2> QED
    BY <1>8, <1>9, <2>1
<1>14. GenInv'
  BY <1>1, <1>5, <1>10, <1>11, <1>12, <1>13 DEF GenInv
<1>15. \A b, l, j : ~Walked(b, l, j)'
  BY <1>5 DEF Walked
<1>16. \A b \in Party, l \in DOMAIN Inputs : ~(l < cur'[b])
  BY <1>12, InputAssumption
<1> QED
  BY <1>14, <1>15, <1>16 DEF TreeInv, ChainInv, PathInv, LeftInv, OutInv, Party

\* A retry starts it afresh.
LEMMA StepRetry ==
  ASSUME TreeInv, TypeOK', GenRetry
  PROVE  TreeInv'
<1>1. \A b \in Party : cur'[b] = 1 /\ depth'[b] = 0
  BY DEF GenRetry, TreeInv, GenInv, evalVars
<1>2. GenInv'
  BY <1>1 DEF GenRetry, GenInv
<1>3. \A b, l, j : ~Walked(b, l, j)'
  BY DEF Walked, GenRetry
<1>4. \A b \in Party, l \in DOMAIN Inputs : ~(l < cur'[b])
  BY <1>1, InputAssumption
<1> QED
  BY <1>2, <1>3, <1>4 DEF TreeInv, ChainInv, PathInv, LeftInv, OutInv, Party

\* The end of the generation leaves the tree as it is.
LEMMA StepFinish ==
  ASSUME TreeInv, TypeOK', GenFinish
  PROVE  TreeInv'
<1>1. /\ pc = "grow" /\ pc' = "done" /\ level = Size
      /\ UNCHANGED <<scheme, alpha, beta, level, gseed, gbit, sCW, tCW, evalVars>>
  BY DEF GenFinish
<1>2. \A b \in Party : cur'[b] = 1 /\ depth'[b] = 0 /\ cur[b] = 1
  BY <1>1 DEF TreeInv, GenInv, evalVars
<1>3. GenInv'
  <2>1. lastCW' = OutputWord
    BY DEF GenFinish
  <2>2. OutputWord' = OutputWord /\ SelectorsDiffer' = SelectorsDiffer /\ SelectorsDiffer
    BY <1>1 DEF OutputWord, PlainWord, BaseWord, SelectorsDiffer, GenFinish
  <2>3. \A i : Grown(i)' = Grown(i)
    BY <1>1 DEF Grown, GenNode, GrownNode
  <2> QED
    BY <1>1, <2>1, <2>2, <2>3 DEF TreeInv, GenInv
<1>4. \A b \in Party, l \in DOMAIN Inputs, i \in Level : Walked(b, l, i)' => i = 0
  BY <1>2, InputAssumption DEF Walked, Level
<1>5. \A b \in Party, l \in DOMAIN Inputs : ~(l < cur'[b])
  BY <1>2, InputAssumption
<1>6. \A b \in Party : \A l : At(b, l, 0)' = GenNode(b, 0)'
  BY <1>1 DEF At, Root, GenNode, TreeInv, GenInv
<1>7. \A x : OnPath(x, 0)'
  BY DEF OnPath
<1> QED
  BY <1>3, <1>4, <1>5, <1>6, <1>7 DEF TreeInv, ChainInv, PathInv, LeftInv, OutInv, Party, Level

(***************************************************************************)
(* Evaluation keeps the invariant.                                         *)
(***************************************************************************)

\* A step of evaluation leaves the key and its path alone.
LEMMA KeyStable ==
  ASSUME UNCHANGED genVars
  PROVE  /\ pc' = pc
         /\ \A n, x, i : Child(n, x, i)' = Child(n, x, i)
         /\ \A b, i : GenNode(b, i)' = GenNode(b, i) /\ Root(b)' = Root(b)
         /\ \A i : Grown(i)' = Grown(i)
         /\ \A x, i : OnPath(x, i)' = OnPath(x, i)
         /\ \A b, n : LeafOutput(b, n)' = LeafOutput(b, n)
         /\ (pc = "done" /\ GenInv) => GenInv'
<1>1. /\ pc' = pc
      /\ \A n, x, i : Child(n, x, i)' = Child(n, x, i)
      /\ \A b, i : GenNode(b, i)' = GenNode(b, i) /\ Root(b)' = Root(b)
      /\ \A x, i : OnPath(x, i)' = OnPath(x, i)
      /\ \A b, n : LeafOutput(b, n)' = LeafOutput(b, n)
  BY DEF genVars, Child, GenNode, Root, OnPath, LeafOutput, PlainOutput, FieldOutput
<1>2. \A i : Grown(i)' = Grown(i)
  BY DEF genVars, Grown, GenNode, GrownNode
<1>3. OutputWord' = OutputWord /\ SelectorsDiffer' = SelectorsDiffer
  BY DEF genVars, OutputWord, PlainWord, BaseWord, SelectorsDiffer
<1> QED
  BY <1>1, <1>2, <1>3 DEF GenInv, genVars

\* A level of an evaluation keeps the invariant,
LEMMA StepEvalLevel ==
  ASSUME TreeInv, TypeOK', NEW b \in Party, EvalLevel(b)
  PROVE  TreeInv'
<1>0. /\ cur[b] \in DOMAIN Inputs /\ depth[b] \in 0 .. Size /\ depth[b] < Size
      /\ pc = "done" /\ Size \in Nat
  BY SizeAssumption DEF EvalLevel, TreeInv, TypeOK, Level
<1> PICK l \in DOMAIN Inputs : l = cur[b]
  BY <1>0
<1> PICK i \in 1 .. Size : i = depth[b] + 1
  BY <1>0
<1>1. /\ i \in Level /\ i - 1 \in Level /\ i - 1 = depth[b] /\ i # i - 1 /\ i # 0
      /\ l \in Nat /\ Inputs[l] \in Identifier
  BY <1>0, SizeAssumption, InputAssumption DEF Level
<1>2. /\ UNCHANGED genVars /\ cur' = cur /\ out' = out
      /\ depth' = [depth EXCEPT ![b] = i]
  BY <1>1 DEF EvalLevel
<1> DEFINE c == Child(At(b, l, i - 1), Inputs[l], i)
<1>3. /\ seeds' = [seeds EXCEPT ![b][l][i] = c.seed]
      /\ bits' = [bits EXCEPT ![b][l][i] = c.bit]
  BY <1>1 DEF EvalLevel
<1>4. c \in Node
  BY <1>1, AtType, ChildType DEF TreeInv
<1> HIDE DEF c
\* Only the new node changes.
<1>5. ASSUME NEW b2 \in Party, NEW l2 \in DOMAIN Inputs, NEW j \in Level,
             ~(b2 = b /\ l2 = l /\ j = i)
      PROVE  At(b2, l2, j)' = At(b2, l2, j)
  <2>1. seeds'[b2][l2][j] = seeds[b2][l2][j] /\ bits'[b2][l2][j] = bits[b2][l2][j]
    BY <1>3, <1>5 DEF TreeInv, TypeOK
  <2>2. Root(b2)' = Root(b2)
    BY <1>2, KeyStable
  <2> QED
    BY <2>1, <2>2 DEF At
<1>6. At(b, l, i)' = c
  <2>1. seeds'[b][l][i] = c.seed /\ bits'[b][l][i] = c.bit
    BY <1>1, <1>3 DEF TreeInv, TypeOK
  <2> QED
    BY <1>1, <1>4, <2>1 DEF At, Node
<1>7. ASSUME NEW b2 \in Party, NEW l2 \in DOMAIN Inputs, NEW j \in Level, Walked(b2, l2, j)'
      PROVE  Walked(b2, l2, j) \/ (b2 = b /\ l2 = l /\ j = i)
  <2>1. CASE b2 = b
    <3>1. depth'[b] = i /\ cur'[b] = cur[b]
      BY <1>2 DEF TreeInv, TypeOK
    <3>2. l2 < cur[b] \/ (l2 = cur[b] /\ j <= i)
      BY <1>7, <2>1, <3>1 DEF Walked
    <3>3. j <= i => (j = i \/ j <= depth[b])
      BY <1>0, <1>1 DEF Level
    <3> QED
      BY <1>0, <2>1, <3>2, <3>3 DEF Walked
  <2>2. CASE b2 # b
    <3>1. depth'[b2] = depth[b2] /\ cur'[b2] = cur[b2]
      BY <1>2, <2>2 DEF TreeInv, TypeOK
    <3> QED
      BY <1>0, <1>7, <3>1 DEF Walked
  <2> QED
    BY <2>1, <2>2
<1>8. Walked(b, l, i - 1) /\ ~Walked(b, l, i)
  BY <1>0, <1>1 DEF Walked
<1>9. Walked(b, l, i - 1)' /\ Walked(b, l, i)'
  BY <1>0, <1>1, <1>2, KeyStable DEF Walked, TreeInv, TypeOK
<1>10. ASSUME NEW b2 \in Party, NEW l2 \in DOMAIN Inputs, NEW j \in 1 .. Size, Walked(b2, l2, j)
       PROVE  Walked(b2, l2, j - 1) /\ j \in Level /\ j - 1 \in Level
  BY <1>10, <1>0, SMTT(30) DEF Walked, Level, TreeInv, TypeOK
<1>11. ChainInv'
  <2> SUFFICES ASSUME NEW b2 \in Party, NEW l2 \in DOMAIN Inputs, NEW j \in 1 .. Size,
                      Walked(b2, l2, j)'
               PROVE  At(b2, l2, j)' = Child(At(b2, l2, j - 1), Inputs[l2], j)'
    BY DEF ChainInv
  <2>0. j \in Level
    BY <1>0 DEF Level
  <2>1. CASE Walked(b2, l2, j)
    <3>1. At(b2, l2, j) = Child(At(b2, l2, j - 1), Inputs[l2], j)
      BY <2>1 DEF TreeInv, ChainInv
    <3>2. At(b2, l2, j)' = At(b2, l2, j)
      BY <1>5, <1>8, <2>0, <2>1
    <3>3. At(b2, l2, j - 1)' = At(b2, l2, j - 1)
      BY <1>5, <1>8, <1>10, <2>1
    <3> QED
      BY <1>2, <3>1, <3>2, <3>3, KeyStable
  <2>2. CASE b2 = b /\ l2 = l /\ j = i
    <3>1. At(b, l, i - 1)' = At(b, l, i - 1)
      BY <1>1, <1>5
    <3> QED
      BY <1>2, <1>6, <2>2, <3>1, KeyStable DEF c
  <2> QED
    BY <1>7, <2>0, <2>1, <2>2
\* The input up to level i takes the way of alpha only if it did before.
<1>12. OnPath(Inputs[l], i) <=> /\ OnPath(Inputs[l], i - 1)
                               /\ GetBit(Inputs[l], i) = GetBit(alpha, i)
  <2>1. \A j : j \in 1 .. i <=> (j \in 1 .. i - 1 \/ j = i)
    BY <1>0, <1>1
  <2> QED
    BY <2>1 DEF OnPath
<1>13. Grown(i) /\ gbit[0][i - 1] # gbit[1][i - 1]
  BY <1>0, <1>1 DEF TreeInv, GenInv
<1>14. PathInv'
  <2> SUFFICES ASSUME NEW b2 \in Party, NEW l2 \in DOMAIN Inputs, NEW j \in Level,
                      Walked(b2, l2, j)', OnPath(Inputs[l2], j)'
               PROVE  At(b2, l2, j)' = GenNode(b2, j)'
    BY DEF PathInv
  <2>1. CASE Walked(b2, l2, j)
    <3>1. At(b2, l2, j)' = At(b2, l2, j)
      BY <1>5, <1>8, <2>1
    <3> QED
      BY <1>2, <2>1, <3>1, KeyStable DEF TreeInv, PathInv
  <2>2. CASE b2 = b /\ l2 = l /\ j = i
    <3>1. OnPath(Inputs[l], i)
      BY <1>2, <2>2, KeyStable
    <3>2. At(b, l, i - 1) = GenNode(b, i - 1)
      BY <1>1, <1>8, <1>12, <3>1 DEF TreeInv, PathInv
    <3>3. Child(GenNode(b, i - 1), Inputs[l], i) = GenNode(b, i)
      BY <1>1, <1>12, <1>13, <3>1, ChildOnPath DEF TreeInv
    <3> QED
      BY <1>2, <1>6, <2>2, <3>2, <3>3, KeyStable DEF c
  <2> QED
    BY <1>7, <2>1, <2>2
<1>15. LeftInv'
  <2> SUFFICES ASSUME NEW l2 \in DOMAIN Inputs, NEW j \in Level,
                      Walked(0, l2, j)', Walked(1, l2, j)', ~OnPath(Inputs[l2], j)'
               PROVE  At(0, l2, j)' = At(1, l2, j)'
    BY DEF LeftInv
  <2>0. 0 \in Party /\ 1 \in Party /\ ~OnPath(Inputs[l2], j)
    BY <1>2, KeyStable DEF Party
  <2>1. CASE Walked(0, l2, j) /\ Walked(1, l2, j)
    <3>1. At(0, l2, j)' = At(0, l2, j) /\ At(1, l2, j)' = At(1, l2, j)
      BY <1>5, <1>8, <2>0, <2>1
    <3> QED
      BY <2>0, <2>1, <3>1 DEF TreeInv, LeftInv
  <2>2. CASE l2 = l /\ j = i
    \* Both nodes are children of nodes at level i - 1 that both walked.
    <3>1. At(0, l, i)' = Child(At(0, l, i - 1), Inputs[l], i)'
          /\ At(1, l, i)' = Child(At(1, l, i - 1), Inputs[l], i)'
      BY <1>11, <2>0, <2>2 DEF ChainInv
    <3>2. At(0, l, i - 1)' = At(0, l, i - 1) /\ At(1, l, i - 1)' = At(1, l, i - 1)
      BY <1>1, <1>5, <2>0
    <3>3. Walked(0, l, i - 1) /\ Walked(1, l, i - 1)
      BY <1>7, <1>8, <1>10, <2>0, <2>2, <1>1
    <3>4. Child(At(0, l, i - 1), Inputs[l], i) = Child(At(1, l, i - 1), Inputs[l], i)
      <4>1. CASE OnPath(Inputs[l], i - 1)
        <5>1. GetBit(Inputs[l], i) # GetBit(alpha, i)
          BY <1>12, <2>0, <2>2, <4>1
        <5>2. At(0, l, i - 1) = GenNode(0, i - 1) /\ At(1, l, i - 1) = GenNode(1, i - 1)
          BY <1>1, <2>0, <3>3, <4>1 DEF TreeInv, PathInv
        <5> QED
          BY <1>1, <1>13, <5>1, <5>2, ChildOffPath DEF TreeInv
      <4>2. CASE ~OnPath(Inputs[l], i - 1)
        BY <1>1, <3>3, <4>2 DEF TreeInv, LeftInv
      <4> QED
        BY <4>1, <4>2
    <3> QED
      BY <1>2, <2>2, <3>1, <3>2, <3>4, KeyStable
  <2> QED
    BY <1>7, <2>0, <2>1, <2>2
<1>16. OutInv'
  <2> SUFFICES ASSUME NEW b2 \in Party, NEW l2 \in DOMAIN Inputs, l2 < cur'[b2]
               PROVE  out'[b2][l2] = LeafOutput(b2, At(b2, l2, Size))'
    BY DEF OutInv
  <2>1. Size \in Level /\ ~(b2 = b /\ l2 = l)
    BY <1>0, <1>1, <1>2 DEF Level
  <2>2. At(b2, l2, Size)' = At(b2, l2, Size)
    BY <1>5, <2>1
  <2>3. out[b2][l2] = LeafOutput(b2, At(b2, l2, Size))
    BY <1>2 DEF TreeInv, OutInv
  <2> QED
    BY <1>2, <2>2, <2>3, KeyStable
<1>17. GenInv'
  BY <1>0, <1>2, KeyStable DEF TreeInv
<1> QED
  BY <1>11, <1>14, <1>15, <1>16, <1>17 DEF TreeInv

\* and so does its leaf.
LEMMA StepEvalLeaf ==
  ASSUME TreeInv, TypeOK', NEW b \in Party, EvalLeaf(b)
  PROVE  TreeInv'
<1>0. /\ cur[b] \in DOMAIN Inputs /\ depth[b] = Size /\ pc = "done" /\ Size \in Nat \ {0}
      /\ cur[b] \in Nat
  BY SizeAssumption, InputAssumption DEF EvalLeaf
<1>1. /\ UNCHANGED genVars /\ seeds' = seeds /\ bits' = bits
      /\ cur' = [cur EXCEPT ![b] = cur[b] + 1] /\ depth' = [depth EXCEPT ![b] = 0]
      /\ out' = [out EXCEPT ![b][cur[b]] = LeafOutput(b, At(b, cur[b], Size))]
  BY DEF EvalLeaf
<1>2. \A b2, l, i : At(b2, l, i)' = At(b2, l, i)
  BY <1>1, KeyStable DEF At
<1>3. ASSUME NEW b2 \in Party, NEW l \in DOMAIN Inputs, NEW i \in Level, Walked(b2, l, i)'
      PROVE  Walked(b2, l, i) \/ i = 0
  <2>1. CASE b2 = b
    <3>1. cur'[b] = cur[b] + 1 /\ depth'[b] = 0
      BY <1>1 DEF TreeInv, TypeOK
    <3>2. l < cur[b] + 1 \/ i <= 0
      BY <1>3, <2>1, <3>1 DEF Walked
    <3>3. l \in Nat /\ i \in Nat /\ i <= Size
      BY <1>0, InputAssumption DEF Level
    <3> QED
      BY <1>0, <2>1, <3>2, <3>3 DEF Walked
  <2>2. CASE b2 # b
    <3>1. depth'[b2] = depth[b2] /\ cur'[b2] = cur[b2]
      BY <1>1, <2>2 DEF TreeInv, TypeOK
    <3> QED
      BY <1>0, <1>3, <3>1 DEF Walked
  <2> QED
    BY <2>1, <2>2
<1>4. \A i \in 1 .. Size : i # 0 /\ i \in Level
  BY <1>0 DEF Level
<1>5. ChainInv'
  BY <1>1, <1>2, <1>3, <1>4, KeyStable DEF TreeInv, ChainInv
<1>6. \A b2 \in Party : \A l : At(b2, l, 0) = GenNode(b2, 0)
  BY <1>0, SizeAssumption DEF At, Root, GenNode, TreeInv, GenInv
<1>7. \A x : OnPath(x, 0)
  BY DEF OnPath
<1>8. PathInv'
  <2> SUFFICES ASSUME NEW b2 \in Party, NEW l \in DOMAIN Inputs, NEW i \in Level,
                      Walked(b2, l, i)', OnPath(Inputs[l], i)'
               PROVE  At(b2, l, i)' = GenNode(b2, i)'
    BY DEF PathInv
  <2>1. OnPath(Inputs[l], i) /\ GenNode(b2, i)' = GenNode(b2, i)
    BY <1>1, KeyStable
  <2> QED
    BY <1>2, <1>3, <1>6, <2>1 DEF TreeInv, PathInv
<1>9. LeftInv'
  <2> SUFFICES ASSUME NEW l \in DOMAIN Inputs, NEW i \in Level,
                      Walked(0, l, i)', Walked(1, l, i)', ~OnPath(Inputs[l], i)'
               PROVE  At(0, l, i)' = At(1, l, i)'
    BY DEF LeftInv
  <2>1. ~OnPath(Inputs[l], i)
    BY <1>1, KeyStable
  <2>2. i # 0
    BY <1>7, <2>1
  <2>3. Walked(0, l, i) /\ Walked(1, l, i)
    BY <1>3, <2>2 DEF Party
  <2> QED
    BY <1>2, <2>1, <2>3 DEF TreeInv, LeftInv
<1>10. OutInv'
  <2> SUFFICES ASSUME NEW b2 \in Party, NEW l \in DOMAIN Inputs, l < cur'[b2]
               PROVE  out'[b2][l] = LeafOutput(b2, At(b2, l, Size))'
    BY DEF OutInv
  <2>1. LeafOutput(b2, At(b2, l, Size))' = LeafOutput(b2, At(b2, l, Size))
    <3>1. At(b2, l, Size)' = At(b2, l, Size)
      BY <1>2
    <3> QED
      BY <1>1, <3>1, KeyStable
  <2>2. CASE b2 = b /\ l = cur[b]
    <3>1. out'[b][cur[b]] = LeafOutput(b, At(b, cur[b], Size))
      BY <1>0, <1>1 DEF TreeInv, TypeOK
    <3> QED
      BY <2>1, <2>2, <3>1
  <2>3. CASE ~(b2 = b /\ l = cur[b])
    <3>1. out'[b2][l] = out[b2][l]
      BY <1>1, <2>3 DEF TreeInv, TypeOK
    <3>2. l < cur[b2]
      <4>1. l \in Nat
        BY InputAssumption
      <4>2. cur'[b2] = IF b2 = b THEN cur[b] + 1 ELSE cur[b2]
        BY <1>1 DEF TreeInv, TypeOK
      <4> QED
        BY <1>0, <2>3, <4>1, <4>2
    <3> QED
      BY <2>1, <3>1, <3>2 DEF TreeInv, OutInv
  <2> QED
    BY <2>2, <2>3
<1>11. GenInv'
  BY <1>0, <1>1, KeyStable DEF TreeInv
<1> QED
  BY <1>5, <1>8, <1>9, <1>10, <1>11 DEF TreeInv

(***************************************************************************)
(* The theorems.                                                           *)
(***************************************************************************)

\* The strengthened invariant holds of every generation and evaluation.
THEOREM TreeInductive == Spec => []TreeInv
<1>1. Init /\ TypeOK => TreeInv
  <2> SUFFICES ASSUME Init, TypeOK PROVE TreeInv
    OBVIOUS
  <2>1. pc = "seed" /\ \A b \in Party : cur[b] = 1 /\ depth[b] = 0
    BY DEF Init
  <2>2. GenInv
    BY <2>1 DEF GenInv
  <2>3. \A b, l, i : ~Walked(b, l, i)
    BY <2>1 DEF Walked
  <2>4. \A b \in Party, l \in DOMAIN Inputs : ~(l < cur[b])
    BY <2>1, InputAssumption
  <2> QED
    BY <2>2, <2>3, <2>4 DEF TreeInv, ChainInv, PathInv, LeftInv, OutInv, Party
<1>2. TreeInv /\ TypeOK' /\ [Next]_vars => TreeInv'
  <2> SUFFICES ASSUME TreeInv, TypeOK', [Next]_vars PROVE TreeInv'
    OBVIOUS
  <2>1. CASE \E r0, r1 \in Block : GenSeed(r0, r1)
    BY <2>1, StepSeed
  <2>2. CASE GenLevel
    BY <2>2, StepLevel
  <2>3. CASE GenRetry
    BY <2>3, StepRetry
  <2>4. CASE GenFinish
    BY <2>4, StepFinish
  <2>5. CASE \E b \in Party : EvalLevel(b)
    BY <2>5, StepEvalLevel
  <2>6. CASE \E b \in Party : EvalLeaf(b)
    BY <2>6, StepEvalLeaf
  <2>7. CASE UNCHANGED vars
    <3>1. UNCHANGED genVars /\ UNCHANGED evalVars
      BY <2>7 DEF vars
    <3>2. UNCHANGED <<cur, depth, seeds, bits, out>>
      BY <3>1 DEF evalVars
    <3>3. /\ \A b, l, i : At(b, l, i)' = At(b, l, i)
          /\ \A b, l, i : Walked(b, l, i)' = Walked(b, l, i)
      BY <3>1, <3>2, KeyStable DEF At, Walked
    <3>4. GenInv'
      <4>1. \A i : Grown(i)' = Grown(i)
        BY <3>1, KeyStable
      <4>2. OutputWord' = OutputWord /\ SelectorsDiffer' = SelectorsDiffer
        BY <3>1 DEF genVars, OutputWord, PlainWord, BaseWord, SelectorsDiffer
      <4> QED
        BY <3>1, <3>2, <4>1, <4>2 DEF TreeInv, GenInv, genVars
    <3>5. ChainInv'
      BY <3>1, <3>3, KeyStable DEF TreeInv, ChainInv
    <3>6. PathInv'
      BY <3>1, <3>3, KeyStable DEF TreeInv, PathInv
    <3>7. LeftInv'
      BY <3>1, <3>3, KeyStable DEF TreeInv, LeftInv
    <3>8. OutInv'
      <4> SUFFICES ASSUME NEW b \in Party, NEW l \in DOMAIN Inputs, l < cur'[b]
                   PROVE  out'[b][l] = LeafOutput(b, At(b, l, Size))'
        BY DEF OutInv
      <4>1. At(b, l, Size)' = At(b, l, Size)
        BY <3>3
      <4>2. LeafOutput(b, At(b, l, Size))' = LeafOutput(b, At(b, l, Size))
        BY <3>1, <4>1, KeyStable
      <4> QED
        BY <3>2, <4>2 DEF TreeInv, OutInv
    <3> QED
      BY <3>4, <3>5, <3>6, <3>7, <3>8 DEF TreeInv
  <2> QED
    BY <2>1, <2>2, <2>3, <2>4, <2>5, <2>6, <2>7 DEF Next
<1> QED
  BY <1>1, <1>2, TypeCorrect, PTL DEF Spec

\* What the invariant says of the leaves both parties have reached.
LEMMA Leaves ==
  ASSUME TreeInv, NEW l \in DOMAIN Inputs, Walked(0, l, Size), Walked(1, l, Size)
  PROVE  /\ Inputs[l] = alpha <=> OnPath(Inputs[l], Size)
         /\ Inputs[l] = alpha => \A b \in Party : At(b, l, Size) = GenNode(b, Size)
         /\ Inputs[l] # alpha => At(0, l, Size) = At(1, l, Size)
<1>1. Size \in Level /\ Inputs[l] \in Identifier /\ alpha \in Identifier
  BY SizeAssumption, InputAssumption DEF Level, TreeInv, TypeOK
<1>2. Inputs[l] = alpha <=> OnPath(Inputs[l], Size)
  BY <1>1, IdentifiersFit DEF OnPath
<1>3. \A b \in Party : OnPath(Inputs[l], Size) => At(b, l, Size) = GenNode(b, Size)
  BY <1>1 DEF TreeInv, PathInv, Party
<1>4. ~OnPath(Inputs[l], Size) => At(0, l, Size) = At(1, l, Size)
  BY <1>1 DEF TreeInv, LeftInv
<1> QED
  BY <1>2, <1>3, <1>4

\* On the way to alpha the control bits of the parties differ, off it their
\* nodes agree: for every tree, cipher and batch.
THEOREM TreeHolds == Spec => []TreeInvariant
<1>1. TreeInv => TreeInvariant
  <2> SUFFICES ASSUME TreeInv, NEW l \in DOMAIN Inputs, NEW i \in Level,
                      Walked(0, l, i), Walked(1, l, i)
               PROVE  IF OnPath(Inputs[l], i) THEN At(0, l, i).bit # At(1, l, i).bit
                      ELSE At(0, l, i) = At(1, l, i)
    BY DEF TreeInvariant
  <2>1. pc = "done" /\ i \in 0 .. level
    BY DEF Walked, TreeInv, GenInv, Level
  <2>2. gbit[0][i] # gbit[1][i]
    BY <2>1 DEF TreeInv, GenInv
  <2>3. CASE OnPath(Inputs[l], i)
    <3>1. At(0, l, i) = GenNode(0, i) /\ At(1, l, i) = GenNode(1, i)
      BY <2>3 DEF TreeInv, PathInv, Party
    <3> QED
      BY <2>2, <2>3, <3>1 DEF GenNode
  <2>4. CASE ~OnPath(Inputs[l], i)
    BY <2>4 DEF TreeInv, LeftInv
  <2> QED
    BY <2>3, <2>4
<1> QED
  BY <1>1, TreeInductive, PTL

\* The outputs of two leaves that the invariant describes are shares of the
\* point function at x.
LEMMA LeavesShare ==
  ASSUME TypeOK, GenInv, pc = "done", NEW x, NEW n0 \in Node, NEW n1 \in Node,
         x = alpha => n0 = GenNode(0, Size) /\ n1 = GenNode(1, Size),
         x # alpha => n0 = n1
  PROVE  Combine(LeafOutput(0, n0), LeafOutput(1, n1)) = PointFunction(x)
<1>0. 0 \in Party /\ 1 \in Party /\ Size \in Level /\ Size \in 0 .. level
  BY SizeAssumption DEF Party, Level, GenInv
<1>1. lastCW = OutputWord /\ lastCW \in Value /\ beta \in PointValues
  BY DEF GenInv, TypeOK
<1>2. gseed[0][Size] \in Block /\ gseed[1][Size] \in Block
  BY <1>0 DEF TypeOK
<1>3. gbit[0][Size] \in Bit /\ gbit[1][Size] \in Bit /\ gbit[0][Size] # gbit[1][Size]
  BY <1>0 DEF GenInv, TypeOK
<1>4. n0.seed \in Block /\ n0.bit \in Bit
  BY DEF Node
<1>5. CASE scheme = "dpf"
  <2> DEFINE s0 == gseed[0][Size]
             s1 == gseed[1][Size]
             w == Xor(One, Xor(s0, s1))
  <2>1. lastCW = w /\ lastCW \in Block /\ beta = One /\ One \in Block
    BY <1>1, <1>5, BlockAssumption DEF OutputWord, PlainWord, Value, PointValues, One, Block
  <2>2. CASE x = alpha
    <3>1. /\ LeafOutput(0, n0) = IF gbit[0][Size] = 1 THEN Xor(s0, lastCW) ELSE s0
          /\ LeafOutput(1, n1) = IF gbit[1][Size] = 1 THEN Xor(s1, lastCW) ELSE s1
      BY <1>5, <2>2 DEF LeafOutput, PlainOutput, GenNode
    <3> HIDE DEF s0, s1
    <3>2. Xor(Xor(s0, w), s1) = One /\ Xor(s0, Xor(s1, w)) = One
      <4>1. s0 \in Block /\ s1 \in Block
        BY <1>2 DEF s0, s1
      <4> QED
        BY <2>1, <4>1 DEF Xor, Block
    <3> HIDE DEF w
    <3>3. CASE gbit[0][Size] = 1 /\ gbit[1][Size] = 0
      BY <1>5, <2>1, <2>2, <3>1, <3>2, <3>3 DEF Combine, PointFunction
    <3>4. CASE gbit[0][Size] = 0 /\ gbit[1][Size] = 1
      BY <1>5, <2>1, <2>2, <3>1, <3>2, <3>4 DEF Combine, PointFunction
    <3> QED
      BY <1>3, <3>3, <3>4 DEF Bit
  <2>3. CASE x # alpha
    <3> DEFINE v == PlainOutput(n0)
    <3>1. v \in Block
      BY <1>4, <2>1, XorBlock DEF PlainOutput
    <3>2. LeafOutput(0, n0) = v /\ LeafOutput(1, n1) = v
      BY <1>5, <2>3 DEF LeafOutput
    <3> HIDE DEF v
    <3>3. Xor(v, v) = {}
      BY <3>1 DEF Xor
    <3> QED
      BY <1>5, <2>3, <3>2, <3>3 DEF Combine, PointFunction, Zero
  <2> QED
    BY <2>2, <2>3
<1>6. CASE scheme = "vdpf"
  <2>1. lastCW \in Element /\ beta \in Element
    BY <1>1, <1>6, InputAssumption DEF Value, PointValues
  <2>2. CASE x = alpha
    <3> DEFINE c0 == FromBlock[gseed[0][Size]]
               c1 == FromBlock[gseed[1][Size]]
               base == field61_add(beta, field61_sub(c1, c0))
    <3>1. c0 \in Element /\ c1 \in Element
      BY <1>2, BlockAssumption
    <3>2. /\ LeafOutput(0, n0) = IF gbit[0][Size] = 1 THEN field61_add(c0, lastCW) ELSE c0
          /\ LeafOutput(1, n1) = field61_neg(IF gbit[1][Size] = 1 THEN field61_add(c1, lastCW) ELSE c1)
      BY <1>6, <2>2 DEF LeafOutput, FieldOutput, GenNode
    <3>3. lastCW = IF gbit[1][Size] = 0 THEN base ELSE field61_neg(base)
      BY <1>1, <1>6 DEF OutputWord, BaseWord
    <3>4. /\ field61_add(field61_add(c0, base), field61_neg(c1)) = beta
          /\ field61_add(c0, field61_neg(field61_add(c1, field61_neg(base)))) = beta
      BY <2>1, <3>1, OutputsSum
    <3> HIDE DEF c0, c1, base
    <3>5. CASE gbit[0][Size] = 1 /\ gbit[1][Size] = 0
      BY <1>6, <2>2, <3>2, <3>3, <3>4, <3>5 DEF Combine, PointFunction
    <3>6. CASE gbit[0][Size] = 0 /\ gbit[1][Size] = 1
      BY <1>6, <2>2, <3>2, <3>3, <3>4, <3>6 DEF Combine, PointFunction
    <3> QED
      BY <1>3, <3>5, <3>6 DEF Bit
  <2>3. CASE x # alpha
    <3> DEFINE v == FromBlock[n0.seed]
               w == IF n0.bit = 1 THEN field61_add(v, lastCW) ELSE v
    <3>1. v \in Element
      BY <1>4, BlockAssumption
    <3>2. w \in Element
      BY <2>1, <3>1, AddElement
    <3>3. LeafOutput(0, n0) = w /\ LeafOutput(1, n1) = field61_neg(w)
      BY <1>6, <2>3 DEF LeafOutput, FieldOutput
    <3> HIDE DEF w
    <3>4. field61_add(w, field61_neg(w)) = 0
      BY <3>2, NegElement
    <3> QED
      BY <1>6, <2>3, <3>3, <3>4 DEF Combine, PointFunction, Zero
  <2> QED
    BY <2>2, <2>3
<1> QED
  BY <1>5, <1>6 DEF TypeOK

\* The outputs of an input both parties evaluated are shares of beta at alpha
\* and of 0 elsewhere, in either scheme.
THEOREM PointFunctionShared == Spec => []SharesOfPointFunction
<1>1. TreeInv => SharesOfPointFunction
  <2> SUFFICES ASSUME TreeInv, NEW l \in DOMAIN Inputs, l < cur[0], l < cur[1]
               PROVE  Combine(out[0][l], out[1][l]) = PointFunction(Inputs[l])
    BY DEF SharesOfPointFunction
  <2>0. 0 \in Party /\ 1 \in Party /\ Size \in Level
    BY SizeAssumption DEF Party, Level
  <2>1. pc = "done"
    <3>1. l # 0 /\ l \in Nat /\ l >= 1
      BY InputAssumption
    <3> QED
      BY <2>0, <3>1 DEF TreeInv, GenInv
  <2>2. Walked(0, l, Size) /\ Walked(1, l, Size)
    BY <2>1 DEF Walked
  <2> DEFINE n0 == At(0, l, Size)
             n1 == At(1, l, Size)
  <2>3. out[0][l] = LeafOutput(0, n0) /\ out[1][l] = LeafOutput(1, n1)
    BY <2>0 DEF TreeInv, OutInv
  <2>4. n0 \in Node /\ n1 \in Node
    BY <2>0, AtType DEF TreeInv
  <2>5. /\ Inputs[l] = alpha => n0 = GenNode(0, Size) /\ n1 = GenNode(1, Size)
        /\ Inputs[l] # alpha => n0 = n1
    BY <2>0, <2>2, Leaves
  <2> HIDE DEF n0, n1
  <2>6. Combine(LeafOutput(0, n0), LeafOutput(1, n1)) = PointFunction(Inputs[l])
    BY <2>1, <2>4, <2>5, LeavesShare DEF TreeInv
  <2> QED
    BY <2>3, <2>6
<1> QED
  BY <1>1, TreeInductive, PTL

\* The retry leaves one selector at alpha, and none or both elsewhere.
THEOREM SelectorAtAlpha == Spec => []OneSelectorAtAlpha
<1>1. TreeInv => OneSelectorAtAlpha
  <2> SUFFICES ASSUME TreeInv, scheme = "vdpf", NEW l \in DOMAIN Inputs,
                      Walked(0, l, Size), Walked(1, l, Size)
               PROVE  seed_lsb(At(0, l, Size).seed) # seed_lsb(At(1, l, Size).seed)
                        <=> Inputs[l] = alpha
    BY DEF OneSelectorAtAlpha
  <2>1. seed_lsb(gseed[0][Size]) # seed_lsb(gseed[1][Size])
    BY DEF Walked, TreeInv, GenInv, SelectorsDiffer
  <2>2. CASE Inputs[l] = alpha
    <3>1. At(0, l, Size) = GenNode(0, Size) /\ At(1, l, Size) = GenNode(1, Size)
      BY <2>2, Leaves DEF Party
    <3> QED
      BY <2>1, <2>2, <3>1 DEF GenNode
  <2>3. CASE Inputs[l] # alpha
    BY <2>3, Leaves
  <2> QED
    BY <2>2, <2>3
<1> QED
  BY <1>1, TreeInductive, PTL

(***************************************************************************)
(* The full-domain evaluation.                                             *)
(***************************************************************************)

-----------------------------------------------------------------------------
(* Powers of two and division. *)

\* Quotient of a number written as a multiple and a rest.
LEMMA DivMod ==
  ASSUME NEW q \in Nat, NEW m \in Nat \ {0}, NEW r \in 0 .. m - 1
  PROVE  (q * m + r) \div m = q
BY Z3

\* A number is its quotient's multiple and its remainder.
LEMMA Divided ==
  ASSUME NEW k \in Nat, NEW m \in Nat \ {0}
  PROVE  /\ k \div m \in Nat /\ k % m \in 0 .. m - 1
         /\ k = (k \div m) * m + (k % m)
<1>1. k % m \in 0 .. m - 1
  BY Z3
<1>2. k \div m \in Nat
  BY Z3
<1>3. k = (k \div m) * m + (k % m)
  BY Z3
<1> QED
  BY <1>1, <1>2, <1>3

\* The powers of two of the levels.
LEMMA Powers ==
  ASSUME NEW L \in Level
  PROVE  2 ^ L \in Nat \ {0} /\ 2 ^ (L + 1) = 2 * 2 ^ L
<1>1. L \in 0 .. Size + 1 /\ 1 \in 0 .. Size + 1
  BY SizeAssumption DEF Level
<1>2. 2 ^ L \in Nat \ {0} /\ 2 ^ (L + 1) = 2 ^ L * 2 ^ 1 /\ 2 ^ 1 = 2
  BY <1>1, PowerAssumption
<1> QED
  BY <1>2

\* How many leaves and how many slots the tree has.
LEMMA Sizes ==
  /\ Size \in Nat \ {0} /\ 0 \in Level /\ Size \in Level /\ 2 ^ 0 = 1
  /\ NumLeaves = 2 ^ Size /\ NumLeaves \in Nat \ {0}
  /\ TreeSize = 2 ^ (Size + 1) - 1 /\ TreeSize = 2 * 2 ^ Size - 1 /\ TreeSize \in Nat \ {0}
<1>1. Size \in Nat \ {0} /\ 0 \in Level /\ Size \in Level /\ 2 ^ 0 = 1
  BY SizeAssumption, PowerAssumption DEF Level
<1>2. 2 ^ Size \in Nat \ {0} /\ 2 ^ (Size + 1) = 2 * 2 ^ Size
  BY <1>1, Powers
<1> QED
  BY <1>1, <1>2 DEF NumLeaves, TreeSize

\* The powers of two grow.
LEMMA Monotone ==
  ASSUME NEW i \in 0 .. Size + 1, NEW j \in 0 .. Size + 1, i <= j
  PROVE  2 ^ i <= 2 ^ j
<1>1. j - i \in 0 .. Size + 1 /\ i + (j - i) = j
  BY SizeAssumption
<1>2. 2 ^ (i + (j - i)) = 2 ^ i * 2 ^ (j - i)
  BY <1>1, PowerAssumption
<1>3. 2 ^ i \in Nat \ {0} /\ 2 ^ (j - i) \in Nat \ {0}
  BY <1>1, PowerAssumption
<1> DEFINE u == 2 ^ i
           v == 2 ^ (j - i)
<1>4. 2 ^ j = u * v
  BY <1>1, <1>2
<1>5. u <= u * v
  <2>1. u \in Nat \ {0} /\ v \in Nat \ {0}
    BY <1>3
  <2> HIDE DEF u, v
  <2> QED
    BY <2>1, Z3
<1> QED
  BY <1>4, <1>5

-----------------------------------------------------------------------------
(* Slots: node j of level L.  Levels follow one another without a gap. *)

SlotAt(L, j) == 2 ^ L - 1 + j

\* The nodes of a level have slots in the heap.
LEMMA SlotRange ==
  ASSUME NEW L \in Level, NEW j \in 0 .. 2 ^ L - 1
  PROVE  SlotAt(L, j) \in Slot
<1>1. 2 ^ L \in Nat \ {0} /\ 2 ^ Size \in Nat \ {0}
  BY Powers, Sizes
<1>2. 2 ^ L <= 2 ^ Size
  BY Monotone, SizeAssumption DEF Level
<1> QED
  BY <1>1, <1>2, Sizes DEF SlotAt, Slot

\* A slot is one node of one level.
LEMMA SlotUnique ==
  ASSUME NEW L \in Level, NEW j \in 0 .. 2 ^ L - 1,
         NEW M \in Level, NEW k \in 0 .. 2 ^ M - 1, SlotAt(L, j) = SlotAt(M, k)
  PROVE  L = M /\ j = k
<1>1. /\ 2 ^ L \in Nat \ {0} /\ 2 ^ (L + 1) = 2 * 2 ^ L
      /\ 2 ^ M \in Nat \ {0} /\ 2 ^ (M + 1) = 2 * 2 ^ M
  BY Powers
<1>2. ~(L < M)
  <2>1. L < M => 2 ^ (L + 1) <= 2 ^ M
    BY Monotone, SizeAssumption DEF Level
  <2> QED
    BY <1>1, <2>1 DEF SlotAt
<1>3. ~(M < L)
  <2>1. M < L => 2 ^ (M + 1) <= 2 ^ L
    BY Monotone, SizeAssumption DEF Level
  <2> QED
    BY <1>1, <2>1 DEF SlotAt
<1>4. L = M
  BY <1>2, <1>3, SizeAssumption DEF Level
<1> QED
  BY <1>1, <1>4 DEF SlotAt

\* The two children of a node.
LEMMA ChildSlots ==
  ASSUME NEW L \in 1 .. Size, NEW k \in 0 .. 2 ^ (L - 1) - 1, NEW d \in Side
  PROVE  /\ L \in Level /\ L - 1 \in Level /\ 2 * k + d \in 0 .. 2 ^ L - 1
         /\ SlotAt(L - 1, k) < SlotAt(L, 2 * k + d)
         /\ SlotAt(L, 2 * k + d) = 2 * SlotAt(L - 1, k) + 1 + d
<1>1. L \in Level /\ L - 1 \in Level /\ (L - 1) + 1 = L
  BY SizeAssumption DEF Level
<1>2. 2 ^ (L - 1) \in Nat \ {0} /\ 2 ^ L = 2 * 2 ^ (L - 1)
  BY <1>1, Powers
<1> QED
  BY <1>1, <1>2 DEF SlotAt, Side

-----------------------------------------------------------------------------
(* The way to alpha. *)

PathIndex(L) == alpha \div 2 ^ (Size - L)

\* The path of the point goes from the root to its leaf.
LEMMA PathEnds ==
  ASSUME alpha \in Identifier
  PROVE  PathIndex(0) = 0 /\ PathIndex(Size) = alpha
<1>1. alpha \in 0 .. NumLeaves - 1
  BY FullDomainAssumption
<1>2. PathIndex(0) = 0
  <2>1. PathIndex(0) = alpha \div NumLeaves
    BY Sizes DEF PathIndex
  <2>2. 0 * NumLeaves + alpha = alpha
    BY <1>1, Sizes
  <2> QED
    BY <1>1, <2>1, <2>2, DivMod, Sizes
<1>3. PathIndex(Size) = alpha
  <2>1. PathIndex(Size) = alpha \div 1
    BY Sizes DEF PathIndex
  <2> QED
    BY <1>1, <2>1, Sizes
<1> QED
  BY <1>2, <1>3

\* From a node of the path to the next goes the point's bit.
LEMMA PathStep ==
  ASSUME alpha \in Identifier, NEW L \in 1 .. Size
  PROVE  PathIndex(L) = 2 * PathIndex(L - 1) + GetBit(alpha, L) /\ PathIndex(L - 1) \in Nat
<1> DEFINE m == 2 ^ (Size - L)
           a == alpha \div m
<1>1. alpha \in Nat /\ GetBit(alpha, L) = a % 2
  <2>1. alpha \in 0 .. NumLeaves - 1
    BY FullDomainAssumption
  <2> QED
    BY <2>1, FullDomainAssumption, Sizes
<1>2. m \in Nat \ {0} /\ 2 ^ (Size - (L - 1)) = 2 * m
  <2>1. Size - L \in Level /\ (Size - L) + 1 = Size - (L - 1)
    BY SizeAssumption DEF Level
  <2> QED
    BY <2>1, Powers
<1>3. PathIndex(L) = a /\ PathIndex(L - 1) = alpha \div (2 * m)
  BY <1>2 DEF PathIndex
<1> HIDE DEF m
<1>4. a \in Nat /\ alpha % m \in 0 .. m - 1 /\ alpha = a * m + (alpha % m)
  BY <1>1, <1>2, Divided
<1> DEFINE r == alpha % m
           c == a \div 2
           e == a % 2
<1> HIDE DEF a
<1>5. c \in Nat /\ e \in 0 .. 1 /\ a = c * 2 + e
  BY <1>4, Divided
<1> HIDE DEF r, c, e
<1>6. r \in 0 .. m - 1 /\ alpha = a * m + r
  BY <1>4 DEF r
<1>7. e * m + r \in 0 .. 2 * m - 1
  <2>1. CASE e = 0
    BY <1>2, <1>6, <2>1
  <2>2. CASE e = 1
    BY <1>2, <1>6, <2>2
  <2> QED
    BY <1>5, <2>1, <2>2
<1>8. alpha = c * (2 * m) + (e * m + r)
  <2>1. (c * 2 + e) * m = c * (2 * m) + e * m
    BY <1>2, <1>5, Z3
  <2>2. c * (2 * m) \in Nat /\ e * m \in Nat
    BY <1>2, <1>5, Z3
  <2> QED
    BY <1>5, <1>6, <2>1, <2>2
<1>9. alpha \div (2 * m) = c
  <2>1. 2 * m \in Nat \ {0}
    BY <1>2
  <2> DEFINE w == 2 * m
             v == e * m + r
  <2>2. w \in Nat \ {0} /\ v \in 0 .. w - 1 /\ alpha = c * w + v
    BY <1>7, <1>8, <2>1
  <2> HIDE DEF w, v
  <2>3. alpha \div w = c
    BY <1>5, <2>2, DivMod
  <2> QED
    BY <2>3 DEF w
<1> QED
  BY <1>1, <1>3, <1>5, <1>9 DEF e

\* The path stays in the tree.
LEMMA PathRange ==
  ASSUME alpha \in Identifier, NEW L \in Level
  PROVE  PathIndex(L) \in 0 .. 2 ^ L - 1
<1> DEFINE m == 2 ^ (Size - L)
           n == 2 ^ L
           q == alpha \div m
           r == alpha % m
<1>1. Size - L \in Level /\ L \in 0 .. Size + 1 /\ Size - L \in 0 .. Size + 1 /\ L + (Size - L) = Size
  BY SizeAssumption DEF Level
<1>2. m \in Nat \ {0} /\ n \in Nat \ {0}
  BY <1>1, Powers
<1>3. 2 ^ (L + (Size - L)) = 2 ^ L * 2 ^ (Size - L)
  BY <1>1, PowerAssumption
<1>4. alpha \in 0 .. n * m - 1
  BY <1>1, <1>3, FullDomainAssumption DEF NumLeaves
<1> HIDE DEF m, n
<1>5. alpha \in Nat /\ alpha < n * m
  <2>1. n * m \in Nat
    BY <1>2, Z3
  <2> QED
    BY <1>4, <2>1
<1>6. q \in Nat /\ r \in 0 .. m - 1 /\ alpha = q * m + r
  BY <1>2, <1>5, Divided
<1> HIDE DEF q, r
<1>7. ~(q >= n)
  <2> SUFFICES ASSUME q >= n PROVE FALSE
    OBVIOUS
  <2>1. q * m >= n * m /\ q * m \in Nat /\ n * m \in Nat
    BY <1>2, <1>6, Z3
  <2> DEFINE u == q * m
             v == n * m
  <2>2. u >= v /\ u \in Nat /\ v \in Nat /\ alpha < v /\ alpha = u + r /\ r \in Nat
    BY <1>2, <1>5, <1>6, <2>1
  <2> HIDE DEF u, v
  <2> QED
    BY <2>2
<1>8. PathIndex(L) = q
  BY DEF PathIndex, q, m
<1> QED
  BY <1>2, <1>6, <1>7, <1>8 DEF n

\* The node above a node on the way is on it, and the side is alpha's bit.
LEMMA PathParent ==
  ASSUME alpha \in Identifier, NEW L \in 1 .. Size, NEW k \in Nat, NEW d \in Side
  PROVE  /\ GetBit(alpha, L) \in Side
         /\ 2 * k + d = PathIndex(L) <=> k = PathIndex(L - 1) /\ d = GetBit(alpha, L)
<1> DEFINE g == GetBit(alpha, L)
           p == PathIndex(L - 1)
<1>1. g \in {0, 1} /\ d \in {0, 1}
  BY InputAssumption DEF Bit, Side
<1>2. PathIndex(L) = 2 * p + g /\ p \in Nat
  BY PathStep
<1> HIDE DEF g, p
<1>3. 2 * k + d = 2 * p + g <=> k = p /\ d = g
  BY <1>1, <1>2
<1> QED
  BY <1>1, <1>2, <1>3 DEF g, p, Side

-----------------------------------------------------------------------------
(* The pair of children, on the way and off it. *)

\* The children an expansion makes are nodes.
LEMMA PairType ==
  ASSUME TypeOK, NEW n \in Node, NEW L \in 1 .. Size, NEW d \in Side
  PROVE  Pair(n, L - 1)[d] \in Node
<1>1. L \in Level /\ (L - 1) + 1 = L
  BY SizeAssumption DEF Level
<1>2. n.seed \in Block /\ n.bit \in Bit
  BY DEF Node
<1>3. dpfPRG(n.seed)[d] \in Node
  BY <1>2, PrgType
<1>4. sCW[L] \in Block /\ tCW[L][d] \in Bit
  BY <1>1 DEF TypeOK
<1>5. Pair(n, L - 1)[d] = Corrected(dpfPRG(n.seed)[d], n.bit, sCW[L], tCW[L][d])
  BY <1>1 DEF Pair
<1> QED
  BY <1>2, <1>3, <1>4, <1>5, CorrectedType

\* On the way to the point an expansion makes the nodes of the generation.
LEMMA PairOnPath ==
  ASSUME TypeOK, NEW L \in 1 .. Size, Grown(L), NEW b \in Party
  PROVE  Pair(GenNode(b, L - 1), L - 1)[GetBit(alpha, L)] = GenNode(b, L)
<1>1. alpha \in Identifier /\ GetBit(alpha, L) \in Side /\ (L - 1) + 1 = L
  BY InputAssumption DEF TypeOK, Side, Bit
<1>2. Child(GenNode(b, L - 1), alpha, L) = GenNode(b, L)
  BY <1>1, ChildOnPath
<1>3. Child(GenNode(b, L - 1), alpha, L) = Pair(GenNode(b, L - 1), L - 1)[GetBit(alpha, L)]
  BY <1>1 DEF Child, Pair
<1> QED
  BY <1>2, <1>3

\* Off it, both keys make the same node: the correction word cancels the difference.
LEMMA PairOffPath ==
  ASSUME TypeOK, NEW L \in 1 .. Size, Grown(L), gbit[0][L - 1] # gbit[1][L - 1],
         NEW d \in Side, d # GetBit(alpha, L)
  PROVE  Pair(GenNode(0, L - 1), L - 1)[d] = Pair(GenNode(1, L - 1), L - 1)[d]
<1> DEFINE c0 == dpfPRG(gseed[0][L - 1])
           c1 == dpfPRG(gseed[1][L - 1])
           sc == Xor(c0[d].seed, c1[d].seed)
           tc == XorBit(XorBit(c0[d].bit, c1[d].bit), 0)
<1>1. GetBit(alpha, L) \in Side /\ d = 1 - GetBit(alpha, L) /\ (L - 1) + 1 = L
  BY InputAssumption DEF TypeOK, Side, Bit
<1>2. L - 1 \in Level /\ c0[d] \in Node /\ c1[d] \in Node
  BY GrowType
<1>3. gbit[0][L - 1] \in Bit /\ gbit[1][L - 1] \in Bit
  BY <1>2 DEF TypeOK, Party
<1>4. sCW[L] = sc
  BY <1>1 DEF Grown
<1>5. tCW[L][d] = tc
  BY <1>1 DEF Grown, ControlWord
<1>6. /\ Pair(GenNode(0, L - 1), L - 1)[d] = Corrected(c0[d], gbit[0][L - 1], sc, tc)
      /\ Pair(GenNode(1, L - 1), L - 1)[d] = Corrected(c1[d], gbit[1][L - 1], sc, tc)
  BY <1>1, <1>4, <1>5 DEF Pair, GenNode
<1> HIDE DEF c0, c1
<1>7. Corrected(c0[d], gbit[0][L - 1], sc, tc) = Corrected(c1[d], gbit[1][L - 1], sc, tc)
  BY <1>2, <1>3, LoseSide
<1> QED
  BY <1>6, <1>7

(***************************************************************************)
(* The strengthened invariant.  The counters of a party locate the next    *)
(* pair; a filled slot holds the child of the slot above it; on the way to *)
(* alpha that is the generator's node, elsewhere both parties have one.    *)
(***************************************************************************)

HeapTypeOK ==
  /\ heap \in [Party -> [Slot -> Node]]
  /\ top \in [Party -> Nat] /\ leaf \in [Party -> Nat]
  /\ currLevel \in [Party -> Level]
  /\ levelIndex \in [Party -> Nat] /\ numIndexesInLevel \in [Party -> Nat]
  /\ full \in [Party -> [0 .. NumLeaves - 1 -> Value]]

Counts(b) ==
  /\ numIndexesInLevel[b] = 2 ^ (currLevel[b] + 1)
  /\ \E k \in 0 .. 2 ^ currLevel[b] - 1 : levelIndex[b] = 2 * k
  /\ currLevel[b] = Size => levelIndex[b] = 0
  /\ top[b] # 0 => top[b] = SlotAt(currLevel[b] + 1, levelIndex[b])
  /\ top[b] = 0 => currLevel[b] = 0 /\ levelIndex[b] = 0 /\ leaf[b] = 0
  /\ leaf[b] # 0 => top[b] = TreeSize
  /\ leaf[b] <= NumLeaves
  /\ pc # "done" => top[b] = 0

LinkInv ==
  \A b \in Party, L \in 1 .. Size : \A k \in 0 .. 2 ^ (L - 1) - 1, d \in Side :
     SlotAt(L, 2 * k + d) < top[b] =>
        heap[b][SlotAt(L, 2 * k + d)] = Pair(heap[b][SlotAt(L - 1, k)], L - 1)[d]

WayInv ==
  \A b \in Party, L \in Level :
     SlotAt(L, PathIndex(L)) < top[b] =>
        heap[b][SlotAt(L, PathIndex(L))] = GenNode(b, L)

MeetInv ==
  \A L \in Level : \A j \in 0 .. 2 ^ L - 1 :
     (j # PathIndex(L) /\ SlotAt(L, j) < top[0] /\ SlotAt(L, j) < top[1]) =>
        heap[0][SlotAt(L, j)] = heap[1][SlotAt(L, j)]

WrittenInv ==
  \A b \in Party, x \in 0 .. NumLeaves - 1 :
     x < leaf[b] => full[b][x] = LeafOutput(b, heap[b][LeafIndex(x)])

CountInv == \A b \in Party : Counts(b)

FullInv == HeapTypeOK /\ CountInv /\ LinkInv /\ WayInv /\ MeetInv /\ WrittenInv

\* Slots of levels and of leaves.
LEMMA SlotFacts ==
  /\ \A L \in Level : \A j \in 0 .. 2 ^ L - 1 : SlotAt(L, j) \in Slot
  /\ \A h \in Slot : h \in Nat /\ h < TreeSize
  /\ \A x \in 0 .. NumLeaves - 1 :
        /\ x \in 0 .. 2 ^ Size - 1 /\ LeafIndex(x) = SlotAt(Size, x) /\ LeafIndex(x) \in Slot
<1>1. \A L \in Level : \A j \in 0 .. 2 ^ L - 1 : SlotAt(L, j) \in Slot
  BY SlotRange
<1>2. \A h \in Slot : h \in Nat /\ h < TreeSize
  BY Sizes DEF Slot
<1>3. \A x \in 0 .. NumLeaves - 1 : x \in 0 .. 2 ^ Size - 1 /\ LeafIndex(x) = SlotAt(Size, x)
  BY Sizes DEF LeafIndex, SlotAt
<1> QED
  BY <1>1, <1>2, <1>3, Sizes

\* The nodes of the path have slots.
LEMMA PathSlot ==
  ASSUME TypeOK, NEW L \in Level
  PROVE  PathIndex(L) \in 0 .. 2 ^ L - 1 /\ SlotAt(L, PathIndex(L)) \in Slot
BY PathRange, SlotRange DEF TypeOK

-----------------------------------------------------------------------------
(* One lemma per action. *)

\* The invariant of the full evaluation holds at the start.
LEMMA FullStart ==
  ASSUME FullInit, TypeOK
  PROVE  FullInv
<1>1. /\ 0 \in Level /\ 2 ^ 0 = 1 /\ Size \in Nat \ {0} /\ 2 ^ (0 + 1) = 2
      /\ NumLeaves \in Nat \ {0}
  BY Sizes, Powers
<1>2. Blank \in Node
  BY DEF Blank, Node, Block, Bit
<1>3. Zero \in Value
  BY ModulusAssumption DEF Zero, Value, Block, Element
<1>4. pc = "seed" /\ \A b \in Party : top[b] = 0 /\ leaf[b] = 0
  BY DEF FullInit, Init
<1>5. HeapTypeOK
  BY <1>1, <1>2, <1>3 DEF FullInit, HeapTypeOK
<1>6. CountInv
  <2> SUFFICES ASSUME NEW b \in Party PROVE Counts(b)
    BY DEF CountInv
  <2>1. /\ numIndexesInLevel[b] = 2 /\ currLevel[b] = 0 /\ levelIndex[b] = 0
    BY DEF FullInit
  <2>2. 0 \in 0 .. 2 ^ 0 - 1 /\ 0 = 2 * 0
    BY <1>1
  <2> QED
    BY <1>1, <1>4, <2>1, <2>2 DEF Counts
<1>7. \A h \in Slot, b \in Party : ~(h < top[b])
  BY <1>4, SlotFacts
<1>8. LinkInv
  BY <1>7, SlotFacts, ChildSlots DEF LinkInv
<1>9. WayInv
  BY <1>7, PathSlot DEF WayInv
<1>10. MeetInv
  BY <1>7, SlotFacts DEF MeetInv, Party
<1>11. WrittenInv
  BY <1>1, <1>4 DEF WrittenInv
<1> QED
  BY <1>5, <1>6, <1>8, <1>9, <1>10, <1>11 DEF FullInv

\* Generation and the batch leave the heaps alone, and after generation the
\* key too.
LEMMA FullTree ==
  ASSUME FullInv, TypeOK, TypeOK', [Next]_vars, UNCHANGED fullVars
  PROVE  FullInv'
<1>1. /\ heap' = heap /\ top' = top /\ currLevel' = currLevel /\ levelIndex' = levelIndex
      /\ numIndexesInLevel' = numIndexesInLevel /\ leaf' = leaf /\ full' = full
  BY DEF fullVars
<1>2. HeapTypeOK'
  <2>1. Value' = Value
    BY SchemeStable DEF Value
  <2> QED
    BY <1>1, <2>1 DEF FullInv, HeapTypeOK
<1>3. CASE pc = "done"
  <2>1. UNCHANGED genVars
    <3>1. CASE \E b \in Party : EvalLevel(b)
      BY <3>1 DEF EvalLevel
    <3>2. CASE \E b \in Party : EvalLeaf(b)
      BY <3>2 DEF EvalLeaf
    <3>3. CASE UNCHANGED vars
      BY <3>3 DEF vars
    <3>4. ~(\E r0, r1 \in Block : GenSeed(r0, r1)) /\ ~GenLevel /\ ~GenRetry /\ ~GenFinish
      BY <1>3 DEF GenSeed, GenLevel, GenRetry, GenFinish
    <3> QED
      BY <3>1, <3>2, <3>3, <3>4 DEF Next
  <2>2. /\ pc' = pc /\ \A n, l : Pair(n, l)' = Pair(n, l)
        /\ \A b, i : GenNode(b, i)' = GenNode(b, i)
        /\ \A i : PathIndex(i)' = PathIndex(i)
        /\ \A b, n : LeafOutput(b, n)' = LeafOutput(b, n)
    BY <2>1, KeyStable DEF genVars, Pair, PathIndex
  <2>3. CountInv'
    BY <1>1, <2>2 DEF FullInv, CountInv, Counts
  <2>4. LinkInv'
    BY <1>1, <2>2 DEF FullInv, LinkInv
  <2>5. WayInv'
    BY <1>1, <2>2 DEF FullInv, WayInv
  <2>6. MeetInv'
    BY <1>1, <2>2 DEF FullInv, MeetInv
  <2>7. WrittenInv'
    BY <1>1, <2>2 DEF FullInv, WrittenInv
  <2> QED
    BY <1>2, <2>3, <2>4, <2>5, <2>6, <2>7 DEF FullInv
<1>4. CASE pc # "done"
  <2>1. \A b \in Party : top'[b] = 0 /\ leaf'[b] = 0
    BY <1>1, <1>4 DEF FullInv, CountInv, Counts
  <2>2. \A h \in Slot, b \in Party : ~(h < top'[b])
    BY <2>1, SlotFacts
  <2>3. CountInv'
    BY <1>1, <1>4, <2>1 DEF FullInv, CountInv, Counts
  <2>4. LinkInv'
    BY <2>2, SlotFacts, ChildSlots DEF LinkInv
  <2>5. WayInv'
    <3> SUFFICES ASSUME NEW b \in Party, NEW L \in Level
                 PROVE  ~(SlotAt(L, PathIndex(L)') < top'[b])
      BY DEF WayInv, SlotAt
    <3>1. alpha' \in Identifier
      BY DEF TypeOK
    <3>2. PathIndex(L)' \in 0 .. 2 ^ L - 1
      <4>1. alpha' = alpha
        BY DEF Next, GenSeed, GenLevel, GenRetry, GenFinish, EvalLevel, EvalLeaf, genVars, vars
      <4>2. PathIndex(L)' = PathIndex(L)
        BY <4>1 DEF PathIndex
      <4> QED
        BY <4>2, PathSlot
    <3> QED
      BY <2>2, <3>2, SlotFacts
  <2>6. MeetInv'
    BY <2>2, SlotFacts DEF MeetInv, Party
  <2>7. WrittenInv'
    BY <2>1, Sizes DEF WrittenInv
  <2> QED
    BY <1>2, <2>3, <2>4, <2>5, <2>6, <2>7 DEF FullInv
<1> QED
  BY <1>3, <1>4

\* The root of party b; the slots of the other party stay.
LEMMA FullStepRoot ==
  ASSUME FullInv, TypeOK, GenInv, NEW b \in Party, FullRoot(b)
  PROVE  FullInv'
<1>1. /\ pc = "done" /\ top[b] = 0 /\ UNCHANGED genVars
      /\ heap' = [heap EXCEPT ![b][0] = Root(b)] /\ top' = [top EXCEPT ![b] = 1]
      /\ UNCHANGED <<currLevel, levelIndex, numIndexesInLevel, leaf, full>>
  BY DEF FullRoot, vars
<1>2. /\ 0 \in Slot /\ 0 \in Level /\ Size \in Nat \ {0} /\ 2 ^ 0 = 1 /\ 2 ^ (0 + 1) = 2
      /\ TreeSize \in Nat \ {0} /\ NumLeaves \in Nat \ {0}
  BY Sizes, Powers DEF Slot
<1>3. /\ heap'[b][0] = Root(b) /\ top'[b] = 1
      /\ \A h \in Slot : h # 0 => heap'[b][h] = heap[b][h]
      /\ \A c \in Party : c # b => heap'[c] = heap[c] /\ top'[c] = top[c]
  BY <1>1, <1>2 DEF FullInv, HeapTypeOK
<1>4. /\ pc' = pc /\ \A n, l : Pair(n, l)' = Pair(n, l)
      /\ \A c, i : GenNode(c, i)' = GenNode(c, i)
      /\ \A i : PathIndex(i)' = PathIndex(i)
      /\ \A c, n : LeafOutput(c, n)' = LeafOutput(c, n)
      /\ Value' = Value
  BY <1>1, KeyStable DEF genVars, Pair, PathIndex, Value
<1>5. HeapTypeOK'
  <2>1. Root(b) \in Node
    BY RootType
  <2> QED
    BY <1>1, <1>2, <1>4, <2>1 DEF FullInv, HeapTypeOK
<1>6. CountInv'
  <2> SUFFICES ASSUME NEW c \in Party PROVE Counts(c)'
    BY DEF CountInv
  <2>1. Counts(c)
    BY DEF FullInv, CountInv
  <2>2. CASE c = b
    <3>1. currLevel[c] = 0 /\ levelIndex[c] = 0 /\ leaf[c] = 0
      BY <1>1, <2>1, <2>2 DEF Counts
    <3>2. SlotAt(0 + 1, 0) = 1
      BY <1>2 DEF SlotAt
    <3> QED
      BY <1>1, <1>2, <1>3, <1>4, <2>1, <2>2, <3>1, <3>2 DEF Counts
  <2>3. CASE c # b
    BY <1>1, <1>3, <1>4, <2>1, <2>3 DEF Counts
  <2> QED
    BY <2>2, <2>3
<1>7. LinkInv'
  <2> SUFFICES ASSUME NEW c \in Party, NEW L \in 1 .. Size, NEW k \in 0 .. 2 ^ (L - 1) - 1,
                      NEW d \in Side, SlotAt(L, 2 * k + d) < top'[c]
               PROVE  heap'[c][SlotAt(L, 2 * k + d)] = Pair(heap'[c][SlotAt(L - 1, k)], L - 1)[d]
    BY <1>4 DEF LinkInv, SlotAt
  <2>1. SlotAt(L - 1, k) \in Slot /\ SlotAt(L - 1, k) < SlotAt(L, 2 * k + d)
        /\ SlotAt(L, 2 * k + d) \in Slot
    BY ChildSlots, SlotFacts
  <2>2. c # b
    BY <1>3, <2>1, SlotFacts
  <2> QED
    BY <1>3, <2>2 DEF FullInv, LinkInv
<1>8. \A i \in Level : \A j \in 0 .. 2 ^ i - 1 :
        SlotAt(i, j) < top'[b] => SlotAt(i, j) = 0 /\ i = 0 /\ j = 0
  <2> SUFFICES ASSUME NEW i \in Level, NEW j \in 0 .. 2 ^ i - 1, SlotAt(i, j) < top'[b]
               PROVE  SlotAt(i, j) = 0 /\ i = 0 /\ j = 0
    OBVIOUS
  <2>1. SlotAt(i, j) = 0
    BY <1>3, SlotFacts
  <2>2. SlotAt(0, 0) = 0 /\ 0 \in 0 .. 2 ^ 0 - 1
    BY <1>2 DEF SlotAt
  <2>3. SlotAt(i, j) = SlotAt(0, 0)
    BY <2>1, <2>2
  <2>4. 0 \in Level
    BY <1>2
  <2>5. i = 0 /\ j = 0
    BY <2>2, <2>3, <2>4, SlotUnique
  <2> QED
    BY <2>1, <2>5
<1>9. PathIndex(0) = 0 /\ \A c \in Party : Root(c) = GenNode(c, 0)
  <2>1. alpha \in Identifier
    BY DEF TypeOK
  <2>2. \A c \in Party : gbit[c][0] = c
    BY <1>1 DEF GenInv
  <2> QED
    BY <2>1, <2>2, PathEnds DEF Root, GenNode
<1>10. WayInv'
  <2> SUFFICES ASSUME NEW c \in Party, NEW L \in Level, SlotAt(L, PathIndex(L)) < top'[c]
               PROVE  heap'[c][SlotAt(L, PathIndex(L))] = GenNode(c, L)
    BY <1>4 DEF WayInv, SlotAt
  <2>1. CASE c = b
    <3>1. SlotAt(L, PathIndex(L)) = 0 /\ L = 0
      BY <1>8, <2>1, PathSlot
    <3> QED
      BY <1>3, <1>9, <2>1, <3>1
  <2>2. CASE c # b
    BY <1>3, <2>2 DEF FullInv, WayInv
  <2> QED
    BY <2>1, <2>2
<1>11. MeetInv'
  <2> SUFFICES ASSUME NEW L \in Level, NEW j \in 0 .. 2 ^ L - 1, j # PathIndex(L),
                      SlotAt(L, j) < top'[0], SlotAt(L, j) < top'[1]
               PROVE  FALSE
    BY <1>4 DEF MeetInv, SlotAt
  <2>1. SlotAt(L, j) < top'[b]
    BY DEF Party
  <2> QED
    BY <1>8, <1>9, <2>1
<1>12. WrittenInv'
  <2> SUFFICES ASSUME NEW c \in Party, NEW x \in 0 .. NumLeaves - 1, x < leaf[c]
               PROVE  full[c][x] = LeafOutput(c, heap'[c][LeafIndex(x)])
    BY <1>1, <1>4 DEF WrittenInv, LeafIndex
  <2>1. leaf[b] = 0
    BY <1>1 DEF FullInv, CountInv, Counts
  <2>2. c # b
    BY <1>2, <2>1
  <2> QED
    BY <1>3, <2>2 DEF FullInv, WrittenInv
<1> QED
  BY <1>5, <1>6, <1>7, <1>10, <1>11, <1>12 DEF FullInv

\* Where an expansion reads and writes: the children of node k of level L - 1.
LEMMA ExpandShape ==
  ASSUME FullInv, NEW b \in Party, FullExpand(b)
  PROVE  \E L \in 1 .. Size : \E k \in 0 .. 2 ^ (L - 1) - 1 :
           /\ currLevel[b] = L - 1 /\ levelIndex[b] = 2 * k /\ numIndexesInLevel[b] = 2 ^ L
           /\ top[b] = SlotAt(L, 2 * k) /\ top[b] + 1 = SlotAt(L, 2 * k + 1)
           /\ ParentIndex(top[b], levelIndex[b], numIndexesInLevel[b]) = SlotAt(L - 1, k)
<1>1. top[b] \in 1 .. TreeSize - 1 /\ currLevel[b] \in 0 .. Size /\ Size \in Nat \ {0}
  BY SizeAssumption DEF FullExpand, FullInv, HeapTypeOK, Level
<1> DEFINE L == currLevel[b] + 1
<1>2. currLevel[b] < Size
  <2>1. top[b] # 0 /\ top[b] # TreeSize
    BY <1>1, Sizes
  <2>2. Counts(b)
    BY DEF FullInv, CountInv
  <2>3. top[b] = SlotAt(currLevel[b] + 1, levelIndex[b])
    BY <2>1, <2>2 DEF Counts
  <2>4. SUFFICES ASSUME currLevel[b] = Size PROVE FALSE
    BY <1>1
  <2>5. levelIndex[b] = 0 /\ top[b] = SlotAt(Size + 1, 0)
    BY <2>2, <2>3, <2>4 DEF Counts
  <2>6. SlotAt(Size + 1, 0) = TreeSize
    BY Sizes, Powers DEF SlotAt
  <2> QED
    BY <2>1, <2>5, <2>6
<1>3. L \in 1 .. Size /\ L - 1 = currLevel[b] /\ L - 1 \in Level
  BY <1>1, <1>2 DEF Level
<1>4. PICK k \in 0 .. 2 ^ (L - 1) - 1 : levelIndex[b] = 2 * k
  BY <1>3 DEF FullInv, CountInv, Counts
<1>5. numIndexesInLevel[b] = 2 ^ L /\ top[b] = SlotAt(L, 2 * k)
  BY <1>1, <1>4 DEF FullInv, CountInv, Counts
<1> DEFINE m == 2 ^ (L - 1)
           n == 2 ^ L
<1>6. m \in Nat \ {0} /\ n = 2 * m
  <2>1. (L - 1) + 1 = L
    BY <1>3
  <2> QED
    BY <1>3, <2>1, Powers
<1>7. /\ SlotAt(L, 2 * k) = n - 1 + 2 * k /\ SlotAt(L, 2 * k + 1) = n - 1 + (2 * k + 1)
      /\ SlotAt(L - 1, k) = m - 1 + k /\ k \in 0 .. m - 1
  BY <1>4 DEF SlotAt
<1> HIDE DEF m, n
<1>8. top[b] = n - 1 + 2 * k /\ top[b] + 1 = SlotAt(L, 2 * k + 1)
  BY <1>5, <1>6, <1>7
<1>9. ParentIndex(top[b], levelIndex[b], numIndexesInLevel[b]) = m - 1 + k
  <2>1. numIndexesInLevel[b] = n
    BY <1>5 DEF n
  <2>2. ParentIndex(n - 1 + 2 * k, 2 * k, n) = m - 1 + k
    <3>1. n - 2 * k = 2 * (m - k) /\ (2 * (m - k)) \div 2 = m - k
      BY <1>6, <1>7
    <3>2. CASE n - 1 + 2 * k > 1
      BY <1>6, <1>7, <3>1, <3>2 DEF ParentIndex
    <3>3. CASE ~(n - 1 + 2 * k > 1)
      <4>1. m = 1 /\ k = 0
        BY <1>6, <1>7, <3>3
      <4> QED
        BY <3>3, <4>1 DEF ParentIndex
    <3> QED
      BY <3>2, <3>3
  <2> QED
    BY <1>4, <1>8, <2>1, <2>2
<1> HIDE DEF L
<1> QED
  BY <1>3, <1>4, <1>5, <1>7, <1>8, <1>9

\* What an expansion changes.
LEMMA ExpandEffect ==
  ASSUME FullInv, NEW b \in Party, FullExpand(b),
         NEW L \in 1 .. Size, NEW k \in 0 .. 2 ^ (L - 1) - 1,
         currLevel[b] = L - 1, top[b] = SlotAt(L, 2 * k), top[b] + 1 = SlotAt(L, 2 * k + 1),
         ParentIndex(top[b], levelIndex[b], numIndexesInLevel[b]) = SlotAt(L - 1, k)
  PROVE  /\ top'[b] = top[b] + 2
         /\ \A d \in Side : heap'[b][SlotAt(L, 2 * k + d)]
                              = Pair(heap[b][SlotAt(L - 1, k)], L - 1)[d]
         /\ \A h \in Slot : h < top[b] => heap'[b][h] = heap[b][h]
         /\ \A c \in Party : c # b => heap'[c] = heap[c] /\ top'[c] = top[c]
         /\ \A M \in Level : \A j \in 0 .. 2 ^ M - 1 :
              SlotAt(M, j) < top'[b] =>
                 \/ SlotAt(M, j) < top[b]
                 \/ M = L /\ \E d \in Side : j = 2 * k + d
<1> DEFINE i == top[b]
           pair == Pair(heap[b][SlotAt(L - 1, k)], L - 1)
<1>1. /\ heap' = [heap EXCEPT ![b][i] = pair[0], ![b][i + 1] = pair[1]]
      /\ top' = [top EXCEPT ![b] = i + 2]
  BY DEF FullExpand
<1>2. /\ L \in Level /\ 2 * k \in 0 .. 2 ^ L - 1 /\ 2 * k + 1 \in 0 .. 2 ^ L - 1
  <2>1. 2 * k + 0 \in 0 .. 2 ^ L - 1 /\ 2 * k + 1 \in 0 .. 2 ^ L - 1 /\ L \in Level
    BY ChildSlots DEF Side
  <2>2. k \in Nat
    <3>1. (L - 1) \in Level
      BY SizeAssumption DEF Level
    <3> QED
      BY <3>1, Powers
  <2>3. 2 * k + 0 = 2 * k
    BY <2>2
  <2> QED
    BY <2>1, <2>3
<1>3. i \in Slot /\ i + 1 \in Slot /\ i \in Nat
  BY <1>2, SlotFacts
<1> HIDE DEF pair
<1>4. /\ top'[b] = i + 2 /\ heap'[b][i] = pair[0] /\ heap'[b][i + 1] = pair[1]
      /\ \A h \in Slot : h # i /\ h # i + 1 => heap'[b][h] = heap[b][h]
      /\ \A c \in Party : c # b => heap'[c] = heap[c] /\ top'[c] = top[c]
  <2>1. heap \in [Party -> [Slot -> Node]] /\ top \in [Party -> Nat]
    BY DEF FullInv, HeapTypeOK
  <2>2. i # i + 1
    BY <1>3
  <2> HIDE DEF i
  <2> QED
    BY <1>1, <1>3, <2>1, <2>2
<1>5. \A d \in Side : heap'[b][SlotAt(L, 2 * k + d)] = pair[d]
  <2>1. SlotAt(L, 2 * k + 0) = i
    <3>1. k \in Nat
      <4>1. L - 1 \in Level
        BY SizeAssumption DEF Level
      <4> QED
        BY <4>1, Powers
    <3>2. 2 * k + 0 = 2 * k
      BY <3>1
    <3> QED
      BY <3>2
  <2>2. SlotAt(L, 2 * k + 1) = i + 1
    OBVIOUS
  <2> QED
    BY <1>4, <2>1, <2>2 DEF Side
<1>6. \A h \in Slot : h < i => heap'[b][h] = heap[b][h]
  <2>1. \A h \in Slot : h < i => h # i /\ h # i + 1
    BY <1>3, SlotFacts
  <2> QED
    BY <1>4, <2>1
<1>7. ASSUME NEW M \in Level, NEW j \in 0 .. 2 ^ M - 1, SlotAt(M, j) < top'[b]
      PROVE  SlotAt(M, j) < i \/ (M = L /\ \E d \in Side : j = 2 * k + d)
  <2>1. SlotAt(M, j) \in Nat
    BY SlotFacts
  <2>2. SlotAt(M, j) < i \/ SlotAt(M, j) = i \/ SlotAt(M, j) = i + 1
    BY <1>3, <1>4, <1>7, <2>1
  <2>3. CASE SlotAt(M, j) = i
    <3>1. M = L /\ j = 2 * k
      BY <1>2, <2>3, SlotUnique
    <3>2. j = 2 * k + 0
      <4>1. L - 1 \in Level
        BY SizeAssumption DEF Level
      <4>2. k \in Nat
        BY <4>1, Powers
      <4> QED
        BY <3>1, <4>2
    <3> QED
      BY <3>1, <3>2 DEF Side
  <2>4. CASE SlotAt(M, j) = i + 1
    <3>1. M = L /\ j = 2 * k + 1
      BY <1>2, <2>4, SlotUnique
    <3> QED
      BY <3>1 DEF Side
  <2> QED
    BY <2>2, <2>3, <2>4
<1> QED
  BY <1>4, <1>5, <1>6, <1>7 DEF pair

\* A level more or a pair more: the counters go on locating the next pair.
LEMMA ExpandCounts ==
  ASSUME FullInv, TypeOK, NEW b \in Party, FullExpand(b),
         NEW L \in 1 .. Size, NEW k \in 0 .. 2 ^ (L - 1) - 1,
         currLevel[b] = L - 1, levelIndex[b] = 2 * k, numIndexesInLevel[b] = 2 ^ L,
         top[b] = SlotAt(L, 2 * k), top'[b] = top[b] + 2
  PROVE  Counts(b)' /\ currLevel'[b] \in Level /\ levelIndex'[b] \in Nat
         /\ numIndexesInLevel'[b] \in Nat
<1> DEFINE m == 2 ^ (L - 1)
           n == 2 ^ L
<1>1. L \in Level /\ L - 1 \in Level /\ L - 1 \in Nat /\ Size \in Nat \ {0} /\ (L - 1) + 1 = L
  BY SizeAssumption DEF Level
<1>2. m \in Nat \ {0} /\ n = 2 * m /\ 2 ^ (L + 1) = 2 * n /\ k \in 0 .. m - 1
  BY <1>1, Powers
<1>3. top[b] = n - 1 + 2 * k
  BY DEF SlotAt
<1>4. top[b] \in 1 .. TreeSize - 1 /\ TreeSize \in Nat /\ leaf'[b] = leaf[b] /\ pc' = pc
  BY Sizes DEF FullExpand, vars, genVars
<1>5. Counts(b)
  BY DEF FullInv, CountInv
<1>6. leaf[b] = 0 /\ pc = "done"
  <2>1. top[b] # TreeSize /\ top[b] # 0
    BY <1>4
  <2> QED
    BY <1>5, <2>1 DEF Counts
<1>7. NumLeaves \in Nat
  BY Sizes
<1>8. top'[b] # 0
  BY <1>4
<1>9. /\ levelIndex' = [levelIndex EXCEPT ![b] = IF levelIndex[b] + 2 = numIndexesInLevel[b] THEN 0 ELSE @ + 2]
      /\ currLevel' = [currLevel EXCEPT ![b] = IF levelIndex[b] + 2 = numIndexesInLevel[b] THEN @ + 1 ELSE @]
      /\ numIndexesInLevel' =
           [numIndexesInLevel EXCEPT ![b] = IF levelIndex[b] + 2 = numIndexesInLevel[b] THEN 2 * @ ELSE @]
      /\ levelIndex \in [Party -> Nat] /\ currLevel \in [Party -> Level]
      /\ numIndexesInLevel \in [Party -> Nat]
  BY DEF FullExpand, FullInv, HeapTypeOK
<1>10. CASE 2 * k + 2 = n
  <2>1. levelIndex'[b] = 0 /\ currLevel'[b] = L /\ numIndexesInLevel'[b] = 2 * n
    <3>1. levelIndex[b] + 2 = numIndexesInLevel[b]
      BY <1>10
    <3>2. currLevel'[b] = (L - 1) + 1
      BY <1>9, <3>1
    <3> HIDE DEF n
    <3>3. numIndexesInLevel[b] = n
      BY DEF n
    <3> QED
      BY <1>1, <1>9, <3>1, <3>2, <3>3
  <2>2. 0 \in 0 .. 2 ^ L - 1 /\ 0 = 2 * 0
    BY <1>2
  <2>3. top'[b] = SlotAt(L + 1, 0)
    <3>1. SlotAt(L + 1, 0) = 2 * n - 1 + 0
      BY <1>2 DEF SlotAt
    <3> HIDE DEF m, n
    <3> QED
      BY <1>2, <1>3, <1>10, <3>1
  <2>4. 2 * n \in Nat /\ 2 ^ (L + 1) = 2 * n
    <3> HIDE DEF m, n
    <3> QED
      BY <1>2 
  <2> HIDE DEF m, n
  <2> QED
    BY <1>1, <1>4, <1>6, <1>7, <1>8, <2>1, <2>2, <2>3, <2>4 DEF Counts
<1>11. CASE 2 * k + 2 # n
  <2>1. levelIndex'[b] = 2 * k + 2 /\ currLevel'[b] = L - 1 /\ numIndexesInLevel'[b] = n
    <3>1. levelIndex[b] + 2 # numIndexesInLevel[b]
      BY <1>11
    <3>3. numIndexesInLevel[b] = n
      BY DEF n
    <3> HIDE DEF n
    <3> QED
      BY <1>9, <3>1, <3>3
  <2>2. k + 1 \in 0 .. m - 1 /\ 2 * k + 2 = 2 * (k + 1) /\ 2 * k + 2 \in Nat /\ n \in Nat
    <3> HIDE DEF m, n
    <3> QED
      BY <1>2, <1>11
  <2>3. top'[b] = SlotAt(L, 2 * k + 2)
    <3>1. SlotAt(L, 2 * k + 2) = n - 1 + (2 * k + 2)
      BY DEF SlotAt
    <3> HIDE DEF m, n
    <3> QED
      BY <1>2, <1>3, <3>1
  <2>4. n = 2 ^ ((L - 1) + 1) /\ L - 1 # Size /\ \E q \in 0 .. 2 ^ (L - 1) - 1 : 2 * k + 2 = 2 * q
    BY <1>1, <2>2
  <2> HIDE DEF m, n
  <2> QED
    BY <1>1, <1>4, <1>6, <1>7, <1>8, <2>1, <2>2, <2>3, <2>4 DEF Counts
<1> HIDE DEF m, n
<1> QED
  BY <1>10, <1>11

\* An expansion of one node keeps it,
LEMMA FullStepExpand ==
  ASSUME FullInv, TypeOK, GenInv, NEW b \in Party, FullExpand(b)
  PROVE  FullInv'
<1>0. PICK L \in 1 .. Size : \E k \in 0 .. 2 ^ (L - 1) - 1 :
           /\ currLevel[b] = L - 1 /\ levelIndex[b] = 2 * k /\ numIndexesInLevel[b] = 2 ^ L
           /\ top[b] = SlotAt(L, 2 * k) /\ top[b] + 1 = SlotAt(L, 2 * k + 1)
           /\ ParentIndex(top[b], levelIndex[b], numIndexesInLevel[b]) = SlotAt(L - 1, k)
  BY ExpandShape
<1>1. PICK k \in 0 .. 2 ^ (L - 1) - 1 :
           /\ currLevel[b] = L - 1 /\ levelIndex[b] = 2 * k /\ numIndexesInLevel[b] = 2 ^ L
           /\ top[b] = SlotAt(L, 2 * k) /\ top[b] + 1 = SlotAt(L, 2 * k + 1)
           /\ ParentIndex(top[b], levelIndex[b], numIndexesInLevel[b]) = SlotAt(L - 1, k)
  BY <1>0
<1> DEFINE p == SlotAt(L - 1, k)
<1>2. /\ top'[b] = top[b] + 2
      /\ \A d \in Side : heap'[b][SlotAt(L, 2 * k + d)] = Pair(heap[b][p], L - 1)[d]
      /\ \A h \in Slot : h < top[b] => heap'[b][h] = heap[b][h]
      /\ \A c \in Party : c # b => heap'[c] = heap[c] /\ top'[c] = top[c]
      /\ \A M \in Level : \A j \in 0 .. 2 ^ M - 1 :
            SlotAt(M, j) < top'[b] =>
               \/ SlotAt(M, j) < top[b]
               \/ M = L /\ \E d \in Side : j = 2 * k + d
  BY <1>1, ExpandEffect
<1>3. UNCHANGED genVars /\ leaf' = leaf /\ full' = full
  BY DEF FullExpand, vars
<1>4. /\ pc' = pc /\ \A n, l : Pair(n, l)' = Pair(n, l)
      /\ \A c, i : GenNode(c, i)' = GenNode(c, i)
      /\ \A i : PathIndex(i)' = PathIndex(i)
      /\ \A c, n : LeafOutput(c, n)' = LeafOutput(c, n)
      /\ Value' = Value
  BY <1>3, KeyStable DEF genVars, Pair, PathIndex, Value
<1>5. /\ L \in Level /\ L - 1 \in Level /\ k \in Nat /\ p \in Slot
      /\ \A d \in Side : /\ 2 * k + d \in 0 .. 2 ^ L - 1 /\ SlotAt(L, 2 * k + d) \in Slot
                         /\ p < SlotAt(L, 2 * k + d)
  <2>1. L - 1 \in Level /\ L \in Level
    BY SizeAssumption DEF Level
  <2>2. k \in Nat
    BY <2>1, Powers
  <2> QED
    BY <2>1, <2>2, ChildSlots, SlotFacts
<1>6. p < top[b]
  <2>1. 2 * k + 0 = 2 * k /\ 0 \in Side
    BY <1>5 DEF Side
  <2> QED
    BY <1>1, <1>5, <2>1
<1>7. top[b] \in Nat /\ top'[b] \in Nat /\ top[b] < top'[b]
  BY <1>2 DEF FullInv, HeapTypeOK
<1>8. heap[b][p] \in Node
  BY <1>5 DEF FullInv, HeapTypeOK
<1>9. pc = "done" /\ level = Size /\ Grown(L) /\ gbit[0][L - 1] # gbit[1][L - 1]
  <2>1. top[b] # 0
    BY <1>5, <1>6, <1>7, SlotFacts
  <2>2. pc = "done"
    BY <2>1 DEF FullInv, CountInv, Counts
  <2>3. L - 1 \in 0 .. Size
    BY <1>5 DEF Level
  <2> QED
    BY <2>2, <2>3 DEF GenInv
<1>10. leaf[b] = 0
  <2>1. top[b] # TreeSize
    BY Sizes DEF FullExpand
  <2> QED
    BY <2>1 DEF FullInv, CountInv, Counts
<1> HIDE DEF p
<1>11. HeapTypeOK'
  <2>1. /\ Pair(heap[b][p], L - 1)[0] \in Node /\ Pair(heap[b][p], L - 1)[1] \in Node
    BY <1>8, PairType DEF Side
  <2>2. /\ heap' = [heap EXCEPT ![b][top[b]] = Pair(heap[b][p], L - 1)[0],
                                ![b][top[b] + 1] = Pair(heap[b][p], L - 1)[1]]
        /\ top' = [top EXCEPT ![b] = top[b] + 2]
    BY <1>1 DEF FullExpand, p
  <2>3. heap' \in [Party -> [Slot -> Node]] /\ top' \in [Party -> Nat]
    BY <1>7, <2>1, <2>2 DEF FullInv, HeapTypeOK
  <2>4. /\ currLevel' = [currLevel EXCEPT ![b] = currLevel'[b]]
        /\ levelIndex' = [levelIndex EXCEPT ![b] = levelIndex'[b]]
        /\ numIndexesInLevel' = [numIndexesInLevel EXCEPT ![b] = numIndexesInLevel'[b]]
    BY DEF FullExpand, FullInv, HeapTypeOK
  <2>5. currLevel'[b] \in Level /\ levelIndex'[b] \in Nat /\ numIndexesInLevel'[b] \in Nat
    BY <1>1, <1>2, ExpandCounts
  <2> QED
    BY <1>3, <1>4, <2>3, <2>4, <2>5 DEF FullInv, HeapTypeOK
<1>12. CountInv'
  <2> SUFFICES ASSUME NEW c \in Party PROVE Counts(c)'
    BY DEF CountInv
  <2>1. CASE c = b
    BY <1>1, <1>2, <2>1, ExpandCounts
  <2>2. CASE c # b
    <3>1. /\ top'[c] = top[c] /\ leaf'[c] = leaf[c] /\ currLevel'[c] = currLevel[c]
          /\ levelIndex'[c] = levelIndex[c] /\ numIndexesInLevel'[c] = numIndexesInLevel[c]
      BY <1>2, <1>3, <2>2 DEF FullExpand, FullInv, HeapTypeOK
    <3> QED
      BY <1>4, <3>1 DEF FullInv, CountInv, Counts
  <2> QED
    BY <2>1, <2>2
<1>13. LinkInv'
  <2> SUFFICES ASSUME NEW c \in Party, NEW M \in 1 .. Size, NEW q \in 0 .. 2 ^ (M - 1) - 1,
                      NEW e \in Side, SlotAt(M, 2 * q + e) < top'[c]
               PROVE  heap'[c][SlotAt(M, 2 * q + e)] = Pair(heap'[c][SlotAt(M - 1, q)], M - 1)[e]
    BY <1>4 DEF LinkInv, SlotAt
  <2> DEFINE child == SlotAt(M, 2 * q + e)
             above == SlotAt(M - 1, q)
  <2>1. M \in Level /\ 2 * q + e \in 0 .. 2 ^ M - 1 /\ child \in Slot /\ above \in Slot
        /\ above < child /\ q \in Nat
    <3>1. M - 1 \in Level
      BY SizeAssumption DEF Level
    <3>2. q \in Nat
      BY <3>1, Powers
    <3> QED
      BY <3>2, ChildSlots, SlotFacts
  <2>2. CASE c # b
    BY <1>2, <2>2 DEF FullInv, LinkInv
  <2>3. CASE c = b /\ child < top[b]
    <3>1. above < top[b]
      <4> HIDE DEF child, above
      <4> QED
        BY <1>7, <2>1, <2>3, SlotFacts
    <3>2. heap'[b][child] = heap[b][child] /\ heap'[b][above] = heap[b][above]
      <4> HIDE DEF child, above
      <4> QED
        BY <1>2, <2>1, <2>3, <3>1
    <3>3. heap[b][child] = Pair(heap[b][above], M - 1)[e]
      BY <2>3 DEF FullInv, LinkInv
    <3> QED
      BY <2>3, <3>2, <3>3
  <2>4. CASE c = b /\ ~(child < top[b])
    <3>1. M = L /\ \E d \in Side : 2 * q + e = 2 * k + d
      BY <1>2, <2>1, <2>4
    <3>2. q = k /\ M = L
      BY <1>5, <2>1, <3>1 DEF Side
    <3>3. heap'[b][child] = Pair(heap[b][p], L - 1)[e]
      BY <1>2, <3>2
    <3>4. above = p /\ heap'[b][p] = heap[b][p]
      BY <1>2, <1>5, <1>6, <3>2 DEF p
    <3> QED
      BY <2>4, <3>2, <3>3, <3>4
  <2> QED
    BY <2>2, <2>3, <2>4
<1>14. ASSUME NEW d \in Side
       PROVE  2 * k + d = PathIndex(L) <=> k = PathIndex(L - 1) /\ d = GetBit(alpha, L)
  <2>1. alpha \in Identifier /\ k \in Nat
    BY <1>5 DEF TypeOK
  <2> QED
    BY <2>1, PathParent
<1>15. k = PathIndex(L - 1) => heap[b][p] = GenNode(b, L - 1)
  BY <1>5, <1>6 DEF FullInv, WayInv, p
<1>16. WayInv'
  <2> SUFFICES ASSUME NEW c \in Party, NEW M \in Level, SlotAt(M, PathIndex(M)) < top'[c]
               PROVE  heap'[c][SlotAt(M, PathIndex(M))] = GenNode(c, M)
    BY <1>4 DEF WayInv, SlotAt
  <2>1. CASE c # b
    BY <1>2, <2>1 DEF FullInv, WayInv
  <2>2. CASE c = b /\ SlotAt(M, PathIndex(M)) < top[b]
    BY <1>2, <2>2, PathSlot DEF FullInv, WayInv
  <2>3. CASE c = b /\ ~(SlotAt(M, PathIndex(M)) < top[b])
    <3>1. PICK d \in Side : M = L /\ PathIndex(M) = 2 * k + d
      BY <1>2, <2>3, PathSlot
    <3>2. k = PathIndex(L - 1) /\ d = GetBit(alpha, L)
      BY <1>14, <3>1
    <3>3. heap'[b][SlotAt(L, 2 * k + d)] = Pair(GenNode(b, L - 1), L - 1)[d]
      BY <1>2, <1>15, <3>2
    <3>4. Pair(GenNode(b, L - 1), L - 1)[d] = GenNode(b, L)
      BY <1>9, <3>2, PairOnPath
    <3> QED
      BY <2>3, <3>1, <3>3, <3>4
  <2> QED
    BY <2>1, <2>2, <2>3
<1>17. MeetInv'
  <2> SUFFICES ASSUME NEW M \in Level, NEW j \in 0 .. 2 ^ M - 1, j # PathIndex(M),
                      SlotAt(M, j) < top'[0], SlotAt(M, j) < top'[1]
               PROVE  heap'[0][SlotAt(M, j)] = heap'[1][SlotAt(M, j)]
    BY <1>4 DEF MeetInv, SlotAt
  <2>1. PICK o \in Party : {b, o} = Party /\ o # b
    BY DEF Party
  <2>2. /\ SlotAt(M, j) < top'[b] /\ SlotAt(M, j) < top[o] /\ heap'[o] = heap[o]
        /\ SlotAt(M, j) \in Slot
    BY <1>2, <2>1, SlotFacts DEF Party
  <2>3. SUFFICES heap'[b][SlotAt(M, j)] = heap[o][SlotAt(M, j)]
    BY <2>1, <2>2 DEF Party
  <2>4. \A N \in Level : \A i \in 0 .. 2 ^ N - 1 :
           (i # PathIndex(N) /\ SlotAt(N, i) < top[b] /\ SlotAt(N, i) < top[o]) =>
              heap[b][SlotAt(N, i)] = heap[o][SlotAt(N, i)]
    BY <2>1 DEF FullInv, MeetInv, Party
  <2>5. CASE SlotAt(M, j) < top[b]
    BY <1>2, <2>2, <2>4, <2>5
  <2>6. CASE ~(SlotAt(M, j) < top[b])
    <3>1. PICK d \in Side : M = L /\ j = 2 * k + d
      BY <1>2, <2>2, <2>6
    <3>2. heap'[b][SlotAt(M, j)] = Pair(heap[b][p], L - 1)[d]
      BY <1>2, <3>1
    <3>3. heap[o][SlotAt(M, j)] = Pair(heap[o][p], L - 1)[d]
      BY <2>2, <3>1 DEF FullInv, LinkInv, p
    <3>4. p < top[o]
      <4>1. p < SlotAt(M, j) /\ top[o] \in Nat
        BY <1>5, <3>1 DEF FullInv, HeapTypeOK
      <4> QED
        BY <1>5, <2>2, <4>1, SlotFacts
    <3>5. CASE k # PathIndex(L - 1)
      <4>1. heap[b][p] = heap[o][p]
        BY <1>5, <1>6, <2>4, <3>4, <3>5 DEF p
      <4> QED
        BY <3>2, <3>3, <4>1
    <3>6. CASE k = PathIndex(L - 1)
      <4>1. d # GetBit(alpha, L)
        BY <1>14, <3>1, <3>6
      <4>2. heap[b][p] = GenNode(b, L - 1) /\ heap[o][p] = GenNode(o, L - 1)
        BY <1>5, <1>15, <3>4, <3>6 DEF FullInv, WayInv, p
      <4>3. Pair(GenNode(0, L - 1), L - 1)[d] = Pair(GenNode(1, L - 1), L - 1)[d]
        BY <1>9, <4>1, PairOffPath
      <4>4. Pair(GenNode(b, L - 1), L - 1)[d] = Pair(GenNode(o, L - 1), L - 1)[d]
        BY <2>1, <4>3 DEF Party
      <4> QED
        BY <3>2, <3>3, <4>2, <4>4
    <3> QED
      BY <3>5, <3>6
  <2> QED
    BY <2>5, <2>6
<1>18. WrittenInv'
  <2> SUFFICES ASSUME NEW c \in Party, NEW x \in 0 .. NumLeaves - 1, x < leaf[c]
               PROVE  full[c][x] = LeafOutput(c, heap'[c][LeafIndex(x)])
    BY <1>3, <1>4 DEF WrittenInv, LeafIndex
  <2>1. c # b
    BY <1>10, Sizes
  <2> QED
    BY <1>2, <2>1 DEF FullInv, WrittenInv
<1> QED
  BY <1>11, <1>12, <1>13, <1>16, <1>17, <1>18 DEF FullInv

\* and so does a leaf.
LEMMA FullStepLeaf ==
  ASSUME FullInv, TypeOK, NEW b \in Party, FullLeaf(b)
  PROVE  FullInv'
<1> DEFINE x0 == leaf[b]
           v == LeafOutput(b, heap[b][LeafIndex(x0)])
<1>1. /\ top[b] = TreeSize /\ x0 < NumLeaves /\ UNCHANGED genVars
      /\ full' = [full EXCEPT ![b][x0] = v] /\ leaf' = [leaf EXCEPT ![b] = x0 + 1]
      /\ UNCHANGED <<heap, top, currLevel, levelIndex, numIndexesInLevel>>
  BY DEF FullLeaf, vars
<1>2. /\ x0 \in Nat /\ NumLeaves \in Nat /\ x0 \in 0 .. NumLeaves - 1
      /\ TreeSize \in Nat \ {0}
  BY <1>1, Sizes DEF FullInv, HeapTypeOK
<1>3. /\ pc' = pc /\ \A n, l : Pair(n, l)' = Pair(n, l)
      /\ \A c, i : GenNode(c, i)' = GenNode(c, i)
      /\ \A i : PathIndex(i)' = PathIndex(i)
      /\ \A c, n : LeafOutput(c, n)' = LeafOutput(c, n)
      /\ Value' = Value
  BY <1>1, KeyStable DEF genVars, Pair, PathIndex, Value
<1>4. v \in Value
  <2>1. heap[b][LeafIndex(x0)] \in Node
    BY <1>2, SlotFacts DEF FullInv, HeapTypeOK
  <2> QED
    BY <2>1, LeafOutputType
<1> HIDE DEF v
<1>5. /\ leaf'[b] = x0 + 1 /\ full'[b][x0] = v
      /\ \A x \in 0 .. NumLeaves - 1 : x # x0 => full'[b][x] = full[b][x]
      /\ \A c \in Party : c # b => full'[c] = full[c] /\ leaf'[c] = leaf[c]
  <2>1. full \in [Party -> [0 .. NumLeaves - 1 -> Value]] /\ leaf \in [Party -> Nat]
    BY DEF FullInv, HeapTypeOK
  <2> HIDE DEF x0
  <2> QED
    BY <1>1, <1>2, <2>1
<1>6. HeapTypeOK'
  <2>1. full' \in [Party -> [0 .. NumLeaves - 1 -> Value]] /\ leaf' \in [Party -> Nat]
    BY <1>1, <1>2, <1>4 DEF FullInv, HeapTypeOK
  <2> QED
    BY <1>1, <1>3, <2>1 DEF FullInv, HeapTypeOK
<1> HIDE DEF x0
<1>7. CountInv'
  <2> SUFFICES ASSUME NEW c \in Party PROVE Counts(c)'
    BY DEF CountInv
  <2>1. Counts(c)
    BY DEF FullInv, CountInv
  <2>2. CASE c = b
    <3>1. leaf'[c] <= NumLeaves /\ top[c] = TreeSize /\ top[c] # 0
      BY <1>1, <1>2, <1>5, <2>2
    <3> QED
      BY <1>1, <1>3, <2>1, <3>1 DEF Counts
  <2>3. CASE c # b
    BY <1>1, <1>3, <1>5, <2>1, <2>3 DEF Counts
  <2> QED
    BY <2>2, <2>3
<1>8. LinkInv'
  BY <1>1, <1>3 DEF FullInv, LinkInv
<1>9. WayInv'
  BY <1>1, <1>3 DEF FullInv, WayInv
<1>10. MeetInv'
  BY <1>1, <1>3 DEF FullInv, MeetInv
<1>11. WrittenInv'
  <2> SUFFICES ASSUME NEW c \in Party, NEW x \in 0 .. NumLeaves - 1, x < leaf'[c]
               PROVE  full'[c][x] = LeafOutput(c, heap[c][LeafIndex(x)])
    BY <1>1, <1>3 DEF WrittenInv, LeafIndex
  <2>1. CASE c = b /\ x = x0
    BY <1>5, <2>1 DEF v
  <2>2. CASE c = b /\ x # x0
    <3>1. x < leaf[b]
      BY <1>2, <1>5, <2>2 DEF x0
    <3> QED
      BY <1>5, <2>2, <3>1 DEF FullInv, WrittenInv
  <2>3. CASE c # b
    BY <1>5, <2>3 DEF FullInv, WrittenInv
  <2> QED
    BY <2>1, <2>2, <2>3
<1> QED
  BY <1>6, <1>7, <1>8, <1>9, <1>10, <1>11 DEF FullInv

-----------------------------------------------------------------------------
(* The theorems. *)

\* What a full-domain step does to key and batch is nothing.
THEOREM FullImplementsTree == FullSpec => Spec
<1>1. FullInit => Init
  BY DEF FullInit
<1>2. [FullNext]_allVars => [Next]_vars
  <2> SUFFICES ASSUME [FullNext]_allVars PROVE [Next]_vars
    OBVIOUS
  <2>1. CASE Next /\ UNCHANGED fullVars
    BY <2>1
  <2>2. CASE \E b \in Party : FullStep(b)
    BY <2>2 DEF FullStep, FullRoot, FullExpand, FullLeaf
  <2>3. CASE UNCHANGED allVars
    BY <2>3 DEF allVars
  <2> QED
    BY <2>1, <2>2, <2>3 DEF FullNext
<1> QED
  BY <1>1, <1>2, PTL DEF FullSpec, Spec

\* The strengthened invariant holds of every full-domain evaluation.
THEOREM HeapInductive == FullSpec => [](TreeInv /\ FullInv)
<1>1. FullInit /\ TypeOK => FullInv
  BY FullStart
<1>2. FullInv /\ TreeInv /\ TreeInv' /\ [FullNext]_allVars => FullInv'
  <2> SUFFICES ASSUME FullInv, TreeInv, TreeInv', [FullNext]_allVars PROVE FullInv'
    OBVIOUS
  <2>0. TypeOK /\ TypeOK' /\ GenInv
    BY DEF TreeInv
  <2>1. CASE Next /\ UNCHANGED fullVars
    BY <2>0, <2>1, FullTree
  <2>2. CASE \E b \in Party : FullStep(b)
    BY <2>0, <2>2, FullStepRoot, FullStepExpand, FullStepLeaf DEF FullStep
  <2>3. CASE UNCHANGED allVars
    BY <2>0, <2>3, FullTree DEF allVars
  <2> QED
    BY <2>1, <2>2, <2>3 DEF FullNext
<1>3. TreeInv => TypeOK
  BY DEF TreeInv
<1> QED
  BY <1>1, <1>2, <1>3, FullImplementsTree, TreeInductive, PTL DEF FullSpec

\* The counters stay within the tree: no expansion writes behind the heap, and
\* no output behind the leaves.
THEOREM FullTypeCorrect == FullSpec => []FullTypeOK
<1>1. FullInv => FullTypeOK
  <2> SUFFICES ASSUME FullInv PROVE FullTypeOK
    OBVIOUS
  <2>1. Size \in Nat \ {0} /\ NumLeaves \in Nat \ {0} /\ TreeSize \in Nat \ {0}
        /\ NumLeaves = 2 ^ Size /\ 2 ^ (Size + 1) = 2 * NumLeaves
        /\ TreeSize = 2 * NumLeaves - 1
    BY Sizes, Powers
  <2>2. ASSUME NEW b \in Party
        PROVE  /\ top[b] \in 0 .. TreeSize /\ levelIndex[b] \in 0 .. NumLeaves
               /\ numIndexesInLevel[b] \in 2 .. 2 * NumLeaves /\ leaf[b] \in 0 .. NumLeaves
    <3> DEFINE L == currLevel[b]
               m == 2 ^ L
    <3>1. L \in Level /\ L \in 0 .. Size /\ leaf[b] \in Nat /\ Counts(b)
      BY DEF FullInv, HeapTypeOK, CountInv, Level
    <3>2. m \in Nat \ {0} /\ 2 ^ (L + 1) = 2 * m /\ numIndexesInLevel[b] = 2 * m
      BY <3>1, Powers DEF Counts
    <3>3. PICK k \in 0 .. m - 1 : levelIndex[b] = 2 * k
      BY <3>1 DEF Counts
    <3>4. m <= NumLeaves
      BY <2>1, <3>1, Monotone
    <3>5. leaf[b] \in 0 .. NumLeaves /\ numIndexesInLevel[b] \in 2 .. 2 * NumLeaves
      <4>1. leaf[b] <= NumLeaves
        BY <3>1 DEF Counts
      <4> HIDE DEF m
      <4> QED
        BY <2>1, <3>1, <3>2, <3>4, <4>1
    <3>6. top[b] = 0 \/ top[b] = 2 * m - 1 + 2 * k
      BY <3>1, <3>2, <3>3 DEF Counts, SlotAt
    <3>7. CASE L = Size
      <4>1. levelIndex[b] = 0 /\ k = 0 /\ m = NumLeaves
        <5>1. levelIndex[b] = 0 /\ m = NumLeaves
          BY <2>1, <3>1, <3>7 DEF Counts
        <5> HIDE DEF m
        <5> QED
          BY <3>2, <3>3, <5>1
      <4> HIDE DEF m
      <4> QED
        BY <2>1, <3>2, <3>5, <3>6, <4>1
    <3>8. CASE L # Size
      <4>1. 2 * m <= NumLeaves
        <5>1. L + 1 \in 0 .. Size + 1 /\ Size \in 0 .. Size + 1 /\ L + 1 <= Size
          BY <2>1, <3>1, <3>8
        <5>2. 2 ^ (L + 1) <= 2 ^ Size
          BY <5>1, Monotone
        <5> QED
          BY <2>1, <3>2, <5>2
      <4> HIDE DEF m
      <4> QED
        BY <2>1, <3>2, <3>3, <3>5, <3>6, <4>1
    <3> QED
      BY <3>7, <3>8
  <2>3. Node = [seed : Block, bit : Bit]
    BY DEF Node
  <2> QED
    BY <2>2, <2>3 DEF FullTypeOK, FullInv, HeapTypeOK
<1> QED
  BY <1>1, HeapInductive, PTL

\* Whatever the other party has written, the outputs of an input are shares of
\* the point function: at every input, in both schemes.
THEOREM FullDomainShared == FullSpec => []FullDomainShares
<1>1. TreeInv /\ FullInv => FullDomainShares
  <2> SUFFICES ASSUME TreeInv, FullInv, NEW x \in 0 .. NumLeaves - 1, x < leaf[0], x < leaf[1]
               PROVE  Combine(full[0][x], full[1][x]) = PointFunction(x)
    BY DEF FullDomainShares
  <2>1. 0 \in Party /\ 1 \in Party /\ TypeOK /\ GenInv
    BY DEF Party, TreeInv
  <2>2. leaf[0] # 0 /\ leaf[1] # 0
    BY <2>1, Sizes DEF FullInv, HeapTypeOK
  <2>3. top[0] = TreeSize /\ top[1] = TreeSize /\ TreeSize # 0
    BY <2>1, <2>2, Sizes DEF FullInv, CountInv, Counts
  <2>4. pc = "done"
    BY <2>1, <2>3 DEF FullInv, CountInv, Counts
  <2> DEFINE h == LeafIndex(x)
             n0 == heap[0][h]
             n1 == heap[1][h]
  <2>5. /\ h \in Slot /\ h < TreeSize /\ h = SlotAt(Size, x)
        /\ x \in 0 .. 2 ^ Size - 1 /\ Size \in Level
    BY SlotFacts, Sizes
  <2>6. full[0][x] = LeafOutput(0, n0) /\ full[1][x] = LeafOutput(1, n1)
    BY <2>1 DEF FullInv, WrittenInv
  <2>7. n0 \in Node /\ n1 \in Node
    BY <2>1, <2>5 DEF FullInv, HeapTypeOK
  <2>8. PathIndex(Size) = alpha
    BY <2>1, PathEnds DEF TypeOK
  <2>9. x = alpha => n0 = GenNode(0, Size) /\ n1 = GenNode(1, Size)
    BY <2>1, <2>3, <2>5, <2>8 DEF FullInv, WayInv
  <2>10. x # alpha => n0 = n1
    BY <2>3, <2>5, <2>8 DEF FullInv, MeetInv
  <2> HIDE DEF n0, n1
  <2>11. Combine(LeafOutput(0, n0), LeafOutput(1, n1)) = PointFunction(x)
    BY <2>1, <2>4, <2>7, <2>9, <2>10, LeavesShare
  <2> QED
    BY <2>6, <2>11
<1> QED
  BY <1>1, HeapInductive, PTL
=============================================================================
