------------------------------ MODULE OmrDetect ------------------------------
(***************************************************************************)
(* Detection in the OMR baseline: PVW clues (regevEncryption.h) and what   *)
(* the detector does to find out, under encryption, which clues are the    *)
(* recipient's (PVWToBFVSeal.h).                                           *)
(*                                                                         *)
(* A BFV ciphertext is the vector of its slots: SEAL's operations are      *)
(* taken to be exact, noise and levels are left out.  The slots form two   *)
(* rows that rotate separately.                                            *)
(***************************************************************************)
EXTENDS Integers, Sequences, SequencesExt

CONSTANTS
  P,                  \* 65537: plaintext modulus of BFV and modulus q of PVW
  Degree,             \* poly_modulus_degree: slots of a ciphertext
  Dim,                \* PVWParam.n: length of a key and of a mask
  Ell,                \* PVWParam.ell: components of a clue
  Root,               \* 256: the baby steps of the range check
  RangeToCheck,       \* 850: the range is -RangeToCheck .. RangeToCheck
  RangeCheckIndices,  \* the polynomial of the range check, from x up
  Word                \* 2^64: unsigned arithmetic wraps there

Zp == 0 .. P - 1
Slot == 0 .. Degree - 1
Half == Degree \div 2
Ciphertext == [Slot -> Zp]
Component == 0 .. Ell - 1
Coordinate == 0 .. Dim - 1

\* 65537 is 2^16 + 1: a slot holds 16 index bits, and Word is 1 modulo P.
ASSUME DetectAssumption ==
  /\ \E k \in 1 .. 16 : P = 2 ^ k + 1
  /\ Root \in Nat \ {0} /\ Root * Root = P - 1
  /\ Word \in Nat /\ Word % P = 1 /\ Word > P
  /\ \E k \in 1 .. 16 : Degree = 2 ^ k
  /\ Dim \in 1 .. Half /\ Ell \in Nat \ {0}
  /\ RangeToCheck \in 1 .. P \div 4 - 1
  /\ RangeCheckIndices \in [0 .. P - 2 -> Zp]

\* What the provers do not know of powers of two.
ASSUME PowerAssumption == 2 ^ 0 = 1 /\ \A n \in 0 .. 15 : 2 ^ (n + 1) = 2 * 2 ^ n

\* The sum and the product modulo P of f[i] for i from 0 up to n - 1.
SumMod(f, n) ==
  LET s[k \in 0 .. n] == IF k = 0 THEN 0 ELSE (s[k - 1] + f[k - 1]) % P
  IN  s[n]
ProductMod(f, n) ==
  LET r[k \in 0 .. n] == IF k = 0 THEN 1 ELSE (r[k - 1] * f[k - 1]) % P
  IN  r[n]

-----------------------------------------------------------------------------
(* The polynomial of the range check. *)

InRange(x) == x <= RangeToCheck \/ x >= P - RangeToCheck

PowerMod(x, d) == ProductMod([i \in 0 .. d - 1 |-> x], d)

\* The coefficients, which the code holds as a table (global.h:21), are those of the
\* polynomial that is 0 in the range and 1 outside.  Only even powers have one, so
\* that the range has both its ends.
ASSUME PolynomialAssumption ==
  \A x \in Zp :
     SumMod([k \in 0 .. P - 2 |-> RangeCheckIndices[k] * PowerMod(x, k + 1)], P - 1)
       = IF InRange(x) THEN 0 ELSE 1

-----------------------------------------------------------------------------
(* Clues: own ones are encryptions of zeros under the recipient's key. *)

Inner(a, s) == SumMod([i \in Coordinate |-> a[i] * s[i]], Dim)

\* PVWEncSK and PVWEncPK of zeros: P \div 4 in the middle of the half that
\* decrypts to 0, moved by the noise.
PVWEnc(a, sk, e) ==
  [a |-> a,
   b |-> [l \in Component |-> (Inner(a, sk[l]) + P \div 4 + e[l]) % P]]

\* Every component lies in the lower half.
DecryptsToZeros(c, sk) ==
  \A l \in Component : (c.b[l] - Inner(c.a, sk[l])) % P < P \div 2

-----------------------------------------------------------------------------
(* Slots. *)

RotateRows(ct, r) ==
  [j \in Slot |-> ct[(j \div Half) * Half + (((j % Half) + r) % Half)]]
RotateColumns(ct) == [j \in Slot |-> ct[(j + Half) % Degree]]
Add(c, d) == [j \in Slot |-> (c[j] + d[j]) % P]
MultiplyPlain(c, v) == [j \in Slot |-> (c[j] * v[j]) % P]
ZeroCt == [j \in Slot |-> 0]

\* The power of two that a key is padded to.
TempN == 2 ^ (CHOOSE k \in 0 .. 16 :
                2 ^ k >= Dim /\ \A m \in 0 .. k - 1 : 2 ^ m < Dim)

\* The recipient's key in every run of TempN slots.
genSwitchingKeyPVWPacked(s) ==
  [i \in Slot |-> IF i % TempN >= Dim THEN 0 ELSE s[i % TempN]]

\* Variant: the key is used without being turned.
InnerUnturned(clues, key, j) ==
  SumMod([i \in 0 .. TempN - 1 |->
            LET t == (i + j) % TempN
            IN  IF t >= Dim THEN 0 ELSE key[j] * clues[j].a[t]],
         TempN)

\* Slot j of the products of the turning key with the diagonals of the masks.
InnerInSlot(clues, key, j) ==
  SumMod([i \in 0 .. TempN - 1 |->
            LET t == (i + j) % TempN
            IN  IF t >= Dim THEN 0 ELSE RotateRows(key, i)[j] * clues[j].a[t]],
         TempN)

\* b - <a, s> around 0, for component l of the clues in slots 0 .. count - 1; the
\* subtraction from b is unsigned and wraps.
computeBplusAS(clues, count, s, l) ==
  LET key == genSwitchingKeyPVWPacked(s)
      shifted(b) == (IF b >= P \div 4 THEN b - P \div 4 ELSE Word + b - P \div 4) % P
  IN  [j \in Slot |->
         IF j < count
         THEN (shifted(clues[j].b[l]) - InnerInSlot(clues, key, j)) % P
         ELSE 0]

-----------------------------------------------------------------------------
(* The range check. *)

\* calUptoDegreeK: the powers x^1 .. x^k.  A power is the product of the powers of
\* two in its exponent, each computed once; from the lowest up, as the loop
\* meets them.
calUptoDegreeK(x, k) ==
  LET square[m \in 0 .. 16] == IF m = 0 THEN x ELSE (square[m - 1] * square[m - 1]) % P
      power(d) == ProductMod([m \in 0 .. 15 |-> IF (d \div 2 ^ m) % 2 = 1 THEN square[m]
                                                ELSE 1], 16)
  IN  [d \in 1 .. k |-> power(d)]

\* RangeCheck_PatersonStockmeyer in one slot: Root sums over baby steps, each times
\* a giant step; 1 minus the value of the polynomial.
PatersonStockmeyer(x) ==
  LET baby == calUptoDegreeK(x, Root)
      giant == calUptoDegreeK(baby[Root], Root)
      levelSum(i) == SumMod([j \in 0 .. Root - 1 |->
                               RangeCheckIndices[i * Root + j] * baby[j + 1]], Root)
  IN  (1 - SumMod([i \in 0 .. Root - 1 |-> levelSum(i) * (IF i = 0 THEN 1 ELSE giant[i])],
                  Root)) % P

RangeCheck == [x \in Zp |-> PatersonStockmeyer(x)]

\* EvalMultMany_inpace: the product of the components' checks.
EvalMultMany(cts) ==
  [j \in Slot |-> ProductMod([l \in Component |-> cts[l][j]], Ell)]

\* serverOperations1obtainPackedSIC: for the clues of a batch, 1 in the slot of a
\* clue all of whose components are in range.
ObtainPackedSIC(clues, count, sk) ==
  EvalMultMany([l \in Component |->
    [j \in Slot |-> RangeCheck[computeBplusAS(clues, count, sk[l], l)[j]]]])

-----------------------------------------------------------------------------
(* Expansion: one ciphertext per message, its bit in every slot. *)

\* One turn brings the slot of message k to slot 0.
Turn(ct, k) ==
  CASE k = 0            -> ct
    [] k = Half         -> RotateRows(RotateColumns(ct), 1)
    [] k \notin {0, Half} -> RotateRows(ct, 1)

Turned(ct, start, count) ==
  LET t[i \in 0 .. count - 1] == Turn(IF i = 0 THEN ct ELSE t[i - 1], start + i)
  IN  t

\* innerSum_inplace up to Degree: the sum of all slots, in all slots.
InnerSum(ct) ==
  LET width == CHOOSE k \in 1 .. 16 : Degree = 2 ^ k
      step(c, m) == Add(c, IF 2 ^ m = Half THEN RotateColumns(c) ELSE RotateRows(c, 2 ^ m))
  IN  FoldLeft(step, ct, [m \in 1 .. width |-> m - 1])

\* expandSIC; toExpand itself is left turned for the chunk that follows.
ExpandSIC(ct, start, count) ==
  LET t == Turned(ct, start, count)
  IN  [expanded |-> [i \in 1 .. count |->
                       InnerSum([j \in Slot |-> IF j = 0 THEN t[i - 1][0] ELSE 0])],
       toExpand |-> t[count - 1]]
=============================================================================
