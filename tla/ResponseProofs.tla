--------------------------- MODULE ResponseProofs ---------------------------
(***************************************************************************)
(* Theorems about Response, for every word size, field, vector, mask and   *)
(* triple.                                                                 *)
(*                                                                         *)
(* The two servers take turns: at any time at most one of them has a       *)
(* message to read.  The inductive invariant lists the stages of a run,    *)
(* with what is on the connection in each, and says what the shares that   *)
(* were kept are.                                                          *)
(***************************************************************************)
EXTENDS Response, SequenceTheorems, WellFoundedInduction, TLAPS

-----------------------------------------------------------------------------
(* Arithmetic modulo m. *)

\* A number with the digits q and k.
LEMMA ModDigit ==
  ASSUME NEW q \in Int, NEW m \in Nat \ {0}, NEW k \in 0 .. m - 1
  PROVE  (q * m + k) % m = k
BY Z3

\* Quotient and remainder.
LEMMA ModSplit ==
  ASSUME NEW k \in Int, NEW m \in Nat \ {0}
  PROVE  /\ k \div m \in Int /\ k % m \in 0 .. m - 1
         /\ k = (k \div m) * m + (k % m)
<1>1. k % m \in 0 .. m - 1
  BY Z3
<1>2. k \div m \in Int
  BY Z3
<1>3. k = (k \div m) * m + (k % m)
  BY Z3
<1> QED
  BY <1>1, <1>2, <1>3

\* Sums may be reduced before or after.
LEMMA ModSum ==
  ASSUME NEW a \in Int, NEW b \in Int, NEW m \in Nat \ {0}
  PROVE  ((a % m) + (b % m)) % m = (a + b) % m
<1> DEFINE s == a % m
           t == b % m
           i == a \div m
           j == b \div m
<1>1. s \in 0 .. m - 1 /\ t \in 0 .. m - 1 /\ i \in Int /\ j \in Int
  BY ModSplit
<1>2. a = i * m + s /\ b = j * m + t
  BY ModSplit
<1> HIDE DEF s, t, i, j
<1>3. i * m \in Int /\ j * m \in Int /\ (i + j) * m = i * m + j * m
      /\ (i + j + 1) * m = i * m + j * m + m /\ 0 * m = 0 /\ 1 * m = m
  BY <1>1, Z3
<1>4. CASE s + t < m
  <2>1. s + t \in 0 .. m - 1 /\ i + j \in Int /\ 0 \in Int
    BY <1>1, <1>4
  <2>2. a + b = (i + j) * m + (s + t) /\ s + t = 0 * m + (s + t)
    BY <1>1, <1>2, <1>3
  <2>3. (a + b) % m = s + t /\ (s + t) % m = s + t
    BY <2>1, <2>2, ModDigit
  <2> QED
    BY <2>3 DEF s, t
<1>5. CASE s + t >= m
  <2>1. s + t - m \in 0 .. m - 1 /\ i + j + 1 \in Int /\ 1 \in Int
    BY <1>1, <1>5
  <2>2. a + b = (i + j + 1) * m + (s + t - m) /\ s + t = 1 * m + (s + t - m)
    BY <1>1, <1>2, <1>3
  <2>3. (a + b) % m = s + t - m /\ (s + t) % m = s + t - m
    BY <2>1, <2>2, ModDigit
  <2> QED
    BY <2>3 DEF s, t
<1> QED
  BY <1>1, <1>4, <1>5

\* What needs no reduction, and what is one modulus below it.
LEMMA ModSmall ==
  ASSUME NEW m \in Nat \ {0}, NEW k \in 0 .. m - 1
  PROVE  k % m = k /\ (k - m) % m = k
<1>1. k = 0 * m + k /\ k - m = (-1) * m + k
  BY Z3
<1> QED
  BY <1>1, ModDigit

\* A number plus multiples of the modulus.
LEMMA ModShift ==
  ASSUME NEW u \in Int, NEW k \in Int, NEW m \in Nat \ {0}
  PROVE  (u + k * m) % m = u % m
<1> DEFINE i == u \div m
           d == u % m
<1>1. i \in Int /\ d \in 0 .. m - 1 /\ u = i * m + d
  BY ModSplit
<1> HIDE DEF i, d
<1>2. u + k * m = (i + k) * m + d /\ i + k \in Int
  BY <1>1, Z3
<1>3. ((i + k) * m + d) % m = d
  BY <1>1, <1>2, ModDigit
<1> QED
  BY <1>2, <1>3 DEF d

\* What a remainder is, as a number with a multiple of the modulus added.
LEMMA ModWitness ==
  ASSUME NEW u \in Int, NEW m \in Nat \ {0}
  PROVE  \E k \in Int : u % m = u + k * m
<1> DEFINE i == u \div m
           d == u % m
<1>1. i \in Int /\ d \in 0 .. m - 1 /\ u = i * m + d
  BY ModSplit
<1> HIDE DEF i, d
<1>2. d = u + (-i) * m /\ -i \in Int
  BY <1>1, Z3
<1> QED
  BY <1>2 DEF d

\* Two servers multiply x and y with Beaver's triple: their shares of it are a0,
\* b0, c0 and a1, b1, c1, the opened differences d and e, the summands s0 and s1.
Multiplication(m, x, y, a0, a1, b0, b1, c0, c1, d, e, s0, s1) ==
  /\ m \in Nat \ {0} /\ x \in Int /\ y \in Int
  /\ a0 \in Int /\ a1 \in Int /\ b0 \in Int /\ b1 \in Int /\ c0 \in Int /\ c1 \in Int
  /\ (c0 + c1) % m = ((a0 + a1) * (b0 + b1)) % m
  /\ d = (x - (a0 + a1)) % m /\ e = (y - (b0 + b1)) % m
  /\ s0 = (d * b0 + a0 * e + c0) % m /\ s1 = (d * b1 + a1 * e + c1) % m

\* What both compute is the product.
LEMMA BeaverProduct ==
  ASSUME NEW m, NEW x, NEW y, NEW a0, NEW a1, NEW b0, NEW b1, NEW c0, NEW c1,
         NEW d, NEW e, NEW s0, NEW s1,
         Multiplication(m, x, y, a0, a1, b0, b1, c0, c1, d, e, s0, s1)
  PROVE  (d * e + s0 + s1) % m = (x * y) % m
<1>0. /\ m \in Nat \ {0} /\ x \in Int /\ y \in Int
      /\ a0 \in Int /\ a1 \in Int /\ b0 \in Int /\ b1 \in Int /\ c0 \in Int /\ c1 \in Int
      /\ (c0 + c1) % m = ((a0 + a1) * (b0 + b1)) % m
      /\ d = (x - (a0 + a1)) % m /\ e = (y - (b0 + b1)) % m
      /\ s0 = (d * b0 + a0 * e + c0) % m /\ s1 = (d * b1 + a1 * e + c1) % m
  BY DEF Multiplication
<1> DEFINE a == a0 + a1
           b == b0 + b1
<1>1. a \in Int /\ b \in Int /\ a * b \in Int /\ x * y \in Int
  BY <1>0
<1>2. PICK k1 \in Int : d = x - a + k1 * m
  <2> DEFINE u == x - a
  <2>1. u \in Int
    BY <1>0, <1>1
  <2> HIDE DEF u
  <2>2. \E k \in Int : u % m = u + k * m
    BY <1>0, <2>1, ModWitness
  <2> QED
    BY <1>0, <2>2 DEF u
<1>3. PICK k2 \in Int : e = y - b + k2 * m
  <2> DEFINE u == y - b
  <2>1. u \in Int
    BY <1>0, <1>1
  <2> HIDE DEF u
  <2>2. \E k \in Int : u % m = u + k * m
    BY <1>0, <2>1, ModWitness
  <2> QED
    BY <1>0, <2>2 DEF u
<1>4. d \in Int /\ e \in Int
  BY <1>0, <1>1, <1>2, <1>3
<1>5. d * b0 + a0 * e + c0 \in Int /\ d * b1 + a1 * e + c1 \in Int
  BY <1>0, <1>4
<1>6. PICK k3 \in Int : s0 = d * b0 + a0 * e + c0 + k3 * m
  BY <1>0, <1>5, ModWitness
<1>7. PICK k4 \in Int : s1 = d * b1 + a1 * e + c1 + k4 * m
  BY <1>0, <1>5, ModWitness
<1>8. PICK k5 \in Int : c0 + c1 = a * b + k5 * m
  <2> DEFINE u == c0 + c1
             v2 == a * b
  <2>0. u \in Int /\ v2 \in Int /\ u % m = v2 % m
    BY <1>0, <1>1
  <2> HIDE DEF u, v2
  <2>1. PICK i \in Int : u % m = u + i * m
    BY <1>0, <2>0, ModWitness
  <2>2. PICK j \in Int : v2 % m = v2 + j * m
    BY <1>0, <2>0, ModWitness
  <2>3. u + i * m = v2 + j * m /\ u \in Int /\ v2 \in Int
    BY <1>0, <2>0, <2>1, <2>2
  <2>4. u = v2 + (j - i) * m /\ j - i \in Int
    BY <1>0, <2>3, Z3
  <2> QED
    BY <1>0, <2>4 DEF u, v2
<1> DEFINE k == k1 * y + k2 * x + k1 * k2 * m + k3 + k4 + k5
<1>9. k \in Int
  BY <1>0
<1>10. d * e + s0 + s1 = x * y + k * m
  <2>1. s0 + s1 = d * b + a * e + a * b + (k3 + k4 + k5) * m
    <3>1. d * b = d * b0 + d * b1 /\ a * e = a0 * e + a1 * e
      BY <1>0, <1>4, Z3
    <3>2. (k3 + k4 + k5) * m = k3 * m + k4 * m + k5 * m
      BY <1>0, Z3
    <3> DEFINE g0 == d * b0
               g1 == d * b1
               h0 == a0 * e
               h1 == a1 * e
               ab == a * b
               n3 == k3 * m
               n4 == k4 * m
               n5 == k5 * m
    <3>3. /\ g0 \in Int /\ g1 \in Int /\ h0 \in Int /\ h1 \in Int /\ ab \in Int
          /\ n3 \in Int /\ n4 \in Int /\ n5 \in Int /\ c0 \in Int /\ c1 \in Int
      BY <1>0, <1>1, <1>4
    <3>4. s0 = g0 + h0 + c0 + n3 /\ s1 = g1 + h1 + c1 + n4 /\ c0 + c1 = ab + n5
      BY <1>6, <1>7, <1>8
    <3> HIDE DEF g0, g1, h0, h1, ab, n3, n4, n5
    <3>5. s0 + s1 = (g0 + g1) + (h0 + h1) + ab + (n3 + n4 + n5)
      BY <3>3, <3>4
    <3> QED
      BY <3>1, <3>2, <3>5 DEF g0, g1, h0, h1, ab, n3, n4, n5
  <2> HIDE DEF a, b
  <2>2. d * e + d * b + a * e + a * b = (d + a) * (e + b)
    BY <1>0, <1>1, <1>4, Z3
  <2>3. d + a = x + k1 * m /\ e + b = y + k2 * m
    BY <1>0, <1>1, <1>2, <1>3, <1>4
  <2>4. (x + k1 * m) * (y + k2 * m) = x * y + (k1 * y + k2 * x + k1 * k2 * m) * m
    BY <1>0, Z3
  <2>5. (k1 * y + k2 * x + k1 * k2 * m) * m + (k3 + k4 + k5) * m = k * m
    BY <1>0, Z3
  <2> DEFINE f == d * e
             g == d * b
             h == a * e
             ab == a * b
             u == (k1 * y + k2 * x + k1 * k2 * m) * m
             v2 == (k3 + k4 + k5) * m
  <2>6. f \in Int /\ g \in Int /\ h \in Int /\ ab \in Int /\ u \in Int /\ v2 \in Int /\ s0 + s1 \in Int
        /\ s0 \in Int /\ s1 \in Int
    BY <1>0, <1>1, <1>4, <1>6, <1>7
  <2>7. f + g + h + ab = x * y + u
    BY <2>2, <2>3, <2>4
  <2>8. s0 + s1 = g + h + ab + v2
    BY <2>1
  <2>9. u + v2 = k * m
    BY <2>5
  <2> HIDE DEF f, g, h, ab, u, v2, k
  <2>10. f + s0 + s1 = x * y + k * m
    BY <1>0, <1>1, <2>6, <2>7, <2>8, <2>9
  <2> QED
    BY <2>10 DEF f
<1> HIDE DEF k
<1>11. (d * e + s0 + s1) % m = (x * y) % m
  <2> DEFINE u == x * y
  <2>1. u \in Int /\ d * e + s0 + s1 = u + k * m
    BY <1>0, <1>1, <1>10
  <2> HIDE DEF u
  <2>2. (u + k * m) % m = u % m
    <3>1. m \in Nat \ {0}
      BY <1>0
    <3> QED
      BY <1>9, <2>1, <3>1, ModShift
  <2> QED
    BY <2>1, <2>2 DEF u
<1> QED
  BY <1>11

\* Every set of numbers that is not empty has a least one.
LEMMA LeastNumber ==
  ASSUME NEW T, T \subseteq Nat, T # {}
  PROVE  \E x \in T : \A y \in T : ~(y < x)
<1> DEFINE L == OpToRel(<, Nat)
<1>1. IsWellFoundedOn(L, Nat)
  BY NatLessThanWellFounded
<1>2. \E x \in T : \A y \in T : ~(<<y, x>> \in L)
  <2> HIDE DEF L
  <2> QED
    BY <1>1, WFMin
<1>3. PICK x \in T : \A y \in T : ~(<<y, x>> \in L)
  BY <1>2
<1>4. ASSUME NEW y \in T
      PROVE  ~(y < x)
  BY <1>3 DEF OpToRel
<1> QED
  BY <1>4

\* Induction over the bits of a word, for a set of numbers.
LEMMA BitInduction ==
  ASSUME NEW S, 0 \in S, \A n \in 0 .. w - 1 : n \in S => n + 1 \in S
  PROVE  w \in S
<1> DEFINE T == {n \in 0 .. w : n \notin S}
<1> SUFFICES ASSUME T # {}
             PROVE  FALSE
  BY ResponseAssumption
<1>1. PICK n \in T : \A k \in T : ~(k < n)
  <2>1. T \subseteq Nat
    BY ResponseAssumption
  <2> HIDE DEF T
  <2> QED
    BY <2>1, LeastNumber
<1>2. n # 0 /\ n \in 1 .. w
  BY ResponseAssumption
<1>3. n - 1 \in 0 .. w - 1 /\ n - 1 < n /\ (n - 1) + 1 = n /\ n - 1 \in 0 .. w
  BY <1>2, ResponseAssumption
<1>4. n - 1 \in S
  BY <1>1, <1>3
<1> QED
  BY <1>3, <1>4

\* An odd number has no part in a power of two.
LEMMA OddCancels ==
  ASSUME NEW q \in Int, q % 2 = 1, NEW x \in Nat, NEW k \in Int, q * x = k * W
  PROVE  \E j \in Nat : x = j * W
<1> DEFINE S == {n \in 0 .. w : /\ 2 ^ n \in Nat \ {0}
                                /\ \A y \in Nat, i \in Int : q * y = i * 2 ^ n =>
                                      \E j \in Nat : y = j * 2 ^ n}
<1>1. 0 \in S
  <2>1. \A y \in Nat : y = y * 1
    OBVIOUS
  <2> QED
    BY <2>1, PowerAssumption, ResponseAssumption
<1>2. ASSUME NEW n \in 0 .. w - 1, n \in S
      PROVE  n + 1 \in S
  <2> DEFINE u == 2 ^ n
  <2>1. 2 ^ (n + 1) = 2 * u
    BY PowerAssumption
  <2>2. u \in Nat \ {0} /\ \A y \in Nat, i \in Int : q * y = i * u => \E j \in Nat : y = j * u
    BY <1>2
  <2> HIDE DEF u
  <2>3. ASSUME NEW y \in Nat, NEW i \in Int, q * y = i * (2 * u)
        PROVE  \E j \in Nat : y = j * (2 * u)
    <3>1. PICK c \in Int : q = 2 * c + 1
      <4>1. q = 2 * (q \div 2) + 1 /\ q \div 2 \in Int
        OBVIOUS
      <4> QED
        BY <4>1
    <3>2. PICK h \in Nat : y = 2 * h
      <4>1. y = 2 * (y \div 2) + (y % 2) /\ y \div 2 \in Nat /\ y % 2 \in {0, 1}
        OBVIOUS
      <4> DEFINE h == y \div 2
      <4>2. CASE y % 2 = 1
        <5>1. y = 2 * h + 1 /\ h \in Nat
          BY <4>1, <4>2
        <5> HIDE DEF h
        <5>2. q * y = 2 * (2 * c * h + c + h) + 1 /\ i * (2 * u) = 2 * (i * u)
          BY <3>1, <5>1, <2>2, Z3
        <5>3. 2 * c * h + c + h \in Int /\ i * u \in Int
          BY <5>1, <2>2
        <5> DEFINE s == 2 * c * h + c + h
                   t == i * u
        <5>4. 2 * s + 1 = 2 * t /\ s \in Int /\ t \in Int
          BY <2>3, <5>2, <5>3
        <5> HIDE DEF s, t
        <5> QED
          BY <5>4
      <4> QED
        BY <4>1, <4>2
    <3>3. q * h = i * u
      <4>1. q * y = 2 * (q * h) /\ i * (2 * u) = 2 * (i * u)
        BY <3>2, <2>2, Z3
      <4> DEFINE s == q * h
                 t == i * u
      <4>2. s \in Int /\ t \in Int /\ 2 * s = 2 * t
        BY <2>2, <2>3, <4>1
      <4> HIDE DEF s, t
      <4>3. s = t
        BY <4>2
      <4> QED
        BY <4>3 DEF s, t
    <3>4. PICK j \in Nat : h = j * u
      BY <2>2, <3>3
    <3>5. y = j * (2 * u)
      BY <3>2, <3>4, <2>2, Z3
    <3> QED
      BY <3>5
  <2>4. n + 1 \in 0 .. w /\ 2 ^ (n + 1) \in Nat \ {0}
    BY <2>1, <2>2, ResponseAssumption
  <2> QED
    BY <2>1, <2>3, <2>4
<1>3. w \in S
  <2> HIDE DEF S
  <2> QED
    BY <1>1, <1>2, BitInduction
<1> QED
  BY <1>3 DEF W

\* A mask that four does not divide hides no element: four times the element
\* times the mask is zero modulo 2^w only if the element is.
LEMMA NothingHidden ==
  ASSUME NEW q \in Nat, q % 4 # 0, NEW x \in Nat, x < p, p \in Nat
  PROVE  (4 * q * x) % W = 0 <=> x = 0
<1>1. W \in Nat \ {0} /\ 8 * x < W
  BY ResponseAssumption, FieldAssumption
<1>2. ASSUME x = 0
      PROVE  (4 * q * x) % W = 0
  <2>1. 4 * q * x = 0
    BY <1>2
  <2>2. 0 = 0 * W + 0 /\ 0 \in 0 .. W - 1
    BY <1>1, Z3
  <2> QED
    BY <1>1, <2>1, <2>2, ModDigit
<1>3. ASSUME (4 * q * x) % W = 0
      PROVE  x = 0
  <2>1. 4 * q * x \in Int
    OBVIOUS
  <2>2. PICK k \in Int : 4 * q * x = k * W
    <3> DEFINE u == 4 * q * x
    <3>1. u \in Int /\ u \div W \in Int /\ u = (u \div W) * W + 0
      BY <1>1, <1>3, <2>1, ModSplit
    <3> HIDE DEF u
    <3>2. (u \div W) * W \in Int
      BY <1>1, <3>1
    <3>3. u = (u \div W) * W
      BY <3>1, <3>2
    <3> QED
      BY <3>1, <3>3 DEF u
  <2>3. \A y \in Nat, j \in Nat : y < W /\ y = j * W => y = 0
    <3> SUFFICES ASSUME NEW y \in Nat, NEW j \in Nat, y < W, y = j * W, j # 0
                 PROVE  FALSE
      BY <1>1
    <3>1. j * W >= W
      BY <1>1, Z3
    <3> QED
      BY <1>1, <3>1
  <2>4. CASE q % 2 = 1
    <3>1. q * (4 * x) = k * W
      <4>1. q * (4 * x) = 4 * q * x
        BY Z3
      <4> QED
        BY <2>2, <4>1
    <3>2. PICK j \in Nat : 4 * x = j * W
      BY <2>4, <3>1, OddCancels
    <3>3. 4 * x < W /\ 4 * x \in Nat
      BY <1>1
    <3>4. 4 * x = 0
      BY <2>3, <3>2, <3>3
    <3> QED
      BY <3>4
  <2>5. CASE q % 2 # 1
    <3>1. PICK c \in Nat : q = 2 * c /\ c % 2 = 1
      <4>1. q = 2 * (q \div 2) /\ q \div 2 \in Nat /\ (q \div 2) % 2 = 1
        BY <2>5
      <4> QED
        BY <4>1
    <3>2. c * (8 * x) = k * W
      <4>1. c * (8 * x) = 4 * q * x
        BY <3>1, Z3
      <4> QED
        BY <2>2, <4>1
    <3>3. PICK j \in Nat : 8 * x = j * W
      BY <3>1, <3>2, OddCancels
    <3>4. 8 * x = 0
      BY <1>1, <2>3, <3>3
    <3> QED
      BY <3>4
  <2> QED
    BY <2>4, <2>5
<1> QED
  BY <1>2, <1>3

\* The constants as numbers.
LEMMA WordFacts ==
  /\ W \in Nat \ {0} /\ p \in Nat \ {0} /\ p < W /\ N \in Nat \ {0} /\ Pub \in Nat \ {0}
  /\ \A k \in Int : k % W \in Word /\ k % p \in Field
  /\ \A k \in Word : k \in Int /\ k \in Nat
  /\ 0 \in Word /\ 0 \in Slot
<1>1. W \in Nat \ {0} /\ p \in Nat \ {0} /\ p < W /\ N \in Nat \ {0}
  BY ResponseAssumption
<1>2. Pub \in Nat \ {0}
  <2>1. 3 * W * W \in Nat
    BY <1>1
  <2> QED
    BY <2>1, ResponseAssumption
<1>3. \A k \in Int : k % W \in Word /\ k % p \in Field
  BY <1>1, ModSplit DEF Word, Field
<1> QED
  BY <1>1, <1>2, <1>3 DEF Word, Slot

\* No product of words reaches the Paillier modulus.
LEMMA NoCarry ==
  ASSUME NEW a0 \in Word, NEW b0 \in Word, NEW a1 \in Word, NEW b1 \in Word, NEW h \in Word
  PROVE  /\ a0 * b0 \in Nat /\ a0 * b1 \in Nat /\ b0 * a1 \in Nat /\ a1 * b1 \in Nat
         /\ a0 * b0 + (a0 * b1 + b0 * a1 + h) < Pub
         /\ a1 * b1 < Pub /\ h < Pub
<1>1. \A u, v2 \in Word : u * v2 \in Nat /\ u * v2 <= W * W - W
  <2> SUFFICES ASSUME NEW u \in Word, NEW v2 \in Word
               PROVE  u * v2 \in Nat /\ u * v2 <= W * W - W
    OBVIOUS
  <2>1. u \in Nat /\ v2 \in Nat /\ W \in Nat /\ u <= W - 1 /\ v2 <= W
    BY WordFacts DEF Word
  <2>2. u * v2 \in Nat /\ (W - 1) * W = W * W - W /\ u * v2 <= (W - 1) * W
    BY <2>1, Z3
  <2> QED
    BY <2>1, <2>2
<1>2. W \in Nat \ {0} /\ h \in 0 .. W - 1
  BY WordFacts DEF Word
<1> DEFINE sq == W * W
<1>3. 3 * W * W = 3 * sq /\ sq \in Nat /\ sq >= W
  BY <1>2, Z3
<1>4. 3 * sq < Pub
  BY <1>3, ResponseAssumption
<1> DEFINE c == a0 * b0
           d == a0 * b1
           e == b0 * a1
           f == a1 * b1
<1>5. /\ c \in Nat /\ d \in Nat /\ e \in Nat /\ f \in Nat
      /\ c <= sq - W /\ d <= sq - W /\ e <= sq - W /\ f <= sq - W
  BY <1>1
<1> HIDE DEF sq, c, d, e, f
<1>6. c + (d + e + h) < Pub /\ f < Pub /\ h < Pub
  BY <1>2, <1>3, <1>4, <1>5, WordFacts
<1> QED
  BY <1>5, <1>6 DEF c, d, e, f

\* The shares of c that BTGen leaves.
LEMMA TripleSum ==
  ASSUME NEW a0 \in Word, NEW b0 \in Word, NEW a1 \in Word, NEW b1 \in Word, NEW h \in Word
  PROVE  LET c0 == ((((a0 * b0) % Pub) + ((a0 * b1 + b0 * a1 + h) % Pub)) % Pub) % W
             c1 == ((((a1 * b1) % Pub) - h) % Pub) % W
         IN  (c0 + c1) % W =
               ((a0 + a1) * (b0 + b1) + IF a1 * b1 < h THEN Pub ELSE 0) % W
<1> DEFINE x == a0 * b0
           y1 == a0 * b1
           y2 == b0 * a1
           u == a1 * b1
<1>1. x \in Nat /\ y1 \in Nat /\ y2 \in Nat /\ u \in Nat
      /\ x + (y1 + y2 + h) < Pub /\ u < Pub /\ h < Pub
  BY NoCarry
<1>2. (a0 + a1) * (b0 + b1) = x + y1 + y2 + u
  <2>1. a0 \in Nat /\ a1 \in Nat /\ b0 \in Nat /\ b1 \in Nat
    BY WordFacts
  <2> QED
    BY <2>1, Z3
<1>3. h \in Nat /\ W \in Nat \ {0} /\ Pub \in Nat \ {0}
  BY WordFacts
<1> HIDE DEF x, y1, y2, u
<1> DEFINE t == x + (y1 + y2 + h)
           s == IF u < h THEN u - h + Pub ELSE u - h
<1>4. ((x % Pub) + ((y1 + y2 + h) % Pub)) % Pub = t
  <2>1. x \in 0 .. Pub - 1 /\ (y1 + y2 + h) \in 0 .. Pub - 1 /\ t \in 0 .. Pub - 1
    BY <1>1, <1>3
  <2>2. x % Pub = x /\ (y1 + y2 + h) % Pub = y1 + y2 + h /\ t % Pub = t
    BY <1>3, <2>1, ModSmall
  <2> QED
    BY <2>2
<1>5. ((u % Pub) - h) % Pub = s
  <2>1. u \in 0 .. Pub - 1
    BY <1>1, <1>3
  <2>2. u % Pub = u
    BY <1>3, <2>1, ModSmall
  <2>3. CASE u < h
    <3> DEFINE k == u - h + Pub
    <3>1. k \in 0 .. Pub - 1 /\ u - h = k - Pub
      BY <1>1, <1>3, <2>3
    <3> HIDE DEF k
    <3>2. (k - Pub) % Pub = k
      BY <1>3, <3>1, ModSmall
    <3> QED
      BY <2>2, <2>3, <3>1, <3>2 DEF k
  <2>4. CASE ~(u < h)
    <3>1. u - h \in 0 .. Pub - 1
      BY <1>1, <1>3, <2>4
    <3>2. (u - h) % Pub = u - h
      BY <1>3, <3>1, ModSmall
    <3> QED
      BY <2>2, <2>4, <3>2
  <2> QED
    BY <2>3, <2>4
<1>6. t \in Int /\ s \in Int
      /\ t + s = x + y1 + y2 + u + IF u < h THEN Pub ELSE 0
  BY <1>1, <1>3
<1> HIDE DEF t, s
<1>7. ((t % W) + (s % W)) % W = (t + s) % W
  BY <1>3, <1>6, ModSum
<1> QED
  BY <1>2, <1>4, <1>5, <1>6, <1>7 DEF x, y1, y2, u

\* Two shares of an element, added in the field.
LEMMA FieldSum ==
  ASSUME NEW e \in Field, NEW u \in Word, NEW v2 \in Word, (u + v2) % W = e
  PROVE  ((u % p) + (v2 % p)) % p = (e + IF u + v2 >= W THEN W ELSE 0) % p
<1>1. u \in Nat /\ v2 \in Nat /\ W \in Nat \ {0} /\ p \in Nat \ {0}
      /\ u <= W - 1 /\ v2 <= W - 1
  BY WordFacts DEF Word
<1>2. u + v2 = e + IF u + v2 >= W THEN W ELSE 0
  <2>1. CASE u + v2 < W
    <3>1. u + v2 \in 0 .. W - 1
      BY <1>1, <2>1
    <3>2. (u + v2) % W = u + v2
      BY <1>1, <3>1, ModSmall
    <3> QED
      BY <1>1, <2>1, <3>2
  <2>2. CASE u + v2 >= W
    <3> DEFINE k == u + v2 - W
    <3>1. k \in 0 .. W - 1 /\ u + v2 = 1 * W + k
      BY <1>1, <2>2
    <3> HIDE DEF k
    <3>2. (1 * W + k) % W = k
      BY <1>1, <3>1, ModDigit
    <3> QED
      BY <1>1, <2>2, <3>1, <3>2 DEF k
  <2> QED
    BY <1>1, <2>1, <2>2
<1>3. ((u % p) + (v2 % p)) % p = (u + v2) % p
  <2>1. u \in Int /\ v2 \in Int /\ p \in Nat \ {0}
    BY <1>1
  <2> QED
    BY <2>1, ModSum, Zenon
<1> DEFINE k == u + v2
<1>4. k = e + IF k >= W THEN W ELSE 0
  BY <1>2
<1>5. ((u % p) + (v2 % p)) % p = k % p
  BY <1>3
<1> HIDE DEF k
<1>6. ((u % p) + (v2 % p)) % p = (e + IF k >= W THEN W ELSE 0) % p
  BY <1>4, <1>5, Zenon
<1> QED
  BY <1>6 DEF k

-----------------------------------------------------------------------------
(* Pairs: what a variable holds for ALICE and for BOB. *)

Pair(x, y) == [s \in Party |-> IF s = ALICE THEN x ELSE y]

\* What a pair holds.
LEMMA PairAt ==
  ASSUME NEW x, NEW y, NEW f, f = Pair(x, y)
  PROVE  f[ALICE] = x /\ f[BOB] = y
BY DEF Pair, Party, ALICE, BOB

\* Pairs after an assignment to one or to both.
LEMMA PairSet ==
  ASSUME NEW x, NEW y, NEW x1, NEW y1, NEW f, f = Pair(x, y)
  PROVE  /\ [f EXCEPT ![ALICE] = x1] = Pair(x1, y)
         /\ [f EXCEPT ![BOB] = y1] = Pair(x, y1)
         /\ [f EXCEPT ![ALICE] = x1, ![BOB] = y1] = Pair(x1, y1)
         /\ [f EXCEPT ![BOB] = y1, ![ALICE] = x1] = Pair(x1, y1)
<1>0. BOB # ALICE
  BY DEF ALICE, BOB
<1>1. [f EXCEPT ![ALICE] = x1] = Pair(x1, y)
  BY <1>0 DEF Pair, Party
<1>2. [f EXCEPT ![BOB] = y1] = Pair(x, y1)
  BY <1>0 DEF Pair, Party
<1>3. [f EXCEPT ![ALICE] = x1, ![BOB] = y1] = Pair(x1, y1)
  BY <1>0 DEF Pair, Party
<1>4. [f EXCEPT ![BOB] = y1, ![ALICE] = x1] = Pair(x1, y1)
  BY <1>0 DEF Pair, Party
<1> QED
  BY <1>1, <1>2, <1>3, <1>4

\* The short queues of this protocol.
LEMMA Queues ==
  ASSUME NEW m, NEW n
  PROVE  /\ Head(<<m>>) = m /\ Head(<<m, n>>) = m /\ Tail(<<m>>) = <<>> /\ Tail(<<m, n>>) = <<n>>
         /\ <<>> \o <<m>> = <<m>> /\ <<>> \o <<m, n>> = <<m, n>> /\ <<>> \o <<>> = <<>>
         /\ <<n>> \o <<>> = <<n>>
         /\ Append(<<>>, m) = <<m>> /\ SubSeq(<<m, n>>, 3, Len(<<m, n>>)) = <<>>
         /\ <<m, n>>[1] = m /\ <<m, n>>[2] = n /\ <<m>> # <<>> /\ <<m, n>> # <<>>
<1>1. Head(<<m>>) = m /\ Head(<<m, n>>) = m
  OBVIOUS
<1>2. Tail(<<m>>) = <<>>
  OBVIOUS
<1>3. Tail(<<m, n>>) = <<n>>
  OBVIOUS
<1>4. <<>> \o <<m>> = <<m>>
  OBVIOUS
<1>5. <<>> \o <<m, n>> = <<m, n>>
  OBVIOUS
<1>6. <<>> \o <<>> = <<>>
  OBVIOUS
<1>7. <<n>> \o <<>> = <<n>>
  OBVIOUS
<1>8. Append(<<>>, m) = <<m>>
  OBVIOUS
<1>9. SubSeq(<<m, n>>, 3, Len(<<m, n>>)) = <<>>
  OBVIOUS
<1>10. <<m, n>>[1] = m /\ <<m, n>>[2] = n
  OBVIOUS
<1>11. <<m>> # <<>> /\ <<m, n>> # <<>>
  OBVIOUS
<1> QED
  BY <1>1, <1>2, <1>3, <1>4, <1>5, <1>6, <1>7, <1>8, <1>9, <1>10, <1>11

\* What the steps of a server do to its place and to the connection.
LEMMA Steps ==
  ASSUME NEW pa, NEW pb, NEW l, pc = Pair(pa, pb)
  PROVE  /\ Step(ALICE, l) => pc' = Pair(l, pb)
         /\ Step(BOB, l) => pc' = Pair(pa, l)
<1>1. [pc EXCEPT ![ALICE] = l] = Pair(l, pb) /\ [pc EXCEPT ![BOB] = l] = Pair(pa, l)
  BY PairSet
<1>2. Step(ALICE, l) => pc' = Pair(l, pb)
  BY <1>1 DEF Step
<1>3. Step(BOB, l) => pc' = Pair(pa, l)
  BY <1>1 DEF Step
<1> QED
  BY <1>2, <1>3

\* What sending and receiving do to the connection.
LEMMA Moves ==
  ASSUME NEW ma, NEW mb, NEW ms, chan = Pair(ma, mb)
  PROVE  /\ Send(ALICE, ms) => chan' = Pair(ma, mb \o ms)
         /\ Receive(ALICE, ms) => chan' = Pair(Tail(ma), mb \o ms)
         /\ Receive(BOB, ms) => chan' = Pair(ma \o ms, Tail(mb))
<1>1. chan[ALICE] = ma /\ chan[BOB] = mb
  BY PairAt
<1>2. Peer(ALICE) = BOB /\ Peer(BOB) = ALICE
  BY DEF Peer, ALICE, BOB
<1>3. \A x, y : /\ [chan EXCEPT ![BOB] = y] = Pair(ma, y)
               /\ [chan EXCEPT ![ALICE] = x, ![BOB] = y] = Pair(x, y)
               /\ [chan EXCEPT ![BOB] = y, ![ALICE] = x] = Pair(x, y)
  <2> TAKE x, y
  <2>1. [chan EXCEPT ![BOB] = y] = Pair(ma, y)
    BY PairSet
  <2>2. [chan EXCEPT ![ALICE] = x, ![BOB] = y] = Pair(x, y)
    BY PairSet
  <2>3. [chan EXCEPT ![BOB] = y, ![ALICE] = x] = Pair(x, y)
    BY PairSet
  <2> QED
    BY <2>1, <2>2, <2>3
<1>4. Send(ALICE, ms) => chan' = Pair(ma, mb \o ms)
  <2> DEFINE y == mb \o ms
  <2>1. Send(ALICE, ms) => chan' = [chan EXCEPT ![BOB] = y]
    BY <1>1, <1>2 DEF Send
  <2> HIDE DEF y
  <2>2. Send(ALICE, ms) => chan' = Pair(ma, y)
    BY <1>3, <2>1
  <2> QED
    BY <2>2 DEF y
<1>5. Receive(ALICE, ms) => chan' = Pair(Tail(ma), mb \o ms)
  <2> DEFINE x == Tail(ma)
             y == mb \o ms
  <2>1. Receive(ALICE, ms) => chan' = [chan EXCEPT ![ALICE] = x, ![BOB] = y]
    BY <1>1, <1>2 DEF Receive, ALICE, BOB
  <2> HIDE DEF x, y
  <2>2. Receive(ALICE, ms) => chan' = Pair(x, y)
    BY <1>3, <2>1
  <2> QED
    BY <2>2 DEF x, y
<1>6. Receive(BOB, ms) => chan' = Pair(ma \o ms, Tail(mb))
  <2> DEFINE x == ma \o ms
             y == Tail(mb)
  <2>1. Receive(BOB, ms) => chan' = [chan EXCEPT ![BOB] = y, ![ALICE] = x]
    BY <1>1, <1>2 DEF Receive, ALICE, BOB
  <2> HIDE DEF x, y
  <2>2. Receive(BOB, ms) => chan' = Pair(x, y)
    BY <1>3, <2>1
  <2> QED
    BY <2>2 DEF x, y
<1> QED
  BY <1>4, <1>5, <1>6

-----------------------------------------------------------------------------
(* The stages of a run. *)

\* ALICE is at pa and BOB at pb, with ma on its way to ALICE and mb to BOB.
Place(pa, pb, ma, mb) == pc = Pair(pa, pb) /\ chan = Pair(ma, mb)

Keys == [kind |-> "keys", a |-> fa[ALICE], b |-> fb[ALICE]]
Cross == [kind |-> "cross", c |-> CrossTerms(Keys, r)]
Clear == [kind |-> "clear"]
Byte == [kind |-> "barrier"]
Sum(s) == [kind |-> "sum", z |-> z[s]]
Product(s) == [kind |-> "product", x |-> xr[s]]
Reply == [kind |-> "response", count |-> Len(shares[ALICE]), body |-> shares[ALICE]]
Vector == [kind |-> "vector", v |-> v[ALICE]]
Summary == [kind |-> "summary", said |-> verdict[BOB]]

AtStart == Place("keys", "keys", <<>>, <<>>)
KeysSent == Place("cross", "keys", <<>>, <<Keys>>)
CrossSent == /\ Place("cross", "clear", <<Cross>>, <<>>)
             /\ fc[BOB] = ((((fa[BOB] * fb[BOB]) % Pub) - r) % Pub) % W
ClearSent == Place("barrier", "clear", <<>>, <<Clear, Byte>>)
ByteSent == Place("barrier", "barrier", <<>>, <<Byte>>)
ByteBack == Place("barrier", "opened", <<Byte>>, <<>>)
Open == Place("open", "opened", <<>>, <<>>)
OpenSent == Place("opened", "opened", <<>>, <<Difference(ALICE)>>)
OpenBack == Place("opened", "summed", <<Difference(BOB)>>, <<>>)
SumSent == Place("summed", "summed", <<>>, <<Sum(ALICE)>>)
SumBack == Place("summed", "multiplied", <<Sum(BOB)>>, <<>>)
ProductSent == Place("multiplied", "multiplied", <<>>, <<Product(ALICE)>>)
Responding == Place("respond", "respond", <<>>, <<>>)
ResponseSent == Place("verdict", "respond", <<>>, <<Reply, Vector>>)
SummarySent == Place("verdict", "done", <<Summary>>, <<>>)
Over == Place("done", "done", <<>>, <<>>)

\* The servers have treated the same elements and kept the same slots.
Same == slot[ALICE] = slot[BOB] /\ sig[ALICE] = sig[BOB]

\* BOB has treated the element that ALICE has not.
ProductBack ==
  /\ Place("multiplied", IF Last(ALICE) THEN "respond" ELSE "opened", <<Product(BOB)>>, <<>>)
  /\ slot[BOB] = IF Last(ALICE) THEN slot[ALICE] ELSE slot[ALICE] + 1
  /\ sig[BOB] = IF (xr[BOB] + xr[ALICE]) % W = 0 THEN sig[ALICE]
                ELSE Append(sig[ALICE], slot[ALICE])

Stages ==
  \/ ProductBack
  \/ /\ Same
     /\ \/ AtStart \/ KeysSent \/ CrossSent \/ ClearSent \/ ByteSent \/ ByteBack
        \/ Open \/ OpenSent \/ OpenBack \/ SumSent \/ SumBack \/ ProductSent
        \/ Responding \/ ResponseSent \/ SummarySent \/ Over

\* The shares of an element make the element.
SharesOfValue == \A i \in Slot : (v[ALICE][i] + v[BOB][i]) % W = value[i]

\* What was kept of a kept slot is the share of its element, in the field.
KeptInv ==
  \A s \in Party : /\ Len(shares[s]) = Len(sig[s])
                   /\ \A j \in 1 .. Len(sig[s]) : shares[s][j] = v[s][sig[s][j]] % p

RecoveredInv ==
  pc[BOB] = "done" =>
    /\ Len(recovered) = Len(sig[BOB])
    /\ \A j \in 1 .. Len(recovered) :
          recovered[j] = ((v[ALICE][sig[BOB][j]] % p) + (v[BOB][sig[BOB][j]] % p)) % p

\* What is added while an element is multiplied: the differences of the element
\* and of twice the mask to the triple, and the server's summand of the product.
Differences(s) ==
  /\ D[s] = (value[slot[s]] - (fa[ALICE] + fa[BOB])) % W
  /\ E[s] = (2 * ran - (fb[ALICE] + fb[BOB])) % W
  /\ z[s] = (D[s] * fb[s] + fa[s] * E[s] + fc[s]) % W

DifferencesInv == \A s \in Party : pc[s] \in {"summed", "multiplied"} => Differences(s)

\* With a sound triple both servers have the element times twice the mask.
ProductInv ==
  \A s \in Party : pc[s] = "multiplied" /\ ~Borrowed =>
                       xr[s] = (value[slot[s]] * (2 * ran)) % W

\* The slots that BOB keeps of those he has treated.
Treated == {i \in Slot : i < slot[BOB] \/ pc[BOB] \in {"respond", "done"}}
Shown(i) == (4 * ran * value[i]) % W # 0
SlotsInv == pc[BOB] = "keys" \/ ~Borrowed => InOrder(sig[BOB], {i \in Treated : Shown(i)})

\* What BOB says of the kept slots, and that ALICE says the same.
VerdictInv ==
  /\ pc[BOB] = "done" =>
        verdict[BOB].indices = InOrder(sig[BOB], {i \in Slot : value[i] # 0})
  /\ pc[ALICE] = "done" => pc[BOB] = "done" /\ verdict[ALICE] = verdict[BOB]

Inv ==
  /\ TypeOK
  /\ SharesOfValue
  /\ KeptInv
  /\ RecoveredInv
  /\ TripleUpToBorrow
  /\ DifferencesInv
  /\ ProductInv
  /\ SlotsInv
  /\ VerdictInv
  /\ Stages

-----------------------------------------------------------------------------
(* A server that has something to do knows the stage of the run. *)

\* A place in terms of the variables.
LEMMA PlaceAt ==
  ASSUME NEW pa, NEW pb, NEW ma, NEW mb, Place(pa, pb, ma, mb)
  PROVE  pc[ALICE] = pa /\ pc[BOB] = pb /\ chan[ALICE] = ma /\ chan[BOB] = mb
BY PairAt DEF Place

\* A queue with a message is not empty.
LEMMA NonEmpty ==
  ASSUME NEW m
  PROVE  <<m>> # <<>> /\ \A n : <<m, n>> # <<>>
OBVIOUS

\* Where the servers are in each stage, and who has a message to read.
LEMMA StagePlaces ==
  /\ AtStart => pc[ALICE] = "keys" /\ pc[BOB] = "keys" /\ chan[ALICE] = <<>> /\ chan[BOB] = <<>>
  /\ KeysSent => pc[ALICE] = "cross" /\ pc[BOB] = "keys" /\ chan[ALICE] = <<>> /\ chan[BOB] # <<>>
  /\ CrossSent => pc[ALICE] = "cross" /\ pc[BOB] = "clear" /\ chan[ALICE] # <<>> /\ chan[BOB] = <<>>
  /\ ClearSent => pc[ALICE] = "barrier" /\ pc[BOB] = "clear" /\ chan[ALICE] = <<>> /\ chan[BOB] # <<>>
  /\ ByteSent => pc[ALICE] = "barrier" /\ pc[BOB] = "barrier" /\ chan[ALICE] = <<>> /\ chan[BOB] # <<>>
  /\ ByteBack => pc[ALICE] = "barrier" /\ pc[BOB] = "opened" /\ chan[ALICE] # <<>> /\ chan[BOB] = <<>>
  /\ Open => pc[ALICE] = "open" /\ pc[BOB] = "opened" /\ chan[ALICE] = <<>> /\ chan[BOB] = <<>>
  /\ OpenSent => pc[ALICE] = "opened" /\ pc[BOB] = "opened" /\ chan[ALICE] = <<>> /\ chan[BOB] # <<>>
  /\ OpenBack => pc[ALICE] = "opened" /\ pc[BOB] = "summed" /\ chan[ALICE] # <<>> /\ chan[BOB] = <<>>
  /\ SumSent => pc[ALICE] = "summed" /\ pc[BOB] = "summed" /\ chan[ALICE] = <<>> /\ chan[BOB] # <<>>
  /\ SumBack => pc[ALICE] = "summed" /\ pc[BOB] = "multiplied" /\ chan[ALICE] # <<>> /\ chan[BOB] = <<>>
  /\ ProductSent => pc[ALICE] = "multiplied" /\ pc[BOB] = "multiplied"
                 /\ chan[ALICE] = <<>> /\ chan[BOB] # <<>>
  /\ Responding => pc[ALICE] = "respond" /\ pc[BOB] = "respond" /\ chan[ALICE] = <<>> /\ chan[BOB] = <<>>
  /\ ResponseSent => pc[ALICE] = "verdict" /\ pc[BOB] = "respond" /\ chan[ALICE] = <<>> /\ chan[BOB] # <<>>
  /\ SummarySent => pc[ALICE] = "verdict" /\ pc[BOB] = "done" /\ chan[ALICE] # <<>> /\ chan[BOB] = <<>>
  /\ Over => pc[ALICE] = "done" /\ pc[BOB] = "done" /\ chan[ALICE] = <<>> /\ chan[BOB] = <<>>
  /\ ProductBack => pc[ALICE] = "multiplied" /\ pc[BOB] \in {"respond", "opened"}
                     /\ chan[ALICE] # <<>> /\ chan[BOB] = <<>>
<1>1. AtStart => pc[ALICE] = "keys" /\ pc[BOB] = "keys" /\ chan[ALICE] = <<>> /\ chan[BOB] = <<>>
  BY PlaceAt, NonEmpty DEF AtStart
<1>2. KeysSent => pc[ALICE] = "cross" /\ pc[BOB] = "keys" /\ chan[ALICE] = <<>> /\ chan[BOB] # <<>>
  <2>1. KeysSent => Place("cross", "keys", <<>>, <<Keys>>)
    BY DEF KeysSent
  <2>2. KeysSent => pc[ALICE] = "cross" /\ pc[BOB] = "keys" /\ chan[ALICE] = <<>> /\ chan[BOB] = <<Keys>>
    BY <2>1, PlaceAt, Zenon
  <2> QED
    BY <2>2, NonEmpty, Zenon
<1>3. CrossSent => pc[ALICE] = "cross" /\ pc[BOB] = "clear" /\ chan[ALICE] # <<>> /\ chan[BOB] = <<>>
  <2>1. CrossSent => Place("cross", "clear", <<Cross>>, <<>>)
    BY DEF CrossSent
  <2>2. CrossSent => pc[ALICE] = "cross" /\ pc[BOB] = "clear" /\ chan[ALICE] = <<Cross>> /\ chan[BOB] = <<>>
    BY <2>1, PlaceAt, Zenon
  <2> QED
    BY <2>2, NonEmpty, Zenon
<1>4. ClearSent => pc[ALICE] = "barrier" /\ pc[BOB] = "clear" /\ chan[ALICE] = <<>> /\ chan[BOB] # <<>>
  <2>1. ClearSent => Place("barrier", "clear", <<>>, <<Clear, Byte>>)
    BY DEF ClearSent
  <2>2. ClearSent => pc[ALICE] = "barrier" /\ pc[BOB] = "clear"
                  /\ chan[ALICE] = <<>> /\ chan[BOB] = <<Clear, Byte>>
    BY <2>1, PlaceAt, Zenon
  <2> QED
    BY <2>2, NonEmpty, Zenon
<1>5. ByteSent => pc[ALICE] = "barrier" /\ pc[BOB] = "barrier" /\ chan[ALICE] = <<>> /\ chan[BOB] # <<>>
  <2>1. ByteSent => Place("barrier", "barrier", <<>>, <<Byte>>)
    BY DEF ByteSent
  <2>2. ByteSent => pc[ALICE] = "barrier" /\ pc[BOB] = "barrier" /\ chan[ALICE] = <<>> /\ chan[BOB] = <<Byte>>
    BY <2>1, PlaceAt, Zenon
  <2> QED
    BY <2>2, NonEmpty, Zenon
<1>6. ByteBack => pc[ALICE] = "barrier" /\ pc[BOB] = "opened" /\ chan[ALICE] # <<>> /\ chan[BOB] = <<>>
  <2>1. ByteBack => Place("barrier", "opened", <<Byte>>, <<>>)
    BY DEF ByteBack
  <2>2. ByteBack => pc[ALICE] = "barrier" /\ pc[BOB] = "opened" /\ chan[ALICE] = <<Byte>> /\ chan[BOB] = <<>>
    BY <2>1, PlaceAt, Zenon
  <2> QED
    BY <2>2, NonEmpty, Zenon
<1>7. Open => pc[ALICE] = "open" /\ pc[BOB] = "opened" /\ chan[ALICE] = <<>> /\ chan[BOB] = <<>>
  BY PlaceAt, NonEmpty DEF Open
<1>8. OpenSent => pc[ALICE] = "opened" /\ pc[BOB] = "opened" /\ chan[ALICE] = <<>> /\ chan[BOB] # <<>>
  <2>1. OpenSent => Place("opened", "opened", <<>>, <<Difference(ALICE)>>)
    BY DEF OpenSent
  <2>2. OpenSent => pc[ALICE] = "opened" /\ pc[BOB] = "opened"
                 /\ chan[ALICE] = <<>> /\ chan[BOB] = <<Difference(ALICE)>>
    BY <2>1, PlaceAt, Zenon
  <2> QED
    BY <2>2, NonEmpty, Zenon
<1>9. OpenBack => pc[ALICE] = "opened" /\ pc[BOB] = "summed" /\ chan[ALICE] # <<>> /\ chan[BOB] = <<>>
  <2>1. OpenBack => Place("opened", "summed", <<Difference(BOB)>>, <<>>)
    BY DEF OpenBack
  <2>2. OpenBack => pc[ALICE] = "opened" /\ pc[BOB] = "summed"
                 /\ chan[ALICE] = <<Difference(BOB)>> /\ chan[BOB] = <<>>
    BY <2>1, PlaceAt, Zenon
  <2> QED
    BY <2>2, NonEmpty, Zenon
<1>10. SumSent => pc[ALICE] = "summed" /\ pc[BOB] = "summed" /\ chan[ALICE] = <<>> /\ chan[BOB] # <<>>
  <2>1. SumSent => Place("summed", "summed", <<>>, <<Sum(ALICE)>>)
    BY DEF SumSent
  <2>2. SumSent => pc[ALICE] = "summed" /\ pc[BOB] = "summed"
                /\ chan[ALICE] = <<>> /\ chan[BOB] = <<Sum(ALICE)>>
    BY <2>1, PlaceAt, Zenon
  <2> QED
    BY <2>2, NonEmpty, Zenon
<1>11. SumBack => pc[ALICE] = "summed" /\ pc[BOB] = "multiplied" /\ chan[ALICE] # <<>> /\ chan[BOB] = <<>>
  <2>1. SumBack => Place("summed", "multiplied", <<Sum(BOB)>>, <<>>)
    BY DEF SumBack
  <2>2. SumBack => pc[ALICE] = "summed" /\ pc[BOB] = "multiplied"
                /\ chan[ALICE] = <<Sum(BOB)>> /\ chan[BOB] = <<>>
    BY <2>1, PlaceAt, Zenon
  <2> QED
    BY <2>2, NonEmpty, Zenon
<1>12. ProductSent => pc[ALICE] = "multiplied" /\ pc[BOB] = "multiplied"
                   /\ chan[ALICE] = <<>> /\ chan[BOB] # <<>>
  <2>1. ProductSent => Place("multiplied", "multiplied", <<>>, <<Product(ALICE)>>)
    BY DEF ProductSent
  <2>2. ProductSent => pc[ALICE] = "multiplied" /\ pc[BOB] = "multiplied"
                    /\ chan[ALICE] = <<>> /\ chan[BOB] = <<Product(ALICE)>>
    BY <2>1, PlaceAt, Zenon
  <2> QED
    BY <2>2, NonEmpty, Zenon
<1>13. Responding => pc[ALICE] = "respond" /\ pc[BOB] = "respond" /\ chan[ALICE] = <<>> /\ chan[BOB] = <<>>
  BY PlaceAt, NonEmpty DEF Responding
<1>14. ResponseSent => pc[ALICE] = "verdict" /\ pc[BOB] = "respond" /\ chan[ALICE] = <<>> /\ chan[BOB] # <<>>
  <2>1. ResponseSent => Place("verdict", "respond", <<>>, <<Reply, Vector>>)
    BY DEF ResponseSent
  <2>2. ResponseSent => pc[ALICE] = "verdict" /\ pc[BOB] = "respond"
                     /\ chan[ALICE] = <<>> /\ chan[BOB] = <<Reply, Vector>>
    BY <2>1, PlaceAt, Zenon
  <2> QED
    BY <2>2, NonEmpty, Zenon
<1>15. SummarySent => pc[ALICE] = "verdict" /\ pc[BOB] = "done" /\ chan[ALICE] # <<>> /\ chan[BOB] = <<>>
  <2>1. SummarySent => Place("verdict", "done", <<Summary>>, <<>>)
    BY DEF SummarySent
  <2>2. SummarySent => pc[ALICE] = "verdict" /\ pc[BOB] = "done"
                    /\ chan[ALICE] = <<Summary>> /\ chan[BOB] = <<>>
    BY <2>1, PlaceAt, Zenon
  <2> QED
    BY <2>2, NonEmpty, Zenon
<1>16. Over => pc[ALICE] = "done" /\ pc[BOB] = "done" /\ chan[ALICE] = <<>> /\ chan[BOB] = <<>>
  BY PlaceAt, NonEmpty DEF Over
<1>17. ProductBack => pc[ALICE] = "multiplied" /\ pc[BOB] \in {"respond", "opened"}
                      /\ chan[ALICE] # <<>> /\ chan[BOB] = <<>>
  <2>1. ProductBack => \E l \in {"respond", "opened"} : Place("multiplied", l, <<Product(BOB)>>, <<>>)
    BY DEF ProductBack
  <2> QED
    BY <2>1, PlaceAt, NonEmpty
<1> QED
  BY <1>1, <1>2, <1>3, <1>4, <1>5, <1>6, <1>7, <1>8, <1>9, <1>10, <1>11, <1>12, <1>13, <1>14,
     <1>15, <1>16, <1>17

\* The stage in which each action is taken.
LEMMA StageOf ==
  ASSUME Stages
  PROVE  /\ pc[ALICE] = "keys" => AtStart /\ Same
         /\ Awaits(BOB, "keys", "keys") => KeysSent /\ Same
         /\ Awaits(ALICE, "cross", "cross") => CrossSent /\ Same
         /\ Awaits(BOB, "clear", "clear") => ClearSent /\ Same
         /\ Awaits(BOB, "barrier", "barrier") => ByteSent /\ Same
         /\ Awaits(ALICE, "barrier", "barrier") => ByteBack /\ Same
         /\ pc[ALICE] = "open" => Open /\ Same
         /\ Awaits(BOB, "opened", "open") => OpenSent /\ Same
         /\ Awaits(ALICE, "opened", "open") => OpenBack /\ Same
         /\ Awaits(BOB, "summed", "sum") => SumSent /\ Same
         /\ Awaits(ALICE, "summed", "sum") => SumBack /\ Same
         /\ Awaits(BOB, "multiplied", "product") => ProductSent /\ Same
         /\ pc[ALICE] = "respond" => Responding /\ Same
         /\ Awaits(BOB, "respond", "response") => ResponseSent /\ Same
         /\ Awaits(ALICE, "verdict", "summary") => SummarySent /\ Same
         /\ Done => Over /\ Same
         /\ Awaits(ALICE, "multiplied", "product") => ProductBack
<1>1. ASSUME NEW s, NEW l, NEW k, Awaits(s, l, k)
      PROVE  pc[s] = l /\ chan[s] # <<>>
  BY <1>1 DEF Awaits
<1>2. Done => pc[ALICE] = "done" /\ pc[BOB] = "done"
  BY DEF Done, Party
<1>3. pc[ALICE] = "keys" => AtStart /\ Same
  BY <1>2, StagePlaces DEF Stages
<1>4. Awaits(BOB, "keys", "keys") => KeysSent /\ Same
  <2>1. Awaits(BOB, "keys", "keys") => pc[BOB] = "keys" /\ chan[BOB] # <<>>
    BY <1>1, Zenon
  <2> QED
    BY <2>1, StagePlaces DEF Stages
<1>5. Awaits(ALICE, "cross", "cross") => CrossSent /\ Same
  <2>1. Awaits(ALICE, "cross", "cross") => pc[ALICE] = "cross" /\ chan[ALICE] # <<>>
    BY <1>1, Zenon
  <2> QED
    BY <2>1, StagePlaces DEF Stages
<1>6. Awaits(BOB, "clear", "clear") => ClearSent /\ Same
  <2>1. Awaits(BOB, "clear", "clear") => pc[BOB] = "clear" /\ chan[BOB] # <<>>
    BY <1>1, Zenon
  <2> QED
    BY <2>1, StagePlaces DEF Stages
<1>7. Awaits(BOB, "barrier", "barrier") => ByteSent /\ Same
  <2>1. Awaits(BOB, "barrier", "barrier") => pc[BOB] = "barrier" /\ chan[BOB] # <<>>
    BY <1>1, Zenon
  <2> QED
    BY <2>1, StagePlaces DEF Stages
<1>8. Awaits(ALICE, "barrier", "barrier") => ByteBack /\ Same
  <2>1. Awaits(ALICE, "barrier", "barrier") => pc[ALICE] = "barrier" /\ chan[ALICE] # <<>>
    BY <1>1, Zenon
  <2> QED
    BY <2>1, StagePlaces DEF Stages
<1>9. pc[ALICE] = "open" => Open /\ Same
  BY <1>2, StagePlaces DEF Stages
<1>10. Awaits(BOB, "opened", "open") => OpenSent /\ Same
  <2>1. Awaits(BOB, "opened", "open") => pc[BOB] = "opened" /\ chan[BOB] # <<>>
    BY <1>1, Zenon
  <2> QED
    BY <2>1, StagePlaces DEF Stages
<1>11. Awaits(ALICE, "opened", "open") => OpenBack /\ Same
  <2>1. Awaits(ALICE, "opened", "open") => pc[ALICE] = "opened" /\ chan[ALICE] # <<>>
    BY <1>1, Zenon
  <2> QED
    BY <2>1, StagePlaces DEF Stages
<1>12. Awaits(BOB, "summed", "sum") => SumSent /\ Same
  <2>1. Awaits(BOB, "summed", "sum") => pc[BOB] = "summed" /\ chan[BOB] # <<>>
    BY <1>1, Zenon
  <2> QED
    BY <2>1, StagePlaces DEF Stages
<1>13. Awaits(ALICE, "summed", "sum") => SumBack /\ Same
  <2>1. Awaits(ALICE, "summed", "sum") => pc[ALICE] = "summed" /\ chan[ALICE] # <<>>
    BY <1>1, Zenon
  <2> QED
    BY <2>1, StagePlaces DEF Stages
<1>14. Awaits(BOB, "multiplied", "product") => ProductSent /\ Same
  <2>1. Awaits(BOB, "multiplied", "product") => pc[BOB] = "multiplied" /\ chan[BOB] # <<>>
    BY <1>1, Zenon
  <2> QED
    BY <2>1, StagePlaces DEF Stages
<1>15. pc[ALICE] = "respond" => Responding /\ Same
  BY <1>2, StagePlaces DEF Stages
<1>16. Awaits(BOB, "respond", "response") => ResponseSent /\ Same
  <2>1. Awaits(BOB, "respond", "response") => pc[BOB] = "respond" /\ chan[BOB] # <<>>
    BY <1>1, Zenon
  <2> QED
    BY <2>1, StagePlaces DEF Stages
<1>17. Awaits(ALICE, "verdict", "summary") => SummarySent /\ Same
  <2>1. Awaits(ALICE, "verdict", "summary") => pc[ALICE] = "verdict" /\ chan[ALICE] # <<>>
    BY <1>1, Zenon
  <2> QED
    BY <2>1, StagePlaces DEF Stages
<1>18. Done => Over /\ Same
  BY <1>2, StagePlaces DEF Stages
<1>19. Awaits(ALICE, "multiplied", "product") => ProductBack
  <2>1. Awaits(ALICE, "multiplied", "product") => pc[ALICE] = "multiplied" /\ chan[ALICE] # <<>>
    BY <1>1, Zenon
  <2> QED
    BY <2>1, StagePlaces DEF Stages
<1> QED
  BY <1>3, <1>4, <1>5, <1>6, <1>7, <1>8, <1>9, <1>10, <1>11, <1>12, <1>13, <1>14, <1>15, <1>16,
     <1>17, <1>18, <1>19, Zenon

-----------------------------------------------------------------------------
(* The steps from stage to stage. *)

\* ALICE sends on an idle connection.
LEMMA AliceSends ==
  ASSUME NEW pa, NEW pb, NEW l, NEW ms, ms = <<>> \/ (\E n : ms = <<n>>) \/ (\E n, k : ms = <<n, k>>),
         Place(pa, pb, <<>>, <<>>), Step(ALICE, l), Send(ALICE, ms)
  PROVE  pc' = Pair(l, pb) /\ chan' = Pair(<<>>, ms)
<1>1. <<>> \o ms = ms
  BY Queues
<1>2. pc' = Pair(l, pb) /\ chan' = Pair(<<>>, <<>> \o ms)
  <2>1. pc = Pair(pa, pb) /\ chan = Pair(<<>>, <<>>)
    BY DEF Place
  <2>2. pc' = Pair(l, pb)
    BY <2>1, Steps, Zenon
  <2>3. chan' = Pair(<<>>, <<>> \o ms)
    BY <2>1, Moves, Zenon
  <2> QED
    BY <2>2, <2>3
<1> QED
  BY <1>1, <1>2, Zenon

\* ALICE reads the only message there is and sends ms.
LEMMA AliceReads ==
  ASSUME NEW pa, NEW pb, NEW l, NEW m, NEW ms,
         Place(pa, pb, <<m>>, <<>>), Step(ALICE, l), Receive(ALICE, ms), <<>> \o ms = ms
  PROVE  pc' = Pair(l, pb) /\ chan' = Pair(<<>>, ms)
<1>1. Tail(<<m>>) = <<>>
  BY Queues
<1>2. pc' = Pair(l, pb) /\ chan' = Pair(Tail(<<m>>), <<>> \o ms)
  <2>1. pc = Pair(pa, pb) /\ chan = Pair(<<m>>, <<>>)
    BY DEF Place
  <2>2. pc' = Pair(l, pb)
    BY <2>1, Steps, Zenon
  <2>3. chan' = Pair(Tail(<<m>>), <<>> \o ms)
    BY <2>1, Moves, Zenon
  <2> QED
    BY <2>2, <2>3
<1> QED
  BY <1>1, <1>2, Zenon

\* BOB reads the only message there is and answers.
LEMMA BobAnswers ==
  ASSUME NEW pa, NEW pb, NEW l, NEW m, NEW n,
         Place(pa, pb, <<>>, <<m>>), Step(BOB, l), Receive(BOB, <<n>>)
  PROVE  pc' = Pair(pa, l) /\ chan' = Pair(<<n>>, <<>>)
<1>1. <<>> \o <<n>> = <<n>>
  BY Queues
<1>2. Tail(<<m>>) = <<>>
  BY Queues
<1>3. pc' = Pair(pa, l) /\ chan' = Pair(<<>> \o <<n>>, Tail(<<m>>))
  <2>1. pc = Pair(pa, pb) /\ chan = Pair(<<>>, <<m>>)
    BY DEF Place
  <2>2. pc' = Pair(pa, l)
    BY <2>1, Steps, Zenon
  <2>3. chan' = Pair(<<>> \o <<n>>, Tail(<<m>>))
    BY <2>1, Moves, Zenon
  <2> QED
    BY <2>2, <2>3
<1> QED
  BY <1>1, <1>2, <1>3, Zenon

\* BOB reads the first of two messages.
LEMMA BobReads ==
  ASSUME NEW pa, NEW pb, NEW l, NEW m, NEW n,
         Place(pa, pb, <<>>, <<m, n>>), Step(BOB, l), Receive(BOB, <<>>)
  PROVE  pc' = Pair(pa, l) /\ chan' = Pair(<<>>, <<n>>)
<1>1. <<>> \o <<>> = <<>>
  BY Queues
<1>2. Tail(<<m, n>>) = <<n>>
  BY Queues
<1>3. pc' = Pair(pa, l) /\ chan' = Pair(<<>> \o <<>>, Tail(<<m, n>>))
  <2>1. pc = Pair(pa, pb) /\ chan = Pair(<<>>, <<m, n>>)
    BY DEF Place
  <2>2. pc' = Pair(pa, l)
    BY <2>1, Steps, Zenon
  <2>3. chan' = Pair(<<>> \o <<>>, Tail(<<m, n>>))
    BY <2>1, Moves, Zenon
  <2> QED
    BY <2>2, <2>3
<1> QED
  BY <1>1, <1>2, <1>3, Zenon

\* The message that is next.
LEMMA Heads ==
  ASSUME NEW pa, NEW pb, NEW m
  PROVE  /\ Place(pa, pb, <<m>>, <<>>) => Head(chan[ALICE]) = m
         /\ Place(pa, pb, <<>>, <<m>>) => Head(chan[BOB]) = m
<1>1. Head(<<m>>) = m
  BY Queues, Zenon
<1>2. Place(pa, pb, <<m>>, <<>>) => chan[ALICE] = <<m>>
  BY PlaceAt, Zenon
<1>3. Place(pa, pb, <<>>, <<m>>) => chan[BOB] = <<m>>
  BY PlaceAt, Zenon
<1> QED
  BY <1>1, <1>2, <1>3, Zenon

\* ALICE's encrypted shares are on their way.
LEMMA SendKeysStage ==
  ASSUME Stages, SendKeys
  PROVE  KeysSent' /\ Same'
<1>1. AtStart /\ Same
  BY StageOf DEF SendKeys
<1>2. Step(ALICE, "cross") /\ Send(ALICE, <<Keys'>>)
  BY DEF SendKeys, Keys, triple
<1>3. pc' = Pair("cross", "keys") /\ chan' = Pair(<<>>, <<Keys'>>)
  BY <1>1, <1>2, AliceSends, Zenon DEF AtStart
<1>4. Same'
  BY <1>1 DEF SendKeys, Same, product
<1> QED
  BY <1>3, <1>4 DEF KeysSent, Place

\* BOB has answered them.
LEMMA ReceiveKeysStage ==
  ASSUME Stages, TypeOK, NEW h \in Draws, ReceiveKeys(h)
  PROVE  CrossSent' /\ Same'
<1>1. KeysSent /\ Same
  BY StageOf DEF ReceiveKeys
<1>2. Head(chan[BOB]) = Keys
  BY <1>1, Heads, Zenon DEF KeysSent
<1>3. Cross' = [kind |-> "cross", c |-> CrossTerms(Keys, h)]
  BY DEF ReceiveKeys, Cross, CrossTerms, Keys
<1>4. Step(BOB, "clear") /\ Receive(BOB, <<Cross'>>)
  BY <1>2, <1>3 DEF ReceiveKeys
<1>5. pc' = Pair("cross", "clear") /\ chan' = Pair(<<Cross'>>, <<>>)
  BY <1>1, <1>4, BobAnswers DEF KeysSent
<1>6. (fc[BOB] = ((((fa[BOB] * fb[BOB]) % Pub) - r) % Pub) % W)'
  BY DEF ReceiveKeys, TypeOK, Party
<1>7. Same'
  BY <1>1 DEF ReceiveKeys, Same, product
<1> QED
  BY <1>5, <1>6, <1>7 DEF CrossSent, Place

\* ALICE has completed the triple.
LEMMA ReceiveCrossStage ==
  ASSUME Stages, ReceiveCross
  PROVE  ClearSent' /\ Same'
<1>1. CrossSent /\ Same
  BY StageOf DEF ReceiveCross
<1>2. Step(ALICE, "barrier") /\ Receive(ALICE, <<Clear, Byte>>)
  BY DEF ReceiveCross, Clear, Byte
<1>3. <<>> \o <<Clear, Byte>> = <<Clear, Byte>>
  BY Queues
<1>4. pc' = Pair("barrier", "clear") /\ chan' = Pair(<<>>, <<Clear, Byte>>)
  BY <1>1, <1>2, <1>3, AliceReads DEF CrossSent
<1>5. Same'
  BY <1>1 DEF ReceiveCross, Same, product
<1> QED
  BY <1>4, <1>5 DEF ClearSent, Place, Clear, Byte

\* BOB has read her share; the byte of the barrier is next.
LEMMA ReceiveClearStage ==
  ASSUME Stages, ReceiveClear
  PROVE  ByteSent' /\ Same'
<1>1. ClearSent /\ Same
  BY StageOf DEF ReceiveClear
<1>2. Step(BOB, "barrier") /\ Receive(BOB, <<>>)
  BY DEF ReceiveClear
<1>3. pc' = Pair("barrier", "barrier") /\ chan' = Pair(<<>>, <<Byte>>)
  BY <1>1, <1>2, BobReads, Zenon DEF ClearSent
<1>4. Same'
  BY <1>1 DEF ReceiveClear, Same, product
<1> QED
  BY <1>3, <1>4 DEF ByteSent, Place, Byte

\* The byte goes to BOB and back.
LEMMA BarrierStage ==
  ASSUME Stages, NEW s \in Party, Barrier(s)
  PROVE  (ByteBack' \/ Open') /\ Same'
<1>1. Same'
  <2>1. Same
    BY StageOf DEF Barrier, Party
  <2> QED
    BY <2>1 DEF Barrier, Same, product
<1>2. BOB # ALICE
  BY DEF ALICE, BOB
<1>3. CASE s = BOB
  <2>1. ByteSent
    BY <1>3, StageOf DEF Barrier
  <2>2. Step(BOB, "opened") /\ Receive(BOB, <<Byte>>)
    BY <1>2, <1>3 DEF Barrier, Byte, Opening
  <2>3. pc' = Pair("barrier", "opened") /\ chan' = Pair(<<Byte>>, <<>>)
    BY <2>1, <2>2, BobAnswers DEF ByteSent
  <2> QED
    BY <1>1, <2>3 DEF ByteBack, Place, Byte
<1>4. CASE s = ALICE
  <2>1. ByteBack
    BY <1>4, StageOf DEF Barrier
  <2>2. Step(ALICE, "open") /\ Receive(ALICE, <<>>)
    BY <1>2, <1>4 DEF Barrier, Opening
  <2>3. <<>> \o <<>> = <<>>
    BY Queues
  <2>4. pc' = Pair("open", "opened") /\ chan' = Pair(<<>>, <<>>)
    BY <2>1, <2>2, <2>3, AliceReads DEF ByteBack
  <2> QED
    BY <1>1, <2>4 DEF Open, Place
<1> QED
  BY <1>3, <1>4 DEF Party

\* ALICE opens an element.
LEMMA SendOpenStage ==
  ASSUME Stages, SendOpen
  PROVE  OpenSent' /\ Same'
<1>1. Open /\ Same
  BY StageOf DEF SendOpen
<1>2. Step(ALICE, "opened") /\ Send(ALICE, <<Difference(ALICE)'>>)
  BY DEF SendOpen, Difference, triple, product
<1>3. pc' = Pair("opened", "opened") /\ chan' = Pair(<<>>, <<Difference(ALICE)'>>)
  BY <1>1, <1>2, AliceSends, Zenon DEF Open
<1>4. Same'
  BY <1>1 DEF SendOpen, Same, product
<1> QED
  BY <1>3, <1>4 DEF OpenSent, Place


\* BOB has ALICE's difference, or ALICE has BOB's.
LEMMA ReceiveOpenStage ==
  ASSUME Stages, TypeOK, NEW s \in Party, ReceiveOpen(s)
  PROVE  (OpenBack' \/ SumSent') /\ Same'
<1>1. Same'
  <2>1. Same
    BY StageOf DEF ReceiveOpen, Party
  <2> QED
    BY <2>1 DEF ReceiveOpen, Same
<1>2. BOB # ALICE
  BY DEF ALICE, BOB
<1>3. CASE s = BOB
  <2>1. OpenSent
    BY <1>3, StageOf DEF ReceiveOpen
  <2>2. Difference(BOB)' = Difference(BOB)
    BY DEF ReceiveOpen, Difference, triple
  <2>3. Step(BOB, "summed") /\ Receive(BOB, <<Difference(BOB)'>>)
    BY <1>2, <1>3, <2>2 DEF ReceiveOpen
  <2>4. pc' = Pair("opened", "summed") /\ chan' = Pair(<<Difference(BOB)'>>, <<>>)
    BY <2>1, <2>3, BobAnswers DEF OpenSent
  <2> QED
    BY <1>1, <2>4 DEF OpenBack, Place
<1>4. CASE s = ALICE
  <2>1. OpenBack
    BY <1>4, StageOf DEF ReceiveOpen
  <2>2. Sum(ALICE)' = [kind |-> "sum", z |-> Summand(ALICE, Opened(ALICE, Head(chan[ALICE])))]
    BY <1>4 DEF ReceiveOpen, Sum, TypeOK
  <2>3. Step(ALICE, "summed") /\ Receive(ALICE, <<Sum(ALICE)'>>)
    BY <1>4, <2>2 DEF ReceiveOpen
  <2>4. <<>> \o <<Sum(ALICE)'>> = <<Sum(ALICE)'>>
    BY Queues
  <2>5. pc' = Pair("summed", "summed") /\ chan' = Pair(<<>>, <<Sum(ALICE)'>>)
    BY <2>1, <2>3, <2>4, AliceReads DEF OpenBack
  <2> QED
    BY <1>1, <2>5 DEF SumSent, Place
<1> QED
  BY <1>3, <1>4 DEF Party

\* The summands are exchanged in the same way.
LEMMA ReceiveSumStage ==
  ASSUME Stages, TypeOK, NEW s \in Party, ReceiveSum(s)
  PROVE  (SumBack' \/ ProductSent') /\ Same'
<1>1. Same'
  <2>1. Same
    BY StageOf DEF ReceiveSum, Party
  <2> QED
    BY <2>1 DEF ReceiveSum, Same
<1>2. BOB # ALICE
  BY DEF ALICE, BOB
<1>3. CASE s = BOB
  <2>1. SumSent
    BY <1>3, StageOf DEF ReceiveSum
  <2>2. Sum(BOB)' = Sum(BOB)
    BY DEF ReceiveSum, Sum
  <2>3. Step(BOB, "multiplied") /\ Receive(BOB, <<Sum(BOB)'>>)
    BY <1>2, <1>3, <2>2 DEF ReceiveSum, Sum
  <2>4. pc' = Pair("summed", "multiplied") /\ chan' = Pair(<<Sum(BOB)'>>, <<>>)
    BY <2>1, <2>3, BobAnswers DEF SumSent
  <2> QED
    BY <1>1, <2>4 DEF SumBack, Place
<1>4. CASE s = ALICE
  <2>1. SumBack
    BY <1>4, StageOf DEF ReceiveSum
  <2>2. Product(ALICE)' = [kind |-> "product",
                           x |-> (D[ALICE] * E[ALICE] + z[ALICE] + Head(chan[ALICE]).z) % W]
    BY <1>4 DEF ReceiveSum, Product, TypeOK
  <2>3. Step(ALICE, "multiplied") /\ Receive(ALICE, <<Product(ALICE)'>>)
    BY <1>4, <2>2 DEF ReceiveSum
  <2>4. <<>> \o <<Product(ALICE)'>> = <<Product(ALICE)'>>
    BY Queues
  <2>5. pc' = Pair("multiplied", "multiplied") /\ chan' = Pair(<<>>, <<Product(ALICE)'>>)
    BY <2>1, <2>3, <2>4, AliceReads DEF SumBack
  <2> QED
    BY <1>1, <2>5 DEF ProductSent, Place
<1> QED
  BY <1>3, <1>4 DEF Party

\* BOB goes one element ahead.
LEMMA BobsProductStage ==
  ASSUME Stages, TypeOK, ReceiveProduct(BOB)
  PROVE  ProductBack'
<1>1. ProductSent /\ Same
  BY StageOf DEF ReceiveProduct
<1>2. Head(chan[BOB]) = Product(ALICE)
  BY <1>1, Heads, Zenon DEF ProductSent
<1>3. BOB # ALICE /\ BOB \in Party /\ ALICE \in Party
  BY DEF ALICE, BOB, Party
<1>4. Last(BOB) <=> Last(ALICE)'
  BY <1>1, <1>3 DEF Last, Same, ReceiveProduct, TypeOK
<1>5. Product(BOB)' = Product(BOB)
  BY DEF ReceiveProduct, Product
<1> DEFINE l == IF Last(ALICE)' THEN "respond" ELSE "opened"
<1>6. Step(BOB, l) /\ Receive(BOB, <<Product(BOB)'>>)
  BY <1>3, <1>4, <1>5 DEF ReceiveProduct, Opening, Product
<1> HIDE DEF l
<1>7. pc' = Pair("multiplied", l) /\ chan' = Pair(<<Product(BOB)'>>, <<>>)
  BY <1>1, <1>6, BobAnswers DEF ProductSent
<1>8. (slot[BOB] = IF Last(ALICE) THEN slot[ALICE] ELSE slot[ALICE] + 1)'
  <2>1. slot' = [slot EXCEPT ![BOB] = IF Last(BOB) THEN slot[BOB] ELSE slot[BOB] + 1]
    BY DEF ReceiveProduct
  <2> QED
    BY <1>1, <1>3, <1>4, <2>1 DEF Same, TypeOK
<1>9. (sig[BOB] = IF (xr[BOB] + xr[ALICE]) % W = 0 THEN sig[ALICE]
                  ELSE Append(sig[ALICE], slot[ALICE]))'
  <2>1. xr' = xr /\ slot'[ALICE] = slot[ALICE]
    BY <1>3 DEF ReceiveProduct, TypeOK
  <2>2. Dropped(BOB, Product(ALICE)) <=> (xr[BOB] + xr[ALICE]) % W = 0
    BY DEF Dropped, Product
  <2>3. CASE Dropped(BOB, Product(ALICE))
    <3>1. sig' = sig
      BY <1>2, <2>3 DEF ReceiveProduct
    <3> QED
      BY <1>1, <2>1, <2>2, <2>3, <3>1 DEF Same
  <2>4. CASE ~Dropped(BOB, Product(ALICE))
    <3>1. sig' = [sig EXCEPT ![BOB] = Append(sig[BOB], slot[BOB])]
      BY <1>2, <2>4 DEF ReceiveProduct
    <3>2. sig'[BOB] = Append(sig[ALICE], slot[ALICE]) /\ sig'[ALICE] = sig[ALICE]
      BY <1>1, <1>3, <3>1 DEF Same, TypeOK
    <3> QED
      BY <2>1, <2>2, <2>4, <3>2
  <2> QED
    BY <2>3, <2>4
<1> QED
  BY <1>7, <1>8, <1>9 DEF ProductBack, Place, l

\* ALICE catches up.
LEMMA AlicesProductStage ==
  ASSUME Stages, TypeOK, ReceiveProduct(ALICE)
  PROVE  (Open' \/ Responding') /\ Same'
<1>1. ProductBack
  BY StageOf DEF ReceiveProduct
<1> DEFINE a == IF Last(ALICE) THEN "respond" ELSE "open"
           b == IF Last(ALICE) THEN "respond" ELSE "opened"
<1>2. Place("multiplied", b, <<Product(BOB)>>, <<>>)
  BY <1>1 DEF ProductBack
<1>3. Step(ALICE, a) /\ Receive(ALICE, <<>>)
  BY DEF ReceiveProduct, Opening, ALICE, BOB
<1> HIDE DEF a, b
<1>4. Head(chan[ALICE]) = Product(BOB)
  BY <1>2, Heads, Zenon
<1>5. pc' = Pair(a, b) /\ chan' = Pair(<<>>, <<>>)
  <2>1. <<>> \o <<>> = <<>>
    BY Queues
  <2> QED
    BY <1>2, <1>3, <2>1, AliceReads
<1>6. BOB # ALICE /\ BOB \in Party /\ ALICE \in Party
  BY DEF ALICE, BOB, Party
<1>7. slot'[ALICE] = slot'[BOB]
  <2>1. slot' = [slot EXCEPT ![ALICE] = IF Last(ALICE) THEN slot[ALICE] ELSE slot[ALICE] + 1]
    BY DEF ReceiveProduct
  <2> QED
    BY <1>1, <1>6, <2>1 DEF ProductBack, TypeOK
<1>8. sig'[ALICE] = sig'[BOB]
  <2>1. Dropped(ALICE, Product(BOB)) <=> (xr[BOB] + xr[ALICE]) % W = 0
    <3>1. xr[ALICE] \in Int /\ xr[BOB] \in Int
      BY <1>6, WordFacts DEF TypeOK
    <3>2. xr[ALICE] + xr[BOB] = xr[BOB] + xr[ALICE]
      BY <3>1
    <3> QED
      BY <3>2 DEF Dropped, Product
  <2>2. CASE Dropped(ALICE, Product(BOB))
    <3>1. sig' = sig
      BY <1>4, <2>2 DEF ReceiveProduct
    <3> QED
      BY <1>1, <2>1, <2>2, <3>1 DEF ProductBack
  <2>3. CASE ~Dropped(ALICE, Product(BOB))
    <3>1. sig' = [sig EXCEPT ![ALICE] = Append(sig[ALICE], slot[ALICE])]
      BY <1>4, <2>3 DEF ReceiveProduct
    <3>2. sig'[ALICE] = Append(sig[ALICE], slot[ALICE]) /\ sig'[BOB] = sig[BOB]
      BY <1>6, <3>1 DEF TypeOK
    <3> QED
      BY <1>1, <2>1, <2>3, <3>2 DEF ProductBack
  <2> QED
    BY <2>2, <2>3
<1>9. Open' \/ Responding'
  <2>1. CASE Last(ALICE)
    BY <1>5, <2>1 DEF a, b, Responding, Place
  <2>2. CASE ~Last(ALICE)
    BY <1>5, <2>2 DEF a, b, Open, Place
  <2> QED
    BY <2>1, <2>2
<1> QED
  BY <1>7, <1>8, <1>9 DEF Same


\* The response and the vector follow each other.
LEMMA RespondStage ==
  ASSUME Stages, Respond
  PROVE  ResponseSent' /\ Same'
<1>1. Responding /\ Same
  BY StageOf DEF Respond
<1>2. Reply' = Reply /\ Vector' = Vector
  BY DEF Respond, Reply, Vector, product
<1>3. Step(ALICE, "verdict") /\ Send(ALICE, <<Reply', Vector'>>)
  BY <1>2 DEF Respond, Reply, Vector
<1>4. pc' = Pair("verdict", "respond") /\ chan' = Pair(<<>>, <<Reply', Vector'>>)
  BY <1>1, <1>3, AliceSends DEF Responding
<1>5. Same'
  BY <1>1 DEF Respond, Same, product
<1> QED
  BY <1>4, <1>5 DEF ResponseSent, Place

\* The response BOB reads has the length of his own.
LEMMA RecoverReads ==
  ASSUME Stages, KeptInv, Recover
  PROVE  /\ ResponseSent /\ Same
         /\ chan[BOB][1] = Reply /\ chan[BOB][2] = Vector
         /\ Len(shares[ALICE]) = Len(shares[BOB]) /\ Len(shares[BOB]) = Len(sig[BOB])
<1>1. ResponseSent /\ Same
  BY StageOf DEF Recover
<1>2. chan[BOB] = <<Reply, Vector>>
  BY <1>1, PlaceAt DEF ResponseSent
<1>3. chan[BOB][1] = Reply /\ chan[BOB][2] = Vector
  BY <1>2
<1>4. Len(shares[ALICE]) = Len(shares[BOB]) /\ Len(shares[BOB]) = Len(sig[BOB])
  BY <1>1 DEF KeptInv, Same, Party
<1> QED
  BY <1>1, <1>3, <1>4

\* What Recover does when it does not refuse.
Sums == [i \in 1 .. Len(shares[ALICE]) |-> (shares[ALICE][i] + shares[BOB][i]) % p]

\* The servers kept as much, so BOB does not refuse.
LEMMA RecoverDoes ==
  ASSUME Stages, KeptInv, Recover
  PROVE  /\ recovered' = Sums
         /\ verdict' = [verdict EXCEPT ![BOB] = Said(Sums, v[ALICE])]
         /\ chan' = [chan EXCEPT ![BOB] = SubSeq(chan[BOB], 3, Len(chan[BOB])),
                         ![ALICE] = Append(chan[ALICE], [kind |-> "summary",
                                                         said |-> Said(Sums, v[ALICE])])]
         /\ Step(BOB, "done")
<1>1. /\ chan[BOB][1] = Reply /\ chan[BOB][2] = Vector
      /\ Len(shares[ALICE]) = Len(shares[BOB])
  BY RecoverReads
<1>2. /\ chan[BOB][1].count = Len(shares[ALICE]) /\ chan[BOB][1].body = shares[ALICE]
      /\ chan[BOB][2].v = v[ALICE]
  BY <1>1 DEF Reply, Vector
<1>3. [i \in 1 .. chan[BOB][1].count |-> (chan[BOB][1].body[i] + shares[BOB][i]) % p] = Sums
  BY <1>2 DEF Sums
<1>4. BOB # ALICE
  BY DEF ALICE, BOB
<1> HIDE DEF Sums
<1> QED
  BY <1>1, <1>2, <1>3, <1>4 DEF Recover

\* BOB is done and his summary is on its way.
LEMMA RecoverStage ==
  ASSUME Stages, TypeOK, KeptInv, Recover
  PROVE  SummarySent' /\ Same'
<1>1. ResponseSent /\ Same
  BY RecoverReads
<1>2. pc = Pair("verdict", "respond") /\ chan = Pair(<<>>, <<Reply, Vector>>)
  BY <1>1 DEF ResponseSent, Place
<1>3. chan[ALICE] = <<>> /\ chan[BOB] = <<Reply, Vector>>
  BY <1>2, PairAt
<1>4. verdict'[BOB] = Said(Sums, v[ALICE])
  <2>1. verdict' = [verdict EXCEPT ![BOB] = Said(Sums, v[ALICE])]
    BY RecoverDoes
  <2> QED
    BY <2>1 DEF TypeOK, Party
<1>5. chan' = [chan EXCEPT ![BOB] = <<>>, ![ALICE] = <<Summary'>>]
  <2>1. Summary' = [kind |-> "summary", said |-> Said(Sums, v[ALICE])]
    BY <1>4 DEF Summary
  <2>2. SubSeq(chan[BOB], 3, Len(chan[BOB])) = <<>>
    BY <1>3, Queues
  <2>3. Append(chan[ALICE], Summary') = <<Summary'>>
    BY <1>3, Queues
  <2> QED
    BY <2>1, <2>2, <2>3, RecoverDoes
<1>6. chan' = Pair(<<Summary'>>, <<>>)
  <2>1. \A x, y : [chan EXCEPT ![BOB] = y, ![ALICE] = x] = Pair(x, y)
    <3> TAKE x, y
    <3> QED
      BY <1>2, PairSet
  <2> QED
    BY <1>5, <2>1
<1>7. pc' = Pair("verdict", "done")
  <2>1. Step(BOB, "done")
    BY RecoverDoes
  <2> QED
    BY <1>2, <2>1, Steps
<1>8. Same'
  BY <1>1 DEF Recover, Same, product
<1> QED
  BY <1>6, <1>7, <1>8 DEF SummarySent, Place

\* Both are done.
LEMMA ReceiveSummaryStage ==
  ASSUME Stages, ReceiveSummary
  PROVE  Over' /\ Same'
<1>1. SummarySent /\ Same
  BY StageOf DEF ReceiveSummary
<1>2. Step(ALICE, "done") /\ Receive(ALICE, <<>>)
  BY DEF ReceiveSummary
<1>3. <<>> \o <<>> = <<>>
  BY Queues
<1>4. pc' = Pair("done", "done") /\ chan' = Pair(<<>>, <<>>)
  BY <1>1, <1>2, <1>3, AliceReads DEF SummarySent
<1>5. Same'
  BY <1>1 DEF ReceiveSummary, Same, product
<1> QED
  BY <1>4, <1>5 DEF Over, Place

\* A stage is a fact about the variables.
LEMMA StagesUnchanged ==
  ASSUME Stages, UNCHANGED vars
  PROVE  Stages'
<1> USE DEF vars, triple, product, result
<1>1. ProductBack => ProductBack'
  BY DEF ProductBack, Place, Product, Last
<1>2. Same => Same'
  BY DEF Same
<1>3. AtStart => AtStart'
  BY DEF AtStart, Place
<1>4. KeysSent => KeysSent'
  BY DEF KeysSent, Place, Keys
<1>5. CrossSent => CrossSent'
  BY DEF CrossSent, Place, Cross, CrossTerms, Keys
<1>6. ClearSent => ClearSent'
  BY DEF ClearSent, Place, Clear, Byte
<1>7. ByteSent => ByteSent'
  BY DEF ByteSent, Place, Byte
<1>8. ByteBack => ByteBack'
  BY DEF ByteBack, Place, Byte
<1>9. Open => Open'
  BY DEF Open, Place
<1>10. OpenSent => OpenSent'
  BY DEF OpenSent, Place, Difference
<1>11. OpenBack => OpenBack'
  BY DEF OpenBack, Place, Difference
<1>12. SumSent => SumSent'
  BY DEF SumSent, Place, Sum
<1>13. SumBack => SumBack'
  BY DEF SumBack, Place, Sum
<1>14. ProductSent => ProductSent'
  BY DEF ProductSent, Place, Product
<1>15. Responding => Responding'
  BY DEF Responding, Place
<1>16. ResponseSent => ResponseSent'
  BY DEF ResponseSent, Place, Reply, Vector
<1>17. SummarySent => SummarySent'
  BY DEF SummarySent, Place, Summary
<1>18. Over => Over'
  BY DEF Over, Place
<1> QED
  BY <1>1, <1>2, <1>3, <1>4, <1>5, <1>6, <1>7, <1>8, <1>9, <1>10, <1>11, <1>12, <1>13, <1>14,
     <1>15, <1>16, <1>17, <1>18, Zenon DEF Stages

\* Every step leads from a stage to a stage.
LEMMA StagesStep ==
  ASSUME TypeOK, KeptInv, Stages, [Next]_vars
  PROVE  Stages'
<1>1. CASE SendKeys
  BY <1>1, SendKeysStage, Zenon DEF Stages
<1>2. CASE ReceiveCross
  BY <1>2, ReceiveCrossStage, Zenon DEF Stages
<1>3. CASE SendOpen
  BY <1>3, SendOpenStage, Zenon DEF Stages
<1>4. CASE Respond
  BY <1>4, RespondStage, Zenon DEF Stages
<1>5. CASE ReceiveSummary
  BY <1>5, ReceiveSummaryStage, Zenon DEF Stages
<1>6. ASSUME NEW h \in Draws, ReceiveKeys(h)
      PROVE  Stages'
  BY <1>6, ReceiveKeysStage, Zenon DEF Stages
<1>7. CASE ReceiveClear
  BY <1>7, ReceiveClearStage, Zenon DEF Stages
<1>8. CASE Recover
  BY <1>8, RecoverStage, Zenon DEF Stages
<1>9. ASSUME NEW s \in Party, Barrier(s)
      PROVE  Stages'
  BY <1>9, BarrierStage, Zenon DEF Stages
<1>10. ASSUME NEW s \in Party, ReceiveOpen(s)
       PROVE  Stages'
  BY <1>10, ReceiveOpenStage, Zenon DEF Stages
<1>11. ASSUME NEW s \in Party, ReceiveSum(s)
       PROVE  Stages'
  BY <1>11, ReceiveSumStage, Zenon DEF Stages
<1>12. ASSUME NEW s \in Party, ReceiveProduct(s)
       PROVE  Stages'
  <2>1. CASE s = ALICE
    BY <1>12, <2>1, AlicesProductStage, Zenon DEF Stages
  <2>2. CASE s = BOB
    BY <1>12, <2>2, BobsProductStage, Zenon DEF Stages
  <2> QED
    BY <2>1, <2>2 DEF Party
<1>13. CASE UNCHANGED vars
  BY <1>13, StagesUnchanged
<1> QED
  BY <1>1, <1>2, <1>3, <1>4, <1>5, <1>6, <1>7, <1>8, <1>9, <1>10, <1>11, <1>12, <1>13 DEF Next


-----------------------------------------------------------------------------
(* Types. *)

\* The two servers.
LEMMA PartyFacts == ALICE \in Party /\ BOB \in Party /\ ALICE # BOB
BY DEF Party, ALICE, BOB

\* Words as integers, and what is reduced to a word.
LEMMA WordSums ==
  ASSUME NEW a \in Word, NEW b \in Word
  PROVE  /\ a \in Int /\ b \in Int /\ a * b \in Int
         /\ (a + b) % W \in Word /\ (a - b) % W \in Word
BY WordFacts

\* A difference is a pair of words.
LEMMA DifferenceType ==
  ASSUME TypeOK, NEW s \in Party
  PROVE  Difference(s).d \in Word /\ Difference(s).e \in Word
<1>1. v[s][slot[s]] \in Word /\ fa[s] \in Word /\ ran \in Word /\ fb[s] \in Word
  BY ResponseAssumption DEF TypeOK
<1> QED
  BY <1>1, WordSums DEF Difference

\* What is opened and what a server adds to it are words.
LEMMA OpenedType ==
  ASSUME TypeOK, NEW s \in Party, NEW m, m.d \in Word, m.e \in Word
  PROVE  /\ Opened(s, m).d \in Word /\ Opened(s, m).e \in Word
         /\ Summand(s, Opened(s, m)) \in Word
<1>1. Opened(s, m).d \in Word /\ Opened(s, m).e \in Word
  BY DifferenceType, WordSums DEF Opened
<1> DEFINE o == Opened(s, m)
<1>2. o.d \in Word /\ o.e \in Word
  BY <1>1
<1> HIDE DEF o
<1>3. fa[s] \in Word /\ fb[s] \in Word /\ fc[s] \in Word
  BY DEF TypeOK
<1>4. o.d * fb[s] \in Int /\ fa[s] * o.e \in Int /\ fc[s] \in Int
  BY <1>2, <1>3, WordSums
<1>5. (o.d * fb[s] + fa[s] * o.e + fc[s]) \in Int
  BY <1>4
<1>6. Summand(s, o) \in Word
  BY <1>5, WordFacts DEF Summand
<1> QED
  BY <1>1, <1>6 DEF o

\* The numbers in a message that a server is about to read.
LEMMA OpenMessage ==
  ASSUME TypeOK, Stages, NEW s \in Party, ReceiveOpen(s)
  PROVE  Head(chan[s]).d \in Word /\ Head(chan[s]).e \in Word
<1>1. CASE s = BOB
  <2>1. OpenSent
    BY <1>1, StageOf DEF ReceiveOpen
  <2>2. Head(chan[BOB]) = Difference(ALICE)
    BY <2>1, Heads DEF OpenSent
  <2> QED
    BY <1>1, <2>2, DifferenceType, PartyFacts
<1>2. CASE s = ALICE
  <2>1. OpenBack
    BY <1>2, StageOf DEF ReceiveOpen
  <2>2. Head(chan[ALICE]) = Difference(BOB)
    BY <2>1, Heads DEF OpenBack
  <2> QED
    BY <1>2, <2>2, DifferenceType, PartyFacts
<1> QED
  BY <1>1, <1>2 DEF Party

\* A summand that is read is a word.
LEMMA SumMessage ==
  ASSUME TypeOK, Stages, NEW s \in Party, ReceiveSum(s)
  PROVE  Head(chan[s]).z \in Word
<1>1. CASE s = BOB
  <2>1. SumSent
    BY <1>1, StageOf DEF ReceiveSum
  <2>2. Head(chan[BOB]) = Sum(ALICE)
    BY <2>1, Heads DEF SumSent
  <2> QED
    BY <1>1, <2>2, PartyFacts DEF Sum, TypeOK
<1>2. CASE s = ALICE
  <2>1. SumBack
    BY <1>2, StageOf DEF ReceiveSum
  <2>2. Head(chan[ALICE]) = Sum(BOB)
    BY <2>1, Heads DEF SumBack
  <2> QED
    BY <1>2, <2>2, PartyFacts DEF Sum, TypeOK
<1> QED
  BY <1>1, <1>2 DEF Party

\* BOB's share of c is a word.
LEMMA ReceiveKeysType ==
  ASSUME TypeOK, NEW h \in Draws, ReceiveKeys(h)
  PROVE  fc' \in [Party -> Word] /\ r' \in Word
<1>1. fa[BOB] \in Word /\ fb[BOB] \in Word /\ h \in Word /\ r' = h
  BY ResponseAssumption, PartyFacts DEF TypeOK, ReceiveKeys
<1>2. fa[BOB] * fb[BOB] \in Int /\ h \in Int
  BY <1>1, WordSums
<1>3. ((fa[BOB] * fb[BOB]) % Pub) - h \in Int
  <2>1. (fa[BOB] * fb[BOB]) % Pub \in Int
    BY <1>2, WordFacts, ModSplit
  <2> QED
    BY <1>2, <2>1
<1>4. ((((fa[BOB] * fb[BOB]) % Pub) - h) % Pub) \in Int
  BY <1>3, WordFacts, ModSplit
<1>5. ((((fa[BOB] * fb[BOB]) % Pub) - h) % Pub) % W \in Word
  BY <1>4, WordFacts
<1> QED
  BY <1>1, <1>5 DEF ReceiveKeys, TypeOK

\* ALICE's share of c is a word.
LEMMA ReceiveCrossType ==
  ASSUME TypeOK, Stages, ReceiveCross
  PROVE  fc' \in [Party -> Word]
<1>1. Head(chan[ALICE]) = Cross
  <2>1. CrossSent
    BY StageOf DEF ReceiveCross
  <2> QED
    BY <2>1, Heads DEF CrossSent
<1>2. Cross.c \in Int
  <2>1. fa[ALICE] * fb[BOB] \in Int /\ fb[ALICE] * fa[BOB] \in Int /\ r \in Int
    BY PartyFacts, WordSums DEF TypeOK
  <2>2. fa[ALICE] * fb[BOB] + fb[ALICE] * fa[BOB] + r \in Int
    BY <2>1
  <2>3. (fa[ALICE] * fb[BOB] + fb[ALICE] * fa[BOB] + r) % Pub \in Int
    BY <2>2, WordFacts, ModSplit
  <2> QED
    BY <2>3 DEF Cross, CrossTerms, Keys
<1>3. ((fa[ALICE] * fb[ALICE]) % Pub) \in Int
  <2>1. fa[ALICE] * fb[ALICE] \in Int
    BY PartyFacts, WordSums DEF TypeOK
  <2> QED
    BY <2>1, WordFacts, ModSplit
<1> DEFINE t == (((fa[ALICE] * fb[ALICE]) % Pub) + Cross.c) % Pub
<1>4. t \in Int
  <2>1. ((fa[ALICE] * fb[ALICE]) % Pub) + Cross.c \in Int
    BY <1>2, <1>3
  <2> QED
    BY <2>1, WordFacts, ModSplit
<1>5. fc' = [fc EXCEPT ![ALICE] = t % W]
  BY <1>1 DEF ReceiveCross
<1> HIDE DEF t
<1>6. t % W \in Word
  BY <1>4, WordFacts
<1> QED
  BY <1>5, <1>6 DEF TypeOK


Places == {"keys", "cross", "clear", "barrier", "open", "opened", "summed", "multiplied",
           "respond", "verdict", "thrown", "done"}

\* A step leads to a place.
LEMMA PlaceType ==
  ASSUME TypeOK, NEW s \in Party, NEW l \in Places, Step(s, l)
  PROVE  pc' \in [Party -> Places]
BY DEF TypeOK, Step, Places

\* Most steps change only where a server is and what is on the connection.
LEMMA OnlyPlace ==
  ASSUME TypeOK, pc' \in [Party -> Places], UNCHANGED <<value, v, ran, triple, product, result>>
  PROVE  TypeOK'
BY DEF TypeOK, Places, triple, product, result

\* Types after ReceiveOpen.
LEMMA ReceiveOpenTypes ==
  ASSUME TypeOK, Stages, NEW s \in Party, ReceiveOpen(s)
  PROVE  TypeOK'
<1> DEFINE o == Opened(s, Head(chan[s]))
<1>1. o.d \in Word /\ o.e \in Word /\ Summand(s, o) \in Word
  BY OpenMessage, OpenedType
<1>2. /\ D' = [D EXCEPT ![s] = o.d] /\ E' = [E EXCEPT ![s] = o.e]
      /\ z' = [z EXCEPT ![s] = Summand(s, o)]
  BY DEF ReceiveOpen
<1> HIDE DEF o
<1>3. D' \in [Party -> Word] /\ E' \in [Party -> Word] /\ z' \in [Party -> Word]
  BY <1>1, <1>2 DEF TypeOK
<1>4. pc' \in [Party -> Places]
  <2>1. Step(s, "summed") /\ "summed" \in Places
    BY DEF ReceiveOpen, Places
  <2> QED
    BY <2>1, PlaceType
<1> QED
  BY <1>3, <1>4 DEF TypeOK, ReceiveOpen, Places, triple, result

\* Types after ReceiveSum.
LEMMA ReceiveSumTypes ==
  ASSUME TypeOK, Stages, NEW s \in Party, ReceiveSum(s)
  PROVE  TypeOK'
<1> DEFINE x == (D[s] * E[s] + z[s] + Head(chan[s]).z) % W
<1>1. x \in Word
  <2>1. D[s] \in Word /\ E[s] \in Word /\ z[s] \in Word /\ Head(chan[s]).z \in Word
    BY SumMessage DEF TypeOK
  <2>2. D[s] * E[s] \in Int /\ z[s] \in Int /\ Head(chan[s]).z \in Int
    BY <2>1, WordSums
  <2>3. D[s] * E[s] + z[s] + Head(chan[s]).z \in Int
    BY <2>2
  <2> QED
    BY <2>3, WordFacts
<1>2. xr' = [xr EXCEPT ![s] = x]
  BY DEF ReceiveSum
<1> HIDE DEF x
<1>3. xr' \in [Party -> Word]
  BY <1>1, <1>2 DEF TypeOK
<1>4. pc' \in [Party -> Places]
  <2>1. Step(s, "multiplied") /\ "multiplied" \in Places
    BY DEF ReceiveSum, Places
  <2> QED
    BY <2>1, PlaceType
<1> QED
  BY <1>3, <1>4 DEF TypeOK, ReceiveSum, Places, triple, result

\* The slot and the share that a server keeps.
LEMMA KeptType ==
  ASSUME TypeOK, NEW s \in Party
  PROVE  slot[s] \in Slot /\ Kept(s) \in Field
<1>1. slot[s] \in Slot /\ v[s][slot[s]] \in Word
  BY DEF TypeOK
<1>2. v[s][slot[s]] \in Int
  BY <1>1, WordFacts
<1> QED
  BY <1>1, <1>2, WordFacts DEF Kept

\* Types after ReceiveProduct.
LEMMA ReceiveProductTypes ==
  ASSUME TypeOK, NEW s \in Party, ReceiveProduct(s)
  PROVE  TypeOK'
<1>1. sig' \in [Party -> Seq(Slot)] /\ shares' \in [Party -> Seq(Field)]
  <2>1. CASE Dropped(s, Head(chan[s]))
    BY <2>1 DEF ReceiveProduct, TypeOK
  <2>2. CASE ~Dropped(s, Head(chan[s]))
    <3>1. /\ sig' = [sig EXCEPT ![s] = Append(sig[s], slot[s])]
          /\ shares' = [shares EXCEPT ![s] = Append(shares[s], Kept(s))]
      BY <2>2 DEF ReceiveProduct
    <3>2. Append(sig[s], slot[s]) \in Seq(Slot) /\ Append(shares[s], Kept(s)) \in Seq(Field)
      BY KeptType DEF TypeOK
    <3> QED
      BY <3>1, <3>2 DEF TypeOK
  <2> QED
    BY <2>1, <2>2
<1>2. slot' \in [Party -> Slot]
  <2>1. slot' = [slot EXCEPT ![s] = IF Last(s) THEN slot[s] ELSE slot[s] + 1]
    BY DEF ReceiveProduct
  <2>2. (IF Last(s) THEN slot[s] ELSE slot[s] + 1) \in Slot
    <3>1. slot[s] \in Int /\ 0 <= slot[s] /\ slot[s] <= N - 1 /\ N \in Int
      BY KeptType, WordFacts DEF Slot
    <3> QED
      BY <3>1 DEF Last, Slot
  <2> QED
    BY <2>1, <2>2 DEF TypeOK
<1>3. pc' \in [Party -> Places]
  <2>1. Step(s, IF Last(s) THEN "respond" ELSE Opening(s))
    BY DEF ReceiveProduct
  <2>2. (IF Last(s) THEN "respond" ELSE Opening(s)) \in Places
    BY DEF Opening, Places
  <2> QED
    BY <2>1, <2>2, PlaceType
<1> QED
  BY <1>1, <1>2, <1>3 DEF TypeOK, ReceiveProduct, Places, triple, result

\* A verdict is two answers.
LEMMA SaidType ==
  ASSUME NEW q, NEW other
  PROVE  Said(q, other) \in [exact : BOOLEAN, indices : BOOLEAN]
BY DEF Said, InOrder

\* Types after Recover.
LEMMA RecoverTypes ==
  ASSUME TypeOK, Stages, KeptInv, Recover
  PROVE  TypeOK'
<1>1. recovered' \in Seq(Field)
  <2>1. recovered' = Sums /\ Len(shares[ALICE]) = Len(shares[BOB])
    BY RecoverDoes, RecoverReads
  <2>2. shares[ALICE] \in Seq(Field) /\ shares[BOB] \in Seq(Field)
    BY PartyFacts DEF TypeOK
  <2>3. Len(shares[ALICE]) \in Nat
    BY <2>2
  <2>4. \A i \in 1 .. Len(shares[ALICE]) : (shares[ALICE][i] + shares[BOB][i]) % p \in Field
    <3> TAKE i \in 1 .. Len(shares[ALICE])
    <3>1. shares[ALICE][i] \in Field /\ shares[BOB][i] \in Field
      BY <2>1, <2>2
    <3>2. shares[ALICE][i] + shares[BOB][i] \in Int
      BY <3>1 DEF Field
    <3> QED
      BY <3>2, WordFacts
  <2>5. Sums \in [1 .. Len(shares[ALICE]) -> Field]
    BY <2>4 DEF Sums
  <2> QED
    BY <2>1, <2>3, <2>5
<1>2. verdict' \in [Party -> [exact : BOOLEAN, indices : BOOLEAN]]
  <2> DEFINE d == Said(Sums, v[ALICE])
  <2>1. d \in [exact : BOOLEAN, indices : BOOLEAN]
    BY SaidType
  <2>2. verdict' = [verdict EXCEPT ![BOB] = d]
    BY RecoverDoes
  <2> HIDE DEF d
  <2> QED
    BY <2>1, <2>2 DEF TypeOK
<1>3. pc' \in [Party -> Places]
  <2>1. Step(BOB, "done") /\ "done" \in Places
    BY RecoverDoes DEF Places
  <2> QED
    BY <2>1, PlaceType, PartyFacts
<1> QED
  BY <1>1, <1>2, <1>3 DEF TypeOK, Recover, Places, triple, product

\* Types after ReceiveSummary.
LEMMA ReceiveSummaryTypes ==
  ASSUME TypeOK, Stages, ReceiveSummary
  PROVE  TypeOK'
<1>1. Head(chan[ALICE]) = Summary
  <2>1. SummarySent
    BY StageOf DEF ReceiveSummary
  <2> QED
    BY <2>1, Heads DEF SummarySent
<1>2. verdict' \in [Party -> [exact : BOOLEAN, indices : BOOLEAN]]
  <2>1. Summary.said \in [exact : BOOLEAN, indices : BOOLEAN]
    BY PartyFacts DEF Summary, TypeOK
  <2> QED
    BY <1>1, <2>1 DEF ReceiveSummary, TypeOK
<1>3. pc' \in [Party -> Places]
  <2>1. Step(ALICE, "done") /\ "done" \in Places
    BY DEF ReceiveSummary, Places
  <2> QED
    BY <2>1, PlaceType, PartyFacts
<1> QED
  BY <1>2, <1>3 DEF TypeOK, ReceiveSummary, Places, triple, product

\* Every step keeps the types.
LEMMA TypesStep ==
  ASSUME TypeOK, KeptInv, Stages, [Next]_vars
  PROVE  TypeOK'
<1>1. CASE SendKeys
  <2>1. Step(ALICE, "cross") /\ "cross" \in Places
    BY <1>1 DEF SendKeys, Places
  <2>2. pc' \in [Party -> Places]
    BY <2>1, PlaceType, PartyFacts
  <2> QED
    BY <1>1, <2>2, OnlyPlace DEF SendKeys
<1>2. CASE SendOpen
  <2>1. Step(ALICE, "opened") /\ "opened" \in Places
    BY <1>2 DEF SendOpen, Places
  <2>2. pc' \in [Party -> Places]
    BY <2>1, PlaceType, PartyFacts
  <2> QED
    BY <1>2, <2>2, OnlyPlace DEF SendOpen
<1>3. CASE Respond
  <2>1. Step(ALICE, "verdict") /\ "verdict" \in Places
    BY <1>3 DEF Respond, Places
  <2>2. pc' \in [Party -> Places]
    BY <2>1, PlaceType, PartyFacts
  <2> QED
    BY <1>3, <2>2, OnlyPlace DEF Respond
<1>4. CASE ReceiveClear
  <2>1. Step(BOB, "barrier") /\ "barrier" \in Places
    BY <1>4 DEF ReceiveClear, Places
  <2>2. pc' \in [Party -> Places]
    BY <2>1, PlaceType, PartyFacts
  <2> QED
    BY <1>4, <2>2, OnlyPlace DEF ReceiveClear
<1>5. ASSUME NEW s \in Party, Barrier(s)
      PROVE  TypeOK'
  <2>1. Step(s, Opening(s)) /\ Opening(s) \in Places
    BY <1>5 DEF Barrier, Opening, Places
  <2>2. pc' \in [Party -> Places]
    BY <2>1, PlaceType
  <2> QED
    BY <1>5, <2>2, OnlyPlace DEF Barrier
<1>6. ASSUME NEW h \in Draws, ReceiveKeys(h)
      PROVE  TypeOK'
  <2>1. Step(BOB, "clear") /\ "clear" \in Places
    BY <1>6 DEF ReceiveKeys, Places
  <2>2. pc' \in [Party -> Places]
    BY <2>1, PlaceType, PartyFacts
  <2>3. fc' \in [Party -> Word] /\ r' \in Word
    BY <1>6, ReceiveKeysType
  <2> QED
    BY <1>6, <2>2, <2>3 DEF ReceiveKeys, TypeOK, Places, product, result
<1>7. CASE ReceiveCross
  <2>1. Step(ALICE, "barrier") /\ "barrier" \in Places
    BY <1>7 DEF ReceiveCross, Places
  <2>2. pc' \in [Party -> Places]
    BY <2>1, PlaceType, PartyFacts
  <2>3. fc' \in [Party -> Word]
    BY <1>7, ReceiveCrossType
  <2> QED
    BY <1>7, <2>2, <2>3 DEF ReceiveCross, TypeOK, Places, product, result
<1>8. ASSUME NEW s \in Party, ReceiveOpen(s) \/ ReceiveSum(s) \/ ReceiveProduct(s)
      PROVE  TypeOK'
  BY <1>8, ReceiveOpenTypes, ReceiveSumTypes, ReceiveProductTypes
<1>9. CASE Recover \/ ReceiveSummary
  BY <1>9, RecoverTypes, ReceiveSummaryTypes
<1>10. CASE UNCHANGED vars
  BY <1>10 DEF vars, triple, product, result, TypeOK
<1> QED
  BY <1>1, <1>2, <1>3, <1>4, <1>5, <1>6, <1>7, <1>8, <1>9, <1>10 DEF Next


-----------------------------------------------------------------------------
(* The invariants that speak of numbers. *)

\* No step changes the vector or its shares.
LEMMA SharesStep ==
  ASSUME SharesOfValue, [Next]_vars
  PROVE  SharesOfValue'
<1>1. value' = value /\ v' = v
  BY DEF Next, vars, SendKeys, ReceiveKeys, ReceiveCross, ReceiveClear, Barrier, SendOpen,
         ReceiveOpen, ReceiveSum, ReceiveProduct, Respond, Recover, ReceiveSummary
<1> QED
  BY <1>1 DEF SharesOfValue

\* An element that is kept: its slot and the share of it go to the ends together.
LEMMA KeptAppend ==
  ASSUME TypeOK, KeptInv, NEW s \in Party, ReceiveProduct(s)
  PROVE  KeptInv'
<1>1. v' = v
  BY DEF ReceiveProduct
<1>2. CASE Dropped(s, Head(chan[s]))
  BY <1>1, <1>2 DEF ReceiveProduct, KeptInv
<1>3. CASE ~Dropped(s, Head(chan[s]))
  <2>1. /\ sig' = [sig EXCEPT ![s] = Append(sig[s], slot[s])]
        /\ shares' = [shares EXCEPT ![s] = Append(shares[s], Kept(s))]
    BY <1>3 DEF ReceiveProduct
  <2> SUFFICES ASSUME NEW t \in Party
               PROVE  /\ Len(shares'[t]) = Len(sig'[t])
                      /\ \A j \in 1 .. Len(sig'[t]) : shares'[t][j] = v[t][sig'[t][j]] % p
    BY <1>1 DEF KeptInv
  <2>2. CASE t # s
    <3>1. sig'[t] = sig[t] /\ shares'[t] = shares[t]
      BY <2>1, <2>2 DEF TypeOK
    <3> QED
      BY <3>1 DEF KeptInv
  <2>3. CASE t = s
    <3> DEFINE q == sig[s]
               u == shares[s]
               i == slot[s]
               k == Kept(s)
    <3>1. sig'[t] = Append(q, i) /\ shares'[t] = Append(u, k)
      BY <2>1, <2>3 DEF TypeOK
    <3>2. q \in Seq(Slot) /\ u \in Seq(Field) /\ i \in Slot /\ k \in Field
      BY KeptType DEF TypeOK
    <3>3. Len(u) = Len(q) /\ \A j \in 1 .. Len(q) : u[j] = v[s][q[j]] % p
      BY DEF KeptInv
    <3>4. k = v[s][i] % p
      BY DEF Kept
    <3> HIDE DEF q, u, i, k
    <3>5. Len(Append(u, k)) = Len(Append(q, i))
      BY <3>2, <3>3
    <3>6. ASSUME NEW j \in 1 .. Len(Append(q, i))
          PROVE  Append(u, k)[j] = v[s][Append(q, i)[j]] % p
      <4>1. CASE j = Len(q) + 1
        <5>1. Append(u, k)[j] = k /\ Append(q, i)[j] = i
          BY <3>2, <3>3, <4>1
        <5> QED
          BY <3>4, <5>1
      <4>2. CASE j # Len(q) + 1
        <5>1. j \in 1 .. Len(q) /\ Append(u, k)[j] = u[j] /\ Append(q, i)[j] = q[j]
          BY <3>2, <3>3, <4>2
        <5> QED
          BY <3>3, <5>1
      <4> QED
        BY <4>1, <4>2
    <3> QED
      BY <2>3, <3>1, <3>5, <3>6
  <2> QED
    BY <2>2, <2>3
<1> QED
  BY <1>2, <1>3

\* Only ReceiveProduct keeps anything.
LEMMA KeptStep ==
  ASSUME TypeOK, KeptInv, [Next]_vars
  PROVE  KeptInv'
<1>1. ASSUME NEW s \in Party, ReceiveProduct(s)
      PROVE  KeptInv'
  BY <1>1, KeptAppend
<1>2. ASSUME ~\E s \in Party : ReceiveProduct(s)
      PROVE  KeptInv'
  <2>1. v' = v /\ sig' = sig /\ shares' = shares
    BY <1>2 DEF Next, vars, SendKeys, ReceiveKeys, ReceiveCross, ReceiveClear, Barrier,
         SendOpen, ReceiveOpen, ReceiveSum, Respond, Recover, ReceiveSummary, product
  <2> QED
    BY <2>1 DEF KeptInv
<1> QED
  BY <1>1, <1>2

\* Until BOB is done the claim about the recovered list is empty; Recover makes it.
LEMMA RecoverAdds ==
  ASSUME TypeOK, Stages, KeptInv, Recover
  PROVE  RecoveredInv'
<1>1. sig' = sig /\ v' = v
  BY DEF Recover, product
<1>2. /\ recovered' = Sums /\ Same
      /\ Len(shares[ALICE]) = Len(shares[BOB]) /\ Len(shares[BOB]) = Len(sig[BOB])
  BY RecoverDoes, RecoverReads
<1>3. Len(shares[ALICE]) \in Nat
  BY PartyFacts DEF TypeOK
<1>4. Len(recovered') = Len(sig'[BOB])
  BY <1>1, <1>2, <1>3 DEF Sums
<1>5. ASSUME NEW j \in 1 .. Len(recovered')
      PROVE  recovered'[j] = ((v[ALICE][sig[BOB][j]] % p) + (v[BOB][sig[BOB][j]] % p)) % p
  <2>1. j \in 1 .. Len(shares[ALICE]) /\ j \in 1 .. Len(sig[BOB]) /\ j \in 1 .. Len(sig[ALICE])
    BY <1>1, <1>2, <1>4, <1>5 DEF Same
  <2>2. recovered'[j] = (shares[ALICE][j] + shares[BOB][j]) % p
    BY <1>2, <2>1 DEF Sums
  <2>3. /\ shares[ALICE][j] = v[ALICE][sig[ALICE][j]] % p
        /\ shares[BOB][j] = v[BOB][sig[BOB][j]] % p
    BY <2>1, PartyFacts DEF KeptInv
  <2> QED
    BY <1>2, <2>2, <2>3 DEF Same
<1> QED
  BY <1>1, <1>4, <1>5 DEF RecoveredInv

\* Only Recover makes BOB done, and what is kept does not change after it.
LEMMA RecoveredStep ==
  ASSUME TypeOK, Stages, KeptInv, RecoveredInv, [Next]_vars
  PROVE  RecoveredInv'
<1>1. CASE Recover
  BY <1>1, RecoverAdds
<1>2. ASSUME NEW s \in Party, ReceiveProduct(s)
      PROVE  pc'[BOB] # "done"
  <2>1. CASE s = BOB
    <3>1. Step(BOB, IF Last(BOB) THEN "respond" ELSE Opening(BOB))
      BY <1>2, <2>1 DEF ReceiveProduct
    <3> QED
      BY <3>1, PartyFacts DEF Step, Opening, TypeOK
  <2>2. CASE s = ALICE
    <3>1. pc[BOB] # "done"
      BY <1>2, <2>2, StageOf, StagePlaces DEF ReceiveProduct
    <3>2. pc' = [pc EXCEPT ![ALICE] = IF Last(ALICE) THEN "respond" ELSE Opening(ALICE)]
      BY <1>2, <2>2 DEF ReceiveProduct, Step
    <3> QED
      BY <3>1, <3>2, PartyFacts
  <2> QED
    BY <2>1, <2>2 DEF Party
<1>3. ASSUME ~Recover, ~\E s \in Party : ReceiveProduct(s)
      PROVE  /\ v' = v /\ sig' = sig /\ recovered' = recovered
             /\ pc'[BOB] = "done" => pc[BOB] = "done"
  <2>1. v' = v /\ sig' = sig /\ recovered' = recovered
    BY <1>3 DEF Next, vars, SendKeys, ReceiveKeys, ReceiveCross, ReceiveClear, Barrier,
         SendOpen, ReceiveOpen, ReceiveSum, Respond, ReceiveSummary, product, result
  <2>2. ASSUME NEW s \in Party, NEW l \in Places, Step(s, l), l # "done" \/ s = ALICE
        PROVE  pc'[BOB] = "done" => pc[BOB] = "done"
    BY <2>2, PartyFacts DEF Step, TypeOK
  <2>3. CASE UNCHANGED vars
    BY <2>1, <2>3 DEF vars
  <2>4. CASE \E s \in Party, l \in Places : Step(s, l) /\ (l # "done" \/ s = ALICE)
    BY <2>1, <2>2, <2>4
  <2>5. \/ UNCHANGED vars
        \/ \E s \in Party, l \in Places : Step(s, l) /\ (l # "done" \/ s = ALICE)
    BY <1>3, PartyFacts DEF Next, SendKeys, ReceiveKeys, ReceiveCross, ReceiveClear, Barrier,
         SendOpen, ReceiveOpen, ReceiveSum, Respond, ReceiveSummary, Places, Opening
  <2> QED
    BY <2>1, <2>3, <2>4, <2>5
<1>4. CASE ~Recover /\ ~\E s \in Party : ReceiveProduct(s)
  BY <1>3, <1>4 DEF RecoveredInv
<1> QED
  BY <1>1, <1>2, <1>4 DEF RecoveredInv


\* ALICE's share completes the triple.
LEMMA CrossCompletes ==
  ASSUME TypeOK, Stages, ReceiveCross
  PROVE  TripleUpToBorrow'
<1>1. CrossSent
  BY StageOf DEF ReceiveCross
<1>2. Head(chan[ALICE]) = Cross
  BY <1>1, Heads DEF CrossSent
<1> DEFINE a0 == fa[ALICE]
           b0 == fb[ALICE]
           a1 == fa[BOB]
           b1 == fb[BOB]
           c0 == ((((a0 * b0) % Pub) + ((a0 * b1 + b0 * a1 + r) % Pub)) % Pub) % W
           c1 == ((((a1 * b1) % Pub) - r) % Pub) % W
<1>3. Cross.c = (a0 * b1 + b0 * a1 + r) % Pub
  BY DEF Cross, CrossTerms, Keys
<1>4. fc'[ALICE] = c0 /\ fc'[BOB] = c1
  <2>1. fc' = [fc EXCEPT ![ALICE] = c0]
    BY <1>2, <1>3 DEF ReceiveCross
  <2>2. fc[BOB] = c1
    BY <1>1 DEF CrossSent
  <2> HIDE DEF c0, c1
  <2> QED
    BY <2>1, <2>2, PartyFacts DEF TypeOK
<1>5. a0 \in Word /\ b0 \in Word /\ a1 \in Word /\ b1 \in Word /\ r \in Word
  BY PartyFacts DEF TypeOK
<1>6. (c0 + c1) % W = ((a0 + a1) * (b0 + b1) + IF a1 * b1 < r THEN Pub ELSE 0) % W
  <2> HIDE DEF a0, b0, a1, b1
  <2> QED
    BY <1>5, TripleSum
<1>7. fa' = fa /\ fb' = fb /\ r' = r
  BY DEF ReceiveCross
<1> HIDE DEF c0, c1
<1> QED
  BY <1>4, <1>6, <1>7 DEF TripleUpToBorrow, Borrowed

\* Nothing changes the triple after ReceiveCross.
LEMMA TripleStep ==
  ASSUME TypeOK, Stages, TripleUpToBorrow, [Next]_vars
  PROVE  TripleUpToBorrow'
<1>1. CASE ReceiveCross
  BY <1>1, CrossCompletes
<1>2. ASSUME NEW h \in Draws, ReceiveKeys(h)
      PROVE  TripleUpToBorrow'
  <2>1. pc[ALICE] = "cross"
    BY <1>2, StageOf, StagePlaces DEF ReceiveKeys
  <2>2. pc'[ALICE] = pc[ALICE]
    BY <1>2, PartyFacts DEF ReceiveKeys, Step, TypeOK
  <2> QED
    BY <2>1, <2>2 DEF TripleUpToBorrow
<1>3. CASE SendKeys
  <2>1. pc'[ALICE] = "cross"
    BY <1>3, PartyFacts DEF SendKeys, Step, TypeOK
  <2> QED
    BY <2>1 DEF TripleUpToBorrow
<1>4. ASSUME ~ReceiveCross, ~SendKeys, ~\E h \in Draws : ReceiveKeys(h)
      PROVE  TripleUpToBorrow'
  <2>1. fa' = fa /\ fb' = fb /\ fc' = fc /\ r' = r
    BY <1>4 DEF Next, vars, ReceiveClear, Barrier, SendOpen, ReceiveOpen, ReceiveSum,
         ReceiveProduct, Respond, Recover, ReceiveSummary, triple
  <2> DEFINE early == {"keys", "cross"}
  <2>2. pc'[ALICE] \notin early => pc[ALICE] \notin early
    <3>1. CASE UNCHANGED vars
      BY <3>1 DEF vars
    <3>2. ASSUME NEW l \in Places, Step(BOB, l)
          PROVE  pc'[ALICE] = pc[ALICE]
      BY <3>2, PartyFacts DEF Step
    <3>3. \/ UNCHANGED vars \/ (\E l \in Places : Step(BOB, l))
          \/ pc[ALICE] \notin early
      BY <1>4 DEF Next, ReceiveClear, Barrier, SendOpen, ReceiveOpen, ReceiveSum,
           ReceiveProduct, Respond, Recover, ReceiveSummary, Places, Opening, Awaits, Party,
           ALICE, BOB
    <3> QED
      BY <3>1, <3>2, <3>3
  <2> QED
    BY <2>1, <2>2 DEF TripleUpToBorrow, Borrowed
<1> QED
  BY <1>1, <1>2, <1>3, <1>4

-----------------------------------------------------------------------------
(* The product of an element and the mask. *)

\* Only ReceiveOpen and ReceiveSum lead to the places of the multiplication.
LEMMA Elsewhere ==
  ASSUME TypeOK, [Next]_vars, NEW s \in Party, pc'[s] \in {"summed", "multiplied"},
         pc'[s] # pc[s]
  PROVE  ReceiveOpen(s) \/ ReceiveSum(s)
<1> DEFINE late == {"summed", "multiplied"}
<1>1. ASSUME NEW t \in Party, NEW l \in Places, Step(t, l)
      PROVE  pc' = [pc EXCEPT ![t] = l] /\ pc \in [Party -> Places]
  BY <1>1 DEF Step, TypeOK, Places
<1>2. ASSUME NEW t \in Party, NEW l \in Places \ late, Step(t, l)
      PROVE  FALSE
  BY <1>1, <1>2
<1>3. ASSUME NEW t \in Party, ReceiveOpen(t) \/ ReceiveSum(t)
      PROVE  t = s
  <2>1. Step(t, "summed") \/ Step(t, "multiplied")
    BY <1>3 DEF ReceiveOpen, ReceiveSum
  <2> QED
    BY <1>1, <2>1 DEF Places
<1>4. ~UNCHANGED vars
  BY DEF vars
<1>5. \/ \E t \in Party, l \in Places \ late : Step(t, l)
      \/ \E t \in Party : ReceiveOpen(t) \/ ReceiveSum(t)
  BY <1>4, PartyFacts DEF Next, SendKeys, ReceiveKeys, ReceiveCross, ReceiveClear, Barrier,
       SendOpen, ReceiveProduct, Respond, Recover, ReceiveSummary, Places, Opening
<1> QED
  BY <1>2, <1>3, <1>5

\* The element, its shares and the mask are words.
LEMMA ElementFacts ==
  ASSUME TypeOK, SharesOfValue, NEW i \in Slot
  PROVE  /\ v[ALICE][i] \in Word /\ v[BOB][i] \in Word /\ value[i] \in Field /\ ran \in Word
         /\ (v[ALICE][i] + v[BOB][i]) % W = value[i]
BY PartyFacts, ResponseAssumption DEF TypeOK, SharesOfValue

\* What both servers open of an element.
LEMMA OpenedValue ==
  ASSUME TypeOK, SharesOfValue, Same, NEW s \in Party, NEW t \in Party, s # t
  PROVE  /\ Opened(s, Difference(t)).d = (value[slot[s]] - (fa[ALICE] + fa[BOB])) % W
         /\ Opened(s, Difference(t)).e = (2 * ran - (fb[ALICE] + fb[BOB])) % W
<1> DEFINE i == slot[s]
<1>1. i \in Slot /\ slot[t] = i
  BY PartyFacts DEF TypeOK, Same, Party
<1>2. (s = ALICE /\ t = BOB) \/ (s = BOB /\ t = ALICE)
  BY DEF Party
<1> HIDE DEF i
<1>3. /\ v[s][i] \in Int /\ v[t][i] \in Int /\ value[i] \in Int /\ ran \in Int
      /\ (v[s][i] + v[t][i]) % W = value[i]
  <2>1. /\ v[ALICE][i] \in Word /\ v[BOB][i] \in Word /\ value[i] \in Field /\ ran \in Word
        /\ (v[ALICE][i] + v[BOB][i]) % W = value[i]
    BY <1>1, ElementFacts
  <2>2. v[ALICE][i] \in Int /\ v[BOB][i] \in Int /\ value[i] \in Int /\ ran \in Int
    <3>1. v[ALICE][i] \in Int /\ v[BOB][i] \in Int /\ ran \in Int
      BY <2>1, WordFacts
    <3>2. value[i] \in Int
      BY <2>1 DEF Field
    <3> QED
      BY <3>1, <3>2
  <2>3. v[BOB][i] + v[ALICE][i] = v[ALICE][i] + v[BOB][i]
    BY <2>2
  <2> QED
    BY <1>2, <2>1, <2>2, <2>3
<1>4. /\ fa[s] \in Int /\ fa[t] \in Int /\ fb[s] \in Int /\ fb[t] \in Int
      /\ fa[s] + fa[t] = fa[ALICE] + fa[BOB] /\ fb[s] + fb[t] = fb[ALICE] + fb[BOB]
  <2>1. fa[s] \in Word /\ fa[t] \in Word /\ fb[s] \in Word /\ fb[t] \in Word
    BY DEF TypeOK
  <2>2. fa[s] \in Int /\ fa[t] \in Int /\ fb[s] \in Int /\ fb[t] \in Int
    BY <2>1, WordFacts
  <2>3. fa[s] + fa[t] = fa[t] + fa[s] /\ fb[s] + fb[t] = fb[t] + fb[s]
    BY <2>2
  <2> QED
    BY <1>2, <2>2, <2>3
<1>5. /\ Opened(s, Difference(t)).d = (((v[s][i] - fa[s]) % W) + ((v[t][i] - fa[t]) % W)) % W
      /\ Opened(s, Difference(t)).e = (((ran - fb[s]) % W) + ((ran - fb[t]) % W)) % W
  BY <1>1 DEF Opened, Difference, i
<1> DEFINE a == fa[ALICE] + fa[BOB]
           b == fb[ALICE] + fb[BOB]
           x == v[s][i] + v[t][i]
<1>6. a \in Int /\ b \in Int /\ x \in Int /\ ran + ran = 2 * ran
  BY <1>3, <1>4
<1>7. /\ (((v[s][i] - fa[s]) % W) + ((v[t][i] - fa[t]) % W)) % W = (x - a) % W
      /\ (((ran - fb[s]) % W) + ((ran - fb[t]) % W)) % W = (2 * ran - b) % W
  <2>1. (((v[s][i] - fa[s]) % W) + ((v[t][i] - fa[t]) % W)) % W = (x - a) % W
    <3> DEFINE d0 == v[s][i] - fa[s]
               d1 == v[t][i] - fa[t]
    <3>1. d0 \in Int /\ d1 \in Int /\ d0 + d1 = x - a
      BY <1>3, <1>4
    <3> HIDE DEF d0, d1
    <3>2. ((d0 % W) + (d1 % W)) % W = (d0 + d1) % W
      BY <3>1, WordFacts, ModSum
    <3> QED
      BY <3>1, <3>2 DEF d0, d1
  <2>2. (((ran - fb[s]) % W) + ((ran - fb[t]) % W)) % W = (2 * ran - b) % W
    <3> DEFINE d0 == ran - fb[s]
               d1 == ran - fb[t]
    <3>1. d0 \in Int /\ d1 \in Int /\ d0 + d1 = 2 * ran - b
      BY <1>3, <1>4
    <3> HIDE DEF d0, d1
    <3>2. ((d0 % W) + (d1 % W)) % W = (d0 + d1) % W
      BY <3>1, WordFacts, ModSum
    <3> QED
      BY <3>1, <3>2 DEF d0, d1
  <2> QED
    BY <2>1, <2>2
<1>8. x % W = value[i]
  BY <1>3
<1> HIDE DEF a, b, x
<1>9. (x - a) % W = (value[i] - a) % W
  <2>1. PICK k \in Int : value[i] = x + k * W
    BY <1>6, <1>8, WordFacts, ModWitness
  <2> DEFINE u == x - a
  <2>2. u \in Int /\ value[i] - a = u + k * W
    <3>1. k * W \in Int
      BY WordFacts
    <3> DEFINE n == k * W
    <3> HIDE DEF n
    <3>2. value[i] = x + n /\ n \in Int
      BY <2>1, <3>1 DEF n
    <3>3. value[i] - a = (x - a) + n
      BY <1>6, <3>2
    <3> QED
      BY <1>6, <3>3 DEF n
  <2> HIDE DEF u
  <2>3. (u + k * W) % W = u % W
    BY <2>2, WordFacts, ModShift
  <2> QED
    BY <2>2, <2>3 DEF u
<1> QED
  BY <1>5, <1>7, <1>9 DEF a, b, i

\* A server that has read the other's differences.
LEMMA ReceiveOpenDifferences ==
  ASSUME TypeOK, SharesOfValue, Stages, NEW s \in Party, ReceiveOpen(s)
  PROVE  Differences(s)'
<1>1. PICK t \in Party : s # t /\ Head(chan[s]) = Difference(t) /\ Same
  <2>1. CASE s = BOB
    <3>1. OpenSent /\ Same
      BY <2>1, StageOf DEF ReceiveOpen
    <3>2. Head(chan[BOB]) = Difference(ALICE)
      BY <3>1, Heads DEF OpenSent
    <3> QED
      BY <2>1, <3>1, <3>2, PartyFacts
  <2>2. CASE s = ALICE
    <3>1. OpenBack /\ Same
      BY <2>2, StageOf DEF ReceiveOpen
    <3>2. Head(chan[ALICE]) = Difference(BOB)
      BY <3>1, Heads DEF OpenBack
    <3> QED
      BY <2>2, <3>1, <3>2, PartyFacts
  <2> QED
    BY <2>1, <2>2 DEF Party
<1> DEFINE o == Opened(s, Difference(t))
<1>2. /\ D' = [D EXCEPT ![s] = o.d] /\ E' = [E EXCEPT ![s] = o.e]
      /\ z' = [z EXCEPT ![s] = Summand(s, o)]
      /\ UNCHANGED <<value, ran, fa, fb, fc, slot>>
  BY <1>1 DEF ReceiveOpen, triple
<1>3. /\ o.d = (value[slot[s]] - (fa[ALICE] + fa[BOB])) % W
      /\ o.e = (2 * ran - (fb[ALICE] + fb[BOB])) % W
  BY <1>1, OpenedValue
<1> HIDE DEF o
<1>4. D'[s] = o.d /\ E'[s] = o.e /\ z'[s] = (o.d * fb[s] + fa[s] * o.e + fc[s]) % W
  BY <1>2 DEF Summand, TypeOK
<1> QED
  BY <1>2, <1>3, <1>4 DEF Differences

\* Nothing disturbs the differences while they are needed.
LEMMA DifferencesStep ==
  ASSUME TypeOK, SharesOfValue, Stages, DifferencesInv, [Next]_vars
  PROVE  DifferencesInv'
<1> SUFFICES ASSUME NEW s \in Party, pc'[s] \in {"summed", "multiplied"}
             PROVE  Differences(s)'
  BY DEF DifferencesInv
<1>1. CASE ReceiveOpen(s)
  BY <1>1, ReceiveOpenDifferences
<1>2. ASSUME ~ReceiveOpen(s)
      PROVE  pc[s] \in {"summed", "multiplied"} /\ ~ReceiveProduct(s)
  <2>1. ReceiveSum(s) => pc[s] = "summed"
    BY DEF ReceiveSum, Awaits
  <2>2. ReceiveProduct(s) => pc'[s] \in {"respond", "open", "opened"}
    <3>1. ReceiveProduct(s) => Step(s, IF Last(s) THEN "respond" ELSE Opening(s))
      BY DEF ReceiveProduct
    <3> QED
      BY <3>1 DEF Step, Opening, TypeOK
  <2> QED
    BY <1>2, <2>1, <2>2, Elsewhere
<1>3. CASE ~ReceiveOpen(s)
  <2>1. Differences(s) /\ pc[s] \in {"summed", "multiplied"} /\ ~ReceiveProduct(s)
    BY <1>2, <1>3 DEF DifferencesInv
  <2>2. ~ReceiveCross /\ ~\E h \in Draws : ReceiveKeys(h)
    <3>1. ReceiveCross => pc[ALICE] = "cross" /\ pc[BOB] = "clear"
      BY StageOf, StagePlaces DEF ReceiveCross
    <3>2. \A h \in Draws : ReceiveKeys(h) => pc[ALICE] = "cross" /\ pc[BOB] = "keys"
      BY StageOf, StagePlaces DEF ReceiveKeys
    <3> QED
      BY <2>1, <3>1, <3>2 DEF Party
  <2>3. UNCHANGED <<value, ran, fa, fb, fc>>
    BY <2>2 DEF Next, vars, SendKeys, ReceiveClear, Barrier, SendOpen, ReceiveOpen, ReceiveSum,
         ReceiveProduct, Respond, Recover, ReceiveSummary, triple
  <2>4. D'[s] = D[s] /\ E'[s] = E[s] /\ z'[s] = z[s] /\ slot'[s] = slot[s]
    <3>1. ASSUME NEW t \in Party, t # s, ReceiveOpen(t) \/ ReceiveProduct(t)
          PROVE  D'[s] = D[s] /\ E'[s] = E[s] /\ z'[s] = z[s] /\ slot'[s] = slot[s]
      BY <3>1 DEF ReceiveOpen, ReceiveProduct, TypeOK
    <3>2. ASSUME ~\E t \in Party : ReceiveOpen(t) \/ ReceiveProduct(t)
          PROVE  UNCHANGED <<D, E, z, slot>>
      BY <3>2 DEF Next, vars, SendKeys, ReceiveKeys, ReceiveCross, ReceiveClear, Barrier, SendOpen,
           ReceiveSum, Respond, Recover, ReceiveSummary, product
    <3> QED
      BY <1>3, <2>1, <3>1, <3>2
  <2> QED
    BY <2>1, <2>3, <2>4 DEF Differences
<1> QED
  BY <1>1, <1>3

\* With a sound triple a server that reads the other's summand has the product.
LEMMA ReceiveSumProduct ==
  ASSUME TypeOK, Stages, TripleUpToBorrow, DifferencesInv, ~Borrowed,
         NEW s \in Party, ReceiveSum(s)
  PROVE  xr'[s] = (value[slot[s]] * (2 * ran)) % W
<1>1. PICK t \in Party : /\ s # t /\ Head(chan[s]).z = z[t] /\ Same
                         /\ Differences(s) /\ Differences(t)
                         /\ pc[ALICE] \notin {"keys", "cross"}
  <2>1. CASE s = BOB
    <3>1. SumSent /\ Same
      BY <2>1, StageOf DEF ReceiveSum
    <3>2. Head(chan[BOB]) = Sum(ALICE)
      BY <3>1, Heads DEF SumSent
    <3>3. pc[ALICE] = "summed" /\ pc[BOB] = "summed"
      BY <3>1, StagePlaces
    <3> QED
      BY <2>1, <3>1, <3>2, <3>3, PartyFacts DEF DifferencesInv, Sum
  <2>2. CASE s = ALICE
    <3>1. SumBack /\ Same
      BY <2>2, StageOf DEF ReceiveSum
    <3>2. Head(chan[ALICE]) = Sum(BOB)
      BY <3>1, Heads DEF SumBack
    <3>3. pc[ALICE] = "summed" /\ pc[BOB] = "multiplied"
      BY <3>1, StagePlaces
    <3> QED
      BY <2>2, <3>1, <3>2, <3>3, PartyFacts DEF DifferencesInv, Sum
  <2> QED
    BY <2>1, <2>2 DEF Party
<1>2. xr'[s] = (D[s] * E[s] + z[s] + z[t]) % W
  BY <1>1 DEF ReceiveSum, TypeOK
<1> DEFINE x == value[slot[s]]
           y == 2 * ran
           a == fa[ALICE] + fa[BOB]
           b == fb[ALICE] + fb[BOB]
           c == fc[ALICE] + fc[BOB]
<1>3. slot[s] = slot[t] /\ ((s = ALICE /\ t = BOB) \/ (s = BOB /\ t = ALICE))
  BY <1>1 DEF Same, Party
<1>4. /\ fa[s] \in Int /\ fa[t] \in Int /\ fb[s] \in Int /\ fb[t] \in Int
      /\ fc[s] \in Int /\ fc[t] \in Int /\ ran \in Int
  <2>1. /\ fa[s] \in Word /\ fa[t] \in Word /\ fb[s] \in Word /\ fb[t] \in Word
        /\ fc[s] \in Word /\ fc[t] \in Word /\ ran \in Word
    BY ResponseAssumption DEF TypeOK
  <2> QED
    BY <2>1, WordFacts
<1>5. x \in Int
  <2>1. value[slot[s]] \in Field
    BY DEF TypeOK
  <2> QED
    BY <2>1 DEF Field
<1>6. fa[s] + fa[t] = a /\ fb[s] + fb[t] = b /\ fc[s] + fc[t] = c
  <2>1. /\ fa[s] + fa[t] = fa[t] + fa[s] /\ fb[s] + fb[t] = fb[t] + fb[s]
        /\ fc[s] + fc[t] = fc[t] + fc[s]
    BY <1>4
  <2> QED
    BY <1>3, <2>1
<1>7. c % W = (a * b) % W
  <2>1. a * b + 0 = a * b
    BY <1>4, <1>6
  <2> QED
    BY <1>1, <2>1 DEF TripleUpToBorrow
<1>8. /\ D[s] = (x - a) % W /\ E[s] = (y - b) % W /\ D[t] = D[s] /\ E[t] = E[s]
      /\ z[s] = (D[s] * fb[s] + fa[s] * E[s] + fc[s]) % W
      /\ z[t] = (D[s] * fb[t] + fa[t] * E[s] + fc[t]) % W
  BY <1>1, <1>3 DEF Differences
<1>9. y \in Int /\ W \in Nat \ {0}
  BY <1>4, WordFacts
<1> HIDE DEF x, y, a, b, c
<1>10. (fc[s] + fc[t]) % W = ((fa[s] + fa[t]) * (fb[s] + fb[t])) % W
  BY <1>6, <1>7
<1>11. (D[s] * E[s] + z[s] + z[t]) % W = (x * y) % W
  <2> DEFINE a0 == fa[s]
             a1 == fa[t]
             b0 == fb[s]
             b1 == fb[t]
             c0 == fc[s]
             c1 == fc[t]
             d == D[s]
             e == E[s]
             s0 == z[s]
             s1 == z[t]
  <2>1. /\ a0 \in Int /\ a1 \in Int /\ b0 \in Int /\ b1 \in Int /\ c0 \in Int /\ c1 \in Int
        /\ (c0 + c1) % W = ((a0 + a1) * (b0 + b1)) % W
    BY <1>4, <1>10
  <2>2. /\ d = (x - (a0 + a1)) % W /\ e = (y - (b0 + b1)) % W
        /\ s0 = (d * b0 + a0 * e + c0) % W /\ s1 = (d * b1 + a1 * e + c1) % W
    BY <1>6, <1>8
  <2> HIDE DEF a0, a1, b0, b1, c0, c1, d, e, s0, s1
  <2>3. (d * e + s0 + s1) % W = (x * y) % W
    <3>1. Multiplication(W, x, y, a0, a1, b0, b1, c0, c1, d, e, s0, s1)
      BY <1>5, <1>9, <2>1, <2>2 DEF Multiplication
    <3> QED
      BY <3>1, BeaverProduct
  <2> QED
    BY <2>3 DEF d, e, s0, s1
<1> QED
  BY <1>2, <1>11 DEF x, y

\* What is a sound triple after a step was one before.
LEMMA BorrowedStep ==
  ASSUME TypeOK, Stages, [Next]_vars, pc[BOB] # "keys"
  PROVE  Borrowed' = Borrowed
<1>1. ~\E h \in Draws : ReceiveKeys(h)
  BY DEF ReceiveKeys, Awaits
<1>2. UNCHANGED <<fa, fb, r>>
  BY <1>1 DEF Next, vars, SendKeys, ReceiveCross, ReceiveClear, Barrier, SendOpen, ReceiveOpen,
       ReceiveSum, ReceiveProduct, Respond, Recover, ReceiveSummary, triple
<1> QED
  BY <1>2 DEF Borrowed

\* Nothing disturbs the products while they are needed.
LEMMA ProductStep ==
  ASSUME TypeOK, Stages, TripleUpToBorrow, DifferencesInv, ProductInv, [Next]_vars
  PROVE  ProductInv'
<1> SUFFICES ASSUME NEW s \in Party, pc'[s] = "multiplied", ~Borrowed'
             PROVE  xr'[s] = (value'[slot'[s]] * (2 * ran')) % W
  BY DEF ProductInv
<1>1. value' = value /\ ran' = ran
  BY DEF Next, vars, SendKeys, ReceiveKeys, ReceiveCross, ReceiveClear, Barrier, SendOpen,
       ReceiveOpen, ReceiveSum, ReceiveProduct, Respond, Recover, ReceiveSummary
<1>2. CASE ReceiveSum(s)
  <2>1. pc[BOB] # "keys"
    BY <1>2, StageOf, StagePlaces DEF ReceiveSum, Party
  <2>2. slot' = slot
    BY <1>2 DEF ReceiveSum
  <2> QED
    BY <1>1, <1>2, <2>1, <2>2, BorrowedStep, ReceiveSumProduct
<1>3. CASE ~ReceiveSum(s)
  <2>1. ~ReceiveOpen(s)
    <3>1. ReceiveOpen(s) => pc'[s] = "summed"
      BY DEF ReceiveOpen, Step, TypeOK
    <3> QED
      BY <3>1
  <2>2. pc[s] = "multiplied"
    BY <1>3, <2>1, Elsewhere
  <2>3. ~ReceiveProduct(s)
    <3>1. ReceiveProduct(s) => Step(s, IF Last(s) THEN "respond" ELSE Opening(s))
      BY DEF ReceiveProduct
    <3> QED
      BY <3>1 DEF Step, Opening, TypeOK
  <2>4. xr'[s] = xr[s] /\ slot'[s] = slot[s]
    <3>1. ASSUME NEW t \in Party, t # s, ReceiveSum(t) \/ ReceiveProduct(t)
          PROVE  xr'[s] = xr[s] /\ slot'[s] = slot[s]
      BY <3>1 DEF ReceiveSum, ReceiveProduct, TypeOK
    <3>2. ASSUME ~\E t \in Party : ReceiveSum(t) \/ ReceiveProduct(t)
          PROVE  UNCHANGED <<xr, slot>>
      BY <3>2 DEF Next, vars, SendKeys, ReceiveKeys, ReceiveCross, ReceiveClear, Barrier, SendOpen,
           ReceiveOpen, Respond, Recover, ReceiveSummary, product
    <3> QED
      BY <1>3, <2>3, <3>1, <3>2
  <2>5. pc[BOB] # "keys"
    BY <2>2, StagePlaces DEF Stages, Party
  <2>6. xr[s] = (value[slot[s]] * (2 * ran)) % W
    BY <2>2, <2>5, BorrowedStep DEF ProductInv
  <2> QED
    BY <1>1, <2>4, <2>6
<1> QED
  BY <1>2, <1>3

-----------------------------------------------------------------------------
(* The kept slots and what is said of them. *)

\* BOB drops an element when four times it and the mask is zero.
LEMMA DroppedMeans ==
  ASSUME TypeOK, Stages, ProductInv, ~Borrowed, ReceiveProduct(BOB)
  PROVE  Dropped(BOB, Head(chan[BOB])) <=> ~Shown(slot[BOB])
<1>1. ProductSent /\ Same
  BY StageOf DEF ReceiveProduct
<1>2. Head(chan[BOB]).x = xr[ALICE]
  <2>1. Head(chan[BOB]) = Product(ALICE)
    BY <1>1, Heads DEF ProductSent
  <2> QED
    BY <2>1 DEF Product
<1>3. pc[ALICE] = "multiplied" /\ pc[BOB] = "multiplied"
  BY <1>1, StagePlaces
<1> DEFINE x == value[slot[BOB]]
           y == x * (2 * ran)
<1>4. x \in Int /\ ran \in Int /\ y \in Int
  <2>1. value[slot[BOB]] \in Field /\ ran \in Word
    BY PartyFacts, ResponseAssumption DEF TypeOK
  <2>2. x \in Int /\ ran \in Int
    <3>1. ran \in Int
      BY <2>1, WordFacts
    <3>2. x \in Int
      BY <2>1 DEF Field
    <3> QED
      BY <3>1, <3>2
  <2> HIDE DEF x
  <2> QED
    BY <2>2, Z3
<1>5. xr[ALICE] = y % W /\ xr[BOB] = y % W
  BY <1>1, <1>3, PartyFacts DEF ProductInv, Same
<1>6. y + y = 4 * ran * x
  <2> HIDE DEF x
  <2> QED
    BY <1>4, Z3
<1>7. (xr[BOB] + xr[ALICE]) % W = (4 * ran * x) % W
  <2> HIDE DEF y
  <2> QED
    <3>1. ((y % W) + (y % W)) % W = (y + y) % W
      BY <1>4, WordFacts, ModSum
    <3> QED
      BY <1>5, <1>6, <3>1
<1> QED
  BY <1>2, <1>7 DEF Dropped, Shown

\* A slot that is larger than all in the list goes to its end.
LEMMA AppendInOrder ==
  ASSUME NEW S, S \subseteq Nat, NEW q \in Seq(Slot), InOrder(q, S), NEW i \in Slot,
         \A j \in S : j < i
  PROVE  InOrder(Append(q, i), S \cup {i})
<1> DEFINE t == Append(q, i)
           n == Len(q)
<1>1. /\ n \in Nat /\ Len(t) = n + 1 /\ t[n + 1] = i
      /\ \A j \in 1 .. n : t[j] = q[j] /\ q[j] \in S
  BY DEF InOrder
<1>2. S = {q[j] : j \in 1 .. n} /\ \A j, k \in 1 .. n : j < k => q[j] < q[k]
  BY DEF InOrder
<1> HIDE DEF t, n
<1>3. {t[j] : j \in 1 .. n + 1} = S \cup {i}
  <2>1. \A j \in 1 .. n + 1 : t[j] \in S \cup {i}
    BY <1>1
  <2>2. ASSUME NEW e \in S
        PROVE  \E j \in 1 .. n + 1 : t[j] = e
    <3>1. PICK j \in 1 .. n : q[j] = e
      BY <1>2
    <3> QED
      BY <1>1, <3>1
  <2>3. n + 1 \in 1 .. n + 1
    BY <1>1
  <2> QED
    BY <1>1, <2>1, <2>2, <2>3
<1>4. ASSUME NEW j \in 1 .. n + 1, NEW k \in 1 .. n + 1, j < k
      PROVE  t[j] < t[k]
  <2>1. CASE k = n + 1
    <3>1. j \in 1 .. n
      BY <1>1, <1>4, <2>1
    <3> QED
      BY <1>1, <2>1, <3>1
  <2>2. CASE k # n + 1
    <3>1. j \in 1 .. n /\ k \in 1 .. n
      BY <1>1, <1>4, <2>2
    <3> QED
      BY <1>1, <1>2, <1>4, <3>1
  <2> QED
    BY <2>1, <2>2
<1> QED
  BY <1>1, <1>3, <1>4 DEF InOrder, t

\* BOB treats an element.
LEMMA ReceiveProductSlots ==
  ASSUME TypeOK, Stages, ProductInv, SlotsInv, ~Borrowed, ReceiveProduct(BOB)
  PROVE  SlotsInv'
<1> DEFINE i == slot[BOB]
           before == {j \in Slot : j < i}
           S == {j \in before : Shown(j)}
<1>1. pc[BOB] = "multiplied"
  BY DEF ReceiveProduct, Awaits
<1>2. i \in Slot /\ i \in Nat /\ N \in Nat
  BY PartyFacts, ResponseAssumption DEF TypeOK, Slot
<1>3. InOrder(sig[BOB], S)
  <2>1. Treated = before
    BY <1>1 DEF Treated
  <2> QED
    BY <2>1 DEF SlotsInv
<1>4. /\ slot' = [slot EXCEPT ![BOB] = IF Last(BOB) THEN i ELSE i + 1]
      /\ Step(BOB, IF Last(BOB) THEN "respond" ELSE "opened")
      /\ value' = value /\ ran' = ran
  BY PartyFacts DEF ReceiveProduct, Opening
<1>5. \A j \in Slot : Shown(j)' <=> Shown(j)
  BY <1>4 DEF Shown
<1>6. Treated' = before \cup {i}
  <2>1. CASE Last(BOB)
    <3>1. pc'[BOB] = "respond" /\ i + 1 >= N
      BY <1>4, <2>1, PartyFacts DEF Step, TypeOK, Last
    <3>2. \A j \in Slot : j < i \/ j = i
      BY <1>2, <3>1 DEF Slot
    <3> QED
      BY <1>2, <3>1, <3>2 DEF Treated
  <2>2. CASE ~Last(BOB)
    <3>1. pc'[BOB] = "opened" /\ slot'[BOB] = i + 1
      BY <1>4, <2>2, PartyFacts DEF Step, TypeOK
    <3>2. \A j \in Slot : j < i + 1 <=> (j < i \/ j = i)
      BY <1>2 DEF Slot
    <3> QED
      BY <1>2, <3>1, <3>2 DEF Treated
  <2> QED
    BY <2>1, <2>2
<1> DEFINE T == {j \in Treated' : Shown(j)'}
<1>7. T = IF Shown(i) THEN S \cup {i} ELSE S
  <2>1. before \subseteq Slot
    OBVIOUS
  <2> QED
    BY <1>2, <1>5, <1>6, <2>1
<1>8. /\ S \subseteq Nat /\ \A j \in S : j < i
  BY <1>2 DEF Slot
<1> HIDE DEF S, T, before
<1>9. InOrder(sig'[BOB], T)
  <2>1. CASE Shown(i)
    <3>1. ~Dropped(BOB, Head(chan[BOB]))
      BY <2>1, DroppedMeans
    <3>2. sig'[BOB] = Append(sig[BOB], i)
      BY <3>1, PartyFacts DEF ReceiveProduct, TypeOK
    <3>3. sig[BOB] \in Seq(Slot)
      BY PartyFacts DEF TypeOK
    <3>4. InOrder(Append(sig[BOB], i), S \cup {i})
      <4> HIDE DEF i
      <4> QED
        BY <1>2, <1>3, <1>8, <3>3, AppendInOrder
    <3> QED
      BY <1>7, <2>1, <3>2, <3>4
  <2>2. CASE ~Shown(i)
    <3>1. Dropped(BOB, Head(chan[BOB]))
      BY <2>2, DroppedMeans
    <3>2. sig' = sig
      BY <3>1 DEF ReceiveProduct
    <3> QED
      BY <1>3, <1>7, <2>2, <3>2
  <2> QED
    BY <2>1, <2>2
<1> QED
  BY <1>9 DEF SlotsInv, InOrder, T

\* Only BOB's ReceiveProduct treats an element for him.
LEMMA SlotsStep ==
  ASSUME TypeOK, Stages, KeptInv, ProductInv, SlotsInv, [Next]_vars
  PROVE  SlotsInv'
<1>1. CASE ReceiveProduct(BOB)
  <2>1. pc[BOB] = "multiplied"
    BY <1>1 DEF ReceiveProduct, Awaits
  <2>2. pc'[BOB] # "keys"
    <3>1. Step(BOB, IF Last(BOB) THEN "respond" ELSE Opening(BOB))
      BY <1>1 DEF ReceiveProduct
    <3> QED
      BY <3>1, PartyFacts DEF Step, Opening, TypeOK
  <2>3. CASE Borrowed
    BY <2>1, <2>2, <2>3, BorrowedStep DEF SlotsInv
  <2> QED
    BY <1>1, <2>3, ReceiveProductSlots
<1>2. CASE ~ReceiveProduct(BOB)
  <2>1. sig'[BOB] = sig[BOB] /\ slot'[BOB] = slot[BOB] /\ value' = value /\ ran' = ran
    <3>1. ASSUME ReceiveProduct(ALICE)
          PROVE  sig'[BOB] = sig[BOB] /\ slot'[BOB] = slot[BOB] /\ value' = value /\ ran' = ran
      BY <3>1, PartyFacts DEF ReceiveProduct, TypeOK
    <3>2. ASSUME ~\E s \in Party : ReceiveProduct(s)
          PROVE  UNCHANGED <<sig, slot, value, ran>>
      BY <3>2 DEF Next, vars, SendKeys, ReceiveKeys, ReceiveCross, ReceiveClear, Barrier, SendOpen,
           ReceiveOpen, ReceiveSum, Respond, Recover, ReceiveSummary, product
    <3> QED
      BY <1>2, <3>1, <3>2 DEF Party
  <2>2. pc'[BOB] \in {"respond", "done"} <=> pc[BOB] \in {"respond", "done"}
    <3>1. CASE Recover
      <4>1. Step(BOB, "done") \/ Step(BOB, "thrown")
        BY <3>1 DEF Recover
      <4>2. pc[BOB] = "respond"
        BY <3>1 DEF Recover, Awaits
      <4>3. ~Step(BOB, "thrown")
        <5>1. Step(BOB, "done")
          BY <3>1, RecoverDoes
        <5> QED
          BY <5>1, PartyFacts DEF Step, TypeOK
      <4> QED
        BY <4>1, <4>2, <4>3, PartyFacts DEF Step, TypeOK
    <3>2. CASE ~Recover
      <4> DEFINE middle == {"clear", "barrier", "opened", "summed", "multiplied"}
      <4>1. \/ UNCHANGED vars
            \/ \E l \in Places : Step(ALICE, l)
            \/ \E l \in middle : Step(BOB, l) /\ pc[BOB] \notin {"respond", "done"}
        BY <1>2, <3>2, PartyFacts DEF Next, SendKeys, ReceiveKeys, ReceiveCross, ReceiveClear,
             Barrier, SendOpen, ReceiveOpen, ReceiveSum, ReceiveProduct, Respond,
             ReceiveSummary, Places, Opening, Awaits, Party
      <4>2. UNCHANGED vars => pc' = pc
        BY DEF vars
      <4>3. ASSUME NEW l \in Places, Step(ALICE, l)
            PROVE  pc'[BOB] = pc[BOB]
        BY <4>3, PartyFacts DEF Step, TypeOK
      <4>4. ASSUME NEW l \in middle, Step(BOB, l)
            PROVE  pc'[BOB] = l
        BY <4>4, PartyFacts DEF Step, TypeOK
      <4> QED
        BY <4>1, <4>2, <4>3, <4>4
    <3> QED
      BY <3>1, <3>2
  <2>3. {i \in Treated : Shown(i)}' = {i \in Treated : Shown(i)}
    BY <2>1, <2>2 DEF Treated, Shown
  <2>4. pc'[BOB] = "keys" \/ ~Borrowed' => pc[BOB] = "keys" \/ ~Borrowed
    <3>1. pc[BOB] # "keys" => pc'[BOB] # "keys"
      <4>1. \/ UNCHANGED vars
            \/ \E s \in Party, l \in Places \ {"keys"} : Step(s, l)
        BY PartyFacts DEF Next, SendKeys, ReceiveKeys, ReceiveCross, ReceiveClear, Barrier,
             SendOpen, ReceiveOpen, ReceiveSum, ReceiveProduct, Respond, Recover,
             ReceiveSummary, Places, Opening
      <4>2. UNCHANGED vars => pc' = pc
        BY DEF vars
      <4>3. ASSUME NEW s \in Party, NEW l \in Places \ {"keys"}, Step(s, l)
            PROVE  pc[BOB] # "keys" => pc'[BOB] # "keys"
        BY <4>3, PartyFacts DEF Step, TypeOK
      <4> QED
        BY <4>1, <4>2, <4>3
    <3> QED
      BY <3>1, BorrowedStep
  <2>5. InOrder(sig[BOB], {i \in Treated : Shown(i)}) =>
          InOrder(sig[BOB], {i \in Treated : Shown(i)})'
    BY <2>1, <2>3 DEF InOrder
  <2> QED
    BY <2>4, <2>5 DEF SlotsInv
<1> QED
  BY <1>1, <1>2

\* BOB's verdict on the slots compares with the elements.
LEMMA RecoverVerdict ==
  ASSUME TypeOK, SharesOfValue, Stages, KeptInv, VerdictInv, Recover
  PROVE  VerdictInv'
<1>1. verdict'[BOB] = Said(Sums, v[ALICE]) /\ pc'[BOB] = "done" /\ pc'[ALICE] = pc[ALICE]
  <2>1. verdict' = [verdict EXCEPT ![BOB] = Said(Sums, v[ALICE])] /\ Step(BOB, "done")
    BY RecoverDoes
  <2> QED
    BY <2>1, PartyFacts DEF Step, TypeOK
<1>2. pc[ALICE] = "verdict"
  BY RecoverReads, StagePlaces
<1>3. sig' = sig /\ value' = value
  BY DEF Recover, product
<1>4. {i \in Slot : (v[BOB][i] + v[ALICE][i]) % W # 0} = {i \in Slot : value[i] # 0}
  <2>1. \A i \in Slot : v[BOB][i] + v[ALICE][i] = v[ALICE][i] + v[BOB][i]
    BY ElementFacts, WordFacts
  <2> QED
    BY <2>1 DEF SharesOfValue
<1>5. verdict'[BOB].indices = InOrder(sig[BOB], {i \in Slot : value[i] # 0})
  <2>1. Said(Sums, v[ALICE]).indices
          = InOrder(sig[BOB], {i \in Slot : (v[BOB][i] + v[ALICE][i]) % W # 0})
    BY DEF Said
  <2> QED
    BY <1>1, <1>4, <2>1, Zenon
<1> QED
  BY <1>1, <1>2, <1>3, <1>5 DEF VerdictInv, InOrder

\* The verdicts are given once.
LEMMA VerdictStep ==
  ASSUME TypeOK, SharesOfValue, Stages, KeptInv, VerdictInv, [Next]_vars
  PROVE  VerdictInv'
<1>1. CASE Recover
  BY <1>1, RecoverVerdict
<1>2. CASE ReceiveSummary
  <2>1. SummarySent
    BY <1>2, StageOf DEF ReceiveSummary
  <2>2. Head(chan[ALICE]).said = verdict[BOB] /\ pc[BOB] = "done"
    BY <2>1, Heads, StagePlaces DEF SummarySent, Summary
  <2>3. verdict'[ALICE] = verdict[BOB] /\ verdict'[BOB] = verdict[BOB] /\ pc'[BOB] = pc[BOB]
    BY <1>2, <2>2, PartyFacts DEF ReceiveSummary, TypeOK, Step
  <2>4. sig' = sig /\ value' = value
    BY <1>2 DEF ReceiveSummary, product
  <2> QED
    BY <2>2, <2>3, <2>4 DEF VerdictInv, InOrder
<1>3. CASE ~Recover /\ ~ReceiveSummary
  <2>1. verdict' = verdict /\ value' = value
    BY <1>3 DEF Next, vars, SendKeys, ReceiveKeys, ReceiveCross, ReceiveClear, Barrier, SendOpen,
         ReceiveOpen, ReceiveSum, ReceiveProduct, Respond, result
  <2>2. \A s \in Party : pc'[s] = "done" => pc[s] = "done"
    <3>1. \/ UNCHANGED vars
          \/ \E s \in Party, l \in Places \ {"done"} : Step(s, l)
      BY <1>3, PartyFacts DEF Next, SendKeys, ReceiveKeys, ReceiveCross, ReceiveClear, Barrier,
           SendOpen, ReceiveOpen, ReceiveSum, ReceiveProduct, Respond, Places, Opening
    <3>2. UNCHANGED vars => pc' = pc
      BY DEF vars
    <3>3. ASSUME NEW t \in Party, NEW l \in Places \ {"done"}, Step(t, l)
          PROVE  \A s \in Party : pc'[s] = "done" => pc[s] = "done"
      BY <3>3 DEF Step, TypeOK
    <3> QED
      BY <3>1, <3>2, <3>3
  <2>3. pc[BOB] = "done" => sig' = sig /\ pc'[BOB] = "done"
    <3>1. ASSUME pc[BOB] = "done"
          PROVE  \A s \in Party : ~ReceiveProduct(s)
      <4>1. pc[ALICE] \in {"verdict", "done"}
        BY <3>1, StagePlaces DEF Stages
      <4> QED
        BY <3>1, <4>1 DEF ReceiveProduct, Awaits, Party
    <3>2. ASSUME pc[BOB] = "done"
          PROVE  sig' = sig
      BY <1>3, <3>1, <3>2 DEF Next, vars, SendKeys, ReceiveKeys, ReceiveCross, ReceiveClear,
           Barrier, SendOpen, ReceiveOpen, ReceiveSum, Respond, product
    <3>3. ASSUME pc[BOB] = "done"
          PROVE  pc'[BOB] = "done"
      <4>1. UNCHANGED vars \/ \E l \in Places : Step(ALICE, l)
        BY <1>3, <3>1, <3>3, PartyFacts DEF Next, SendKeys, ReceiveKeys, ReceiveCross, ReceiveClear,
             Barrier, SendOpen, ReceiveOpen, ReceiveSum, Respond, Places, Opening, Awaits, Party
      <4>2. ASSUME NEW l \in Places, Step(ALICE, l)
            PROVE  pc'[BOB] = pc[BOB]
        BY <4>2, PartyFacts DEF Step, TypeOK
      <4> QED
        BY <3>3, <4>1, <4>2 DEF vars
    <3> QED
      BY <3>2, <3>3
  <2> QED
    BY <2>1, <2>2, <2>3, PartyFacts DEF VerdictInv, InOrder
<1> QED
  BY <1>1, <1>2, <1>3

-----------------------------------------------------------------------------
(* The inductive invariant and what follows from it. *)

\* The initial states.
LEMMA InitInv == Init => Inv
<1> SUFFICES ASSUME Init
             PROVE  Inv
  OBVIOUS
<1> DEFINE m == v[ALICE]
<1>1. m \in [Slot -> Word] /\ v \in [Party -> [Slot -> Word]] /\ SharesOfValue
  <2>1. PICK q \in [Slot -> Masks] :
               v = [s \in Party |-> [i \in Slot |->
                      IF s = ALICE THEN q[i] ELSE (value[i] - q[i]) % W]]
    BY DEF Init
  <2>2. \A i \in Slot : q[i] \in Word /\ value[i] \in Field /\ (value[i] - q[i]) % W \in Word
    <3> TAKE i \in Slot
    <3>1. q[i] \in Word /\ value[i] \in Field
      BY ResponseAssumption DEF Init
    <3>2. value[i] - q[i] \in Int
      BY <3>1 DEF Word, Field
    <3> QED
      BY <3>1, <3>2, WordFacts
  <2>3. \A i \in Slot : v[ALICE][i] = q[i] /\ v[BOB][i] = (value[i] - q[i]) % W
    BY <2>1, PartyFacts
  <2>4. v \in [Party -> [Slot -> Word]]
    BY <2>1, <2>2
  <2>5. ASSUME NEW i \in Slot
        PROVE  (v[ALICE][i] + v[BOB][i]) % W = value[i]
    <3> DEFINE a == q[i]
               e == value[i]
               k == e - a
    <3>1. a \in Word /\ e \in Field /\ v[ALICE][i] = a /\ v[BOB][i] = k % W
      BY <2>2, <2>3
    <3> HIDE DEF a, e
    <3>2. a \in Int /\ k \in Int /\ a + k = e /\ a \in 0 .. W - 1 /\ e \in 0 .. W - 1
      BY <3>1, WordFacts DEF Word, Field
    <3> HIDE DEF k
    <3>3. ((a % W) + (k % W)) % W = (a + k) % W
      BY <3>2, WordFacts, ModSum
    <3>4. a % W = a /\ e % W = e
      BY <3>2, WordFacts, ModSmall
    <3>5. (v[ALICE][i] + v[BOB][i]) % W = e
      BY <3>1, <3>2, <3>3, <3>4
    <3> QED
      BY <3>5 DEF e
  <2> QED
    BY <2>4, <2>5, PartyFacts DEF SharesOfValue
<1>2. TypeOK
  <2>1. /\ fa \in [Party -> Word] /\ fb \in [Party -> Word] /\ ran \in Rans
        /\ value \in [Slot -> Field]
    BY ResponseAssumption DEF Init
  <2>2. /\ fc \in [Party -> Word] /\ D \in [Party -> Word] /\ E \in [Party -> Word]
        /\ z \in [Party -> Word] /\ xr \in [Party -> Word] /\ r \in Word
        /\ slot \in [Party -> Slot]
    BY WordFacts DEF Init
  <2>3. sig \in [Party -> Seq(Slot)] /\ shares \in [Party -> Seq(Field)] /\ recovered \in Seq(Field)
    BY DEF Init
  <2>4. verdict \in [Party -> [exact : BOOLEAN, indices : BOOLEAN]]
    BY DEF Init, Unknown
  <2>5. pc \in [Party -> Places]
    BY DEF Init, Places
  <2> QED
    BY <1>1, <2>1, <2>2, <2>3, <2>4, <2>5 DEF TypeOK, Places
<1>3. KeptInv
  BY DEF Init, KeptInv
<1>4. RecoveredInv /\ TripleUpToBorrow
  BY PartyFacts DEF Init, RecoveredInv, TripleUpToBorrow
<1>5. Stages
  <2>1. pc = Pair("keys", "keys") /\ chan = Pair(<<>>, <<>>)
    BY DEF Init, Pair
  <2>2. Same
    BY PartyFacts DEF Init, Same
  <2> QED
    BY <2>1, <2>2 DEF Stages, AtStart, Place
<1>6. DifferencesInv /\ ProductInv /\ VerdictInv
  BY PartyFacts DEF Init, DifferencesInv, ProductInv, VerdictInv
<1>7. SlotsInv
  <2>1. sig[BOB] = <<>> /\ slot[BOB] = 0 /\ pc[BOB] = "keys"
    BY PartyFacts DEF Init
  <2>2. Treated = {}
    BY <2>1 DEF Treated, Slot
  <2> QED
    BY <2>1, <2>2 DEF SlotsInv, InOrder
<1> QED
  BY <1>1, <1>2, <1>3, <1>4, <1>5, <1>6, <1>7 DEF Inv

\* The step.
LEMMA NextInv == Inv /\ [Next]_vars => Inv'
<1> SUFFICES ASSUME Inv, [Next]_vars
             PROVE  Inv'
  OBVIOUS
<1> USE DEF Inv
<1>1. TypeOK'
  BY TypesStep
<1>2. SharesOfValue' /\ KeptInv'
  BY SharesStep, KeptStep
<1>3. RecoveredInv'
  BY RecoveredStep
<1>4. TripleUpToBorrow'
  BY TripleStep
<1>5. Stages'
  BY StagesStep
<1>6. DifferencesInv' /\ ProductInv'
  BY DifferencesStep, ProductStep
<1>7. SlotsInv' /\ VerdictInv'
  BY SlotsStep, VerdictStep
<1> QED
  BY <1>1, <1>2, <1>3, <1>4, <1>5, <1>6, <1>7

\* The stages of a run and the numbers in them hold whatever the constants are.
THEOREM StagesInductive == Spec => []Inv
BY InitInv, NextInv, PTL DEF Spec

\* Every variable of the two servers keeps its type.
THEOREM TypeCorrect == Spec => []TypeOK
<1>1. Inv => TypeOK
  BY DEF Inv
<1> QED
  BY <1>1, StagesInductive, PTL

\* BTGen's triple multiplies up to the borrow of BOB's share, for every word
\* size, every Paillier modulus above 3 * 4^w and every draw.
THEOREM TripleMultiplies == Spec => []TripleUpToBorrow
<1>1. Inv => TripleUpToBorrow
  BY DEF Inv
<1> QED
  BY <1>1, StagesInductive, PTL

\* The servers never keep different slots and the recipient never refuses.
THEOREM SlotsAgree == Spec => []SameSlots
<1>1. Inv => SameSlots
  <2> SUFFICES ASSUME Inv
               PROVE  SameSlots
    OBVIOUS
  <2>1. CASE ProductBack
    <3>1. pc[ALICE] = "multiplied" /\ pc[BOB] \in {"respond", "opened"}
      BY <2>1, StagePlaces
    <3> QED
      BY <3>1 DEF SameSlots, Party
  <2>2. CASE ~ProductBack
    <3>1. Same
      BY <2>2 DEF Inv, Stages
    <3>2. pc[ALICE] # "thrown" /\ pc[BOB] # "thrown"
      BY <2>2, StagePlaces DEF Inv, Stages
    <3> QED
      BY <3>1, <3>2 DEF Same, SameSlots, Party
  <2> QED
    BY <2>1, <2>2
<1> QED
  BY <1>1, StagesInductive, PTL

\* What the recipient decodes is the element, too large by 2^w mod p where its
\* shares wrap.
THEOREM RecoveredValues == Spec => []RecoveredUpToWrap
<1>1. Inv => RecoveredUpToWrap
  <2> SUFFICES ASSUME Inv, Done, NEW j \in 1 .. Len(recovered)
               PROVE  recovered[j] = (value[sig[BOB][j]]
                                      + IF Wrapped(sig[BOB][j]) THEN W ELSE 0) % p
    BY DEF RecoveredUpToWrap
  <2> DEFINE i == sig[BOB][j]
  <2>1. pc[BOB] = "done"
    BY DEF Done, Party
  <2>2. recovered[j] = ((v[ALICE][i] % p) + (v[BOB][i] % p)) % p /\ j \in 1 .. Len(sig[BOB])
    BY <2>1 DEF Inv, RecoveredInv
  <2>3. i \in Slot
    BY <2>2, PartyFacts DEF Inv, TypeOK
  <2>4. /\ value[i] \in Field /\ v[ALICE][i] \in Word /\ v[BOB][i] \in Word
        /\ (v[ALICE][i] + v[BOB][i]) % W = value[i]
    BY <2>3, PartyFacts DEF Inv, TypeOK, SharesOfValue
  <2> HIDE DEF i
  <2>5. ((v[ALICE][i] % p) + (v[BOB][i] % p)) % p
          = (value[i] + IF v[ALICE][i] + v[BOB][i] >= W THEN W ELSE 0) % p
    BY <2>4, FieldSum
  <2>6. recovered[j] = (value[i] + IF Wrapped(i) THEN W ELSE 0) % p
    BY <2>2, <2>5 DEF Wrapped
  <2> QED
    BY <2>6 DEF i
<1> QED
  BY <1>1, StagesInductive, PTL

\* With a sound triple and a mask that four does not divide, no element is lost
\* in the compression and none that is zero is kept: for every word of a power
\* of two, every field below an eighth of it and every vector.
THEOREM MaskExact == Spec => []MaskKeepsAll
<1>1. Inv => MaskKeepsAll
  <2> SUFFICES ASSUME Inv, Done, ~Borrowed, ran % 4 # 0
               PROVE  verdict[ALICE].indices /\ InOrder(sig[ALICE], {i \in Slot : value[i] # 0})
    BY DEF MaskKeepsAll
  <2>1. pc[ALICE] = "done" /\ pc[BOB] = "done" /\ Same
    BY StageOf, PartyFacts DEF Inv, Done
  <2>2. ran \in Nat
    BY WordFacts, ResponseAssumption DEF Inv, TypeOK
  <2>3. \A i \in Slot : Shown(i) <=> value[i] # 0
    <3> TAKE i \in Slot
    <3>1. value[i] \in Nat /\ value[i] < p /\ p \in Nat
      <4>1. value[i] \in Field /\ p \in Nat \ {0}
        BY WordFacts DEF Inv, TypeOK
      <4> QED
        BY <4>1 DEF Field
    <3> QED
      BY <2>2, <3>1, NothingHidden DEF Shown
  <2>4. {i \in Treated : Shown(i)} = {i \in Slot : value[i] # 0}
    BY <2>1, <2>3 DEF Treated
  <2>5. InOrder(sig[BOB], {i \in Slot : value[i] # 0})
    BY <2>4 DEF Inv, SlotsInv
  <2> QED
    BY <2>1, <2>5 DEF Inv, VerdictInv, Same
<1> QED
  BY <1>1, StagesInductive, PTL
=============================================================================
