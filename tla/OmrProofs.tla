------------------------------ MODULE OmrProofs ------------------------------
(***************************************************************************)
(* Theorems about detection in the OMR baseline, for every number of       *)
(* slots, length of a key, modulus of the form 2^k + 1, clues, noise and   *)
(* interleaving of the workers.                                            *)
(*                                                                         *)
(* The sums and products of OmrDetect are loops modulo P.  A sum over the  *)
(* entries in a ring may begin anywhere (SumTurned), so that the products  *)
(* of the turning key are the inner product (InnerTurned); powers multiply *)
(* (PowerSplit), so that baby and giant steps are powers and the check of  *)
(* Paterson and Stockmeyer is the polynomial (CheckIsPolynomial).          *)
(***************************************************************************)
EXTENDS Omr, WellFoundedInduction, TLAPS

-----------------------------------------------------------------------------
(* Arithmetic modulo m. *)

\* A number with the digits q and k.
LEMMA ModDigit ==
  ASSUME NEW q \in Int, NEW m \in Nat \ {0}, NEW k \in 0 .. m - 1
  PROVE  (q * m + k) % m = k
BY Z3

\* The digit above it.
LEMMA DivDigit ==
  ASSUME NEW q \in Int, NEW m \in Nat \ {0}, NEW k \in 0 .. m - 1
  PROVE  (q * m + k) \div m = q
BY Z3

\* Quotient and remainder.
LEMMA ModSplit ==
  ASSUME NEW k \in Int, NEW m \in Nat \ {0}
  PROVE  /\ k \div m \in Int /\ k % m \in 0 .. m - 1
         /\ k = (k \div m) * m + (k % m)
<1>1. k % m \in 0 .. m - 1
  BY Z3
<1>2. k \div m \in Int
  BY Z3
<1>3. k = (k \div m) * m + (k % m)
  BY Z3
<1> QED
  BY <1>1, <1>2, <1>3

\* Sums may be reduced before or after.
LEMMA ModSum ==
  ASSUME NEW a \in Int, NEW b \in Int, NEW m \in Nat \ {0}
  PROVE  ((a % m) + (b % m)) % m = (a + b) % m
<1> DEFINE s == a % m
           t == b % m
           i == a \div m
           j == b \div m
<1>1. s \in 0 .. m - 1 /\ t \in 0 .. m - 1 /\ i \in Int /\ j \in Int
  BY ModSplit
<1>2. a = i * m + s /\ b = j * m + t
  BY ModSplit
<1> HIDE DEF s, t, i, j
<1>3. i * m \in Int /\ j * m \in Int /\ (i + j) * m = i * m + j * m
      /\ (i + j + 1) * m = i * m + j * m + m /\ 0 * m = 0 /\ 1 * m = m
  BY <1>1, Z3
<1>4. CASE s + t < m
  <2>1. s + t \in 0 .. m - 1 /\ i + j \in Int /\ 0 \in Int
    BY <1>1, <1>4
  <2>2. a + b = (i + j) * m + (s + t) /\ s + t = 0 * m + (s + t)
    BY <1>1, <1>2, <1>3
  <2>3. (a + b) % m = s + t /\ (s + t) % m = s + t
    BY <2>1, <2>2, ModDigit
  <2> QED
    BY <2>3 DEF s, t
<1>5. CASE s + t >= m
  <2>1. s + t - m \in 0 .. m - 1 /\ i + j + 1 \in Int /\ 1 \in Int
    BY <1>1, <1>5
  <2>2. a + b = (i + j + 1) * m + (s + t - m) /\ s + t = 1 * m + (s + t - m)
    BY <1>1, <1>2, <1>3
  <2>3. (a + b) % m = s + t - m /\ (s + t) % m = s + t - m
    BY <2>1, <2>2, ModDigit
  <2> QED
    BY <2>3 DEF s, t
<1> QED
  BY <1>1, <1>4, <1>5

\* What needs no reduction, and what is one modulus below it.
LEMMA ModSmall ==
  ASSUME NEW m \in Nat \ {0}, NEW k \in 0 .. m - 1
  PROVE  k % m = k /\ (k - m) % m = k
<1>1. k = 0 * m + k /\ k - m = (-1) * m + k
  BY Z3
<1> QED
  BY <1>1, ModDigit

\* A number plus multiples of the modulus.
LEMMA ModShift ==
  ASSUME NEW u \in Int, NEW k \in Int, NEW m \in Nat \ {0}
  PROVE  (u + k * m) % m = u % m
<1> DEFINE i == u \div m
           d == u % m
<1>1. i \in Int /\ d \in 0 .. m - 1 /\ u = i * m + d
  BY ModSplit
<1> HIDE DEF i, d
<1>2. u + k * m = (i + k) * m + d /\ i + k \in Int
  BY <1>1, Z3
<1>3. ((i + k) * m + d) % m = d
  BY <1>1, <1>2, ModDigit
<1> QED
  BY <1>2, <1>3 DEF d

\* What a remainder is, as a number with a multiple of the modulus added.
LEMMA ModWitness ==
  ASSUME NEW u \in Int, NEW m \in Nat \ {0}
  PROVE  \E k \in Int : u % m = u + k * m
<1> DEFINE i == u \div m
           d == u % m
<1>1. i \in Int /\ d \in 0 .. m - 1 /\ u = i * m + d
  BY ModSplit
<1> HIDE DEF i, d
<1>2. d = u + (-i) * m /\ -i \in Int
  BY <1>1, Z3
<1> QED
  BY <1>2 DEF d

\* Products may be reduced before or after.
LEMMA ModProduct ==
  ASSUME NEW a \in Int, NEW b \in Int, NEW m \in Nat \ {0}
  PROVE  ((a % m) * (b % m)) % m = (a * b) % m
<1>1. PICK i \in Int : a % m = a + i * m
  BY ModWitness
<1>2. PICK j \in Int : b % m = b + j * m
  BY ModWitness
<1> DEFINE k == a * j + i * b + i * j * m
<1>3. k \in Int /\ a * b \in Int
  OBVIOUS
<1>4. (a + i * m) * (b + j * m) = a * b + k * m
  BY Z3
<1> HIDE DEF k
<1>5. (a * b + k * m) % m = (a * b) % m
  BY <1>3, ModShift
<1>6. (a % m) * (b % m) = a * b + k * m
  BY <1>1, <1>2, <1>4
<1> QED
  BY <1>5, <1>6

-----------------------------------------------------------------------------
(* Induction, and loops modulo P. *)

\* A set of numbers has a least one.
LEMMA LeastNumber ==
  ASSUME NEW T, T \subseteq Nat, T # {}
  PROVE  \E x \in T : \A y \in T : ~(y < x)
<1> DEFINE L == OpToRel(<, Nat)
<1>1. IsWellFoundedOn(L, Nat)
  BY NatLessThanWellFounded
<1>2. \E x \in T : \A y \in T : ~(<<y, x>> \in L)
  <2> HIDE DEF L
  <2> QED
    BY <1>1, WFMin
<1>3. PICK x \in T : \A y \in T : ~(<<y, x>> \in L)
  BY <1>2
<1>4. ASSUME NEW y \in T
      PROVE  ~(y < x)
  BY <1>3 DEF OpToRel
<1> QED
  BY <1>4

\* Induction up to n, for a set of numbers.
LEMMA UpTo ==
  ASSUME NEW n \in Nat, NEW S, 0 \in S, \A k \in 0 .. n - 1 : k \in S => k + 1 \in S
  PROVE  \A k \in 0 .. n : k \in S
<1> DEFINE T == {k \in 0 .. n : k \notin S}
<1> SUFFICES ASSUME T # {}
             PROVE  FALSE
  OBVIOUS
<1>1. PICK k \in T : \A j \in T : ~(j < k)
  <2>1. T \subseteq Nat
    OBVIOUS
  <2> HIDE DEF T
  <2> QED
    BY <2>1, LeastNumber
<1>2. k # 0 /\ k \in 1 .. n
  OBVIOUS
<1>3. k - 1 \in 0 .. n - 1 /\ k - 1 < k /\ (k - 1) + 1 = k /\ k - 1 \in 0 .. n
  BY <1>2
<1>4. k - 1 \in S
  BY <1>1, <1>3
<1> QED
  BY <1>3, <1>4

\* Powers of two are positive.
LEMMA Powers == \A c \in 0 .. 16 : 2 ^ c \in Nat \ {0}
<1> DEFINE S == {c \in 0 .. 16 : 2 ^ c \in Nat \ {0}}
<1>1. 0 \in S
  BY PowerAssumption
<1>2. ASSUME NEW c \in 0 .. 16 - 1, c \in S
      PROVE  c + 1 \in S
  <2>1. c + 1 \in 0 .. 16 /\ c \in 0 .. 15
    OBVIOUS
  <2>2. 2 ^ (c + 1) = 2 * 2 ^ c
    BY <2>1, PowerAssumption
  <2> DEFINE p == 2 ^ c
  <2>3. p \in Nat \ {0}
    BY <1>2
  <2> HIDE DEF p
  <2>4. 2 * p \in Nat \ {0}
    BY <2>3
  <2> QED
    BY <2>1, <2>2, <2>4 DEF p
<1> HIDE DEF S
<1>3. \A c \in 0 .. 16 : c \in S
  BY <1>1, <1>2, UpTo
<1> QED
  BY <1>3 DEF S

\* The modulus, and the even half of it.
LEMMA Modulus ==
  /\ P \in Nat /\ P > 2 /\ 2 * (P \div 2) = P - 1
  /\ Zp \subseteq Nat /\ 0 \in Zp /\ 1 \in Zp
<1>1. PICK k \in 1 .. 16 : P = 2 ^ k + 1
  BY DetectAssumption
<1>2. k - 1 \in 0 .. 15 /\ (k - 1) + 1 = k /\ k - 1 \in 0 .. 16
  BY <1>1
<1>3. 2 ^ k = 2 * 2 ^ (k - 1) /\ 2 ^ (k - 1) \in Nat \ {0}
  BY <1>2, PowerAssumption, Powers
<1> DEFINE h == 2 ^ (k - 1)
<1>4. P = 2 * h + 1 /\ h \in Nat \ {0}
  BY <1>1, <1>3
<1> HIDE DEF h
<1>5. P \div 2 = h
  BY <1>4, Z3
<1> QED
  BY <1>4, <1>5 DEF Zp

\* g starts with x and takes step G[k] after its value at k, inside Zp.
Loop(g, n, x, G) ==
  /\ g = [k \in 0 .. n |-> g[k]]
  /\ g[0] = x
  /\ \A k \in 0 .. n : g[k] \in Zp
  /\ \A k \in 0 .. n - 1 : g[k + 1] = G[k][g[k]]

\* A function can be defined by recursion up to n.
LEMMA Recursion ==
  ASSUME NEW n \in Nat, NEW G, NEW x \in Zp,
         \A k \in 0 .. n - 1 : \A y \in Zp : G[k][y] \in Zp
  PROVE  \E g : Loop(g, n, x, G)
<1> DEFINE S == {m \in 0 .. n : \E g : Loop(g, m, x, G)}
<1>1. 0 \in S
  <2> DEFINE g == [k \in 0 .. 0 |-> x]
  <2>1. Loop(g, 0, x, G)
    BY DEF Loop
  <2> QED
    BY <2>1
<1>2. ASSUME NEW m \in 0 .. n - 1, m \in S
      PROVE  m + 1 \in S
  <2>1. PICK g : Loop(g, m, x, G)
    BY <1>2
  <2> DEFINE h == [k \in 0 .. m + 1 |-> IF k = m + 1 THEN G[m][g[m]] ELSE g[k]]
  <2>2. \A k \in 0 .. m : h[k] = g[k]
    OBVIOUS
  <2>3. h[m + 1] = G[m][g[m]]
    OBVIOUS
  <2>4. h = [k \in 0 .. m + 1 |-> h[k]]
    OBVIOUS
  <2>5. g[m] \in Zp /\ G[m][g[m]] \in Zp
    BY <2>1 DEF Loop
  <2> HIDE DEF h
  <2>6. h[0] = x
    BY <2>1, <2>2 DEF Loop
  <2>7. \A k \in 0 .. m + 1 : h[k] \in Zp
    BY <2>1, <2>2, <2>3, <2>5 DEF Loop
  <2>8. \A k \in 0 .. (m + 1) - 1 : h[k + 1] = G[k][h[k]]
    <3> SUFFICES ASSUME NEW k \in 0 .. m
                 PROVE  h[k + 1] = G[k][h[k]]
      OBVIOUS
    <3>1. CASE k = m
      BY <3>1, <2>2, <2>3
    <3>2. CASE k # m
      <4>1. k \in 0 .. m - 1 /\ k + 1 \in 0 .. m
        BY <3>2
      <4> QED
        BY <4>1, <2>1, <2>2 DEF Loop
    <3> QED
      BY <3>1, <3>2
  <2>9. Loop(h, m + 1, x, G)
    BY <2>4, <2>6, <2>7, <2>8 DEF Loop
  <2> QED
    BY <2>9
<1> HIDE DEF S
<1>3. n \in S
  BY <1>1, <1>2, UpTo
<1> QED
  BY <1>3 DEF S

\* The values of a loop are its own.
LEMMA LoopUnique ==
  ASSUME NEW n \in Nat, NEW m \in 0 .. n, NEW G, NEW x, NEW g, Loop(g, n, x, G),
         NEW h, Loop(h, m, x, G)
  PROVE  h[m] = g[m]
<1> DEFINE S == {k \in 0 .. m : h[k] = g[k]}
<1>1. 0 \in S
  BY DEF Loop
<1>2. ASSUME NEW k \in 0 .. m - 1, k \in S
      PROVE  k + 1 \in S
  <2>1. k \in 0 .. n - 1 /\ k + 1 \in 0 .. m
    OBVIOUS
  <2>2. g[k + 1] = G[k][g[k]] /\ h[k + 1] = G[k][h[k]]
    BY <2>1 DEF Loop
  <2> QED
    BY <1>2, <2>1, <2>2
<1> HIDE DEF S
<1>3. m \in Nat /\ m \in 0 .. m
  OBVIOUS
<1>4. \A k \in 0 .. m : k \in S
  BY <1>1, <1>2, <1>3, UpTo
<1> QED
  BY <1>3, <1>4 DEF S

\* The turns of the loops behind SumMod and ProductMod.
Adding(f, n) == [k \in 0 .. n - 1 |-> [y \in Zp |-> (y + f[k]) % P]]
Multiplying(f, n) == [k \in 0 .. n - 1 |-> [y \in Zp |-> (y * f[k]) % P]]

Terms(f, n) == \A k \in 0 .. n - 1 : f[k] \in Int

\* SumMod is the end of a loop.
LEMMA SumLoop ==
  ASSUME NEW n \in Nat, NEW f, Terms(f, n)
  PROVE  \E g : Loop(g, n, 0, Adding(f, n)) /\ SumMod(f, n) = g[n]
<1> DEFINE G == Adding(f, n)
           Q(s) == s = [k \in 0 .. n |-> IF k = 0 THEN 0 ELSE (s[k - 1] + f[k - 1]) % P]
<1>1. \A k \in 0 .. n - 1 : \A y \in Zp : G[k][y] = (y + f[k]) % P
  BY DEF Adding
<1>2. ASSUME NEW k \in 0 .. n - 1, NEW y \in Zp
      PROVE  G[k][y] \in Zp
  <2>1. f[k] \in Int /\ y \in Int /\ y + f[k] \in Int /\ P \in Nat \ {0}
    BY Modulus DEF Terms
  <2>2. (y + f[k]) % P \in 0 .. P - 1
    BY <2>1, ModSplit
  <2> QED
    BY <1>1, <2>2 DEF Zp
<1> HIDE DEF G
<1>3. PICK g : Loop(g, n, 0, G)
  BY <1>2, Modulus, Recursion
<1>4. \A k \in 0 .. n : g[k] = IF k = 0 THEN 0 ELSE (g[k - 1] + f[k - 1]) % P
  <2> TAKE k \in 0 .. n
  <2>1. CASE k = 0
    BY <2>1, <1>3 DEF Loop
  <2>2. CASE k # 0
    <3>1. k - 1 \in 0 .. n - 1 /\ k - 1 \in 0 .. n /\ (k - 1) + 1 = k
      BY <2>2
    <3>2. g[k] = G[k - 1][g[k - 1]] /\ g[k - 1] \in Zp
      BY <1>3, <3>1 DEF Loop
    <3> QED
      BY <1>1, <3>1, <3>2, <2>2
  <2> QED
    BY <2>1, <2>2
<1>5. Q(g)
  <2>1. g = [k \in 0 .. n |-> g[k]]
    BY <1>3 DEF Loop
  <2> QED
    BY <2>1, <1>4
<1> DEFINE s == CHOOSE t : Q(t)
<1>6. SumMod(f, n) = s[n]
  BY DEF SumMod
<1> HIDE DEF Q
<1>7. Q(s)
  BY <1>5
<1> HIDE DEF s
<1>8. s = [k \in 0 .. n |-> IF k = 0 THEN 0 ELSE (s[k - 1] + f[k - 1]) % P]
  BY <1>7 DEF Q
<1>9. s[0] = 0 /\ \A k \in 1 .. n : s[k] = (s[k - 1] + f[k - 1]) % P
  BY <1>8
<1>10. \A k \in 0 .. n : s[k] = g[k]
  <2> DEFINE S == {k \in 0 .. n : s[k] = g[k]}
  <2>1. 0 \in S
    BY <1>9, <1>4
  <2>2. ASSUME NEW k \in 0 .. n - 1, k \in S
        PROVE  k + 1 \in S
    <3>1. k + 1 \in 1 .. n /\ k + 1 \in 0 .. n /\ (k + 1) - 1 = k /\ k + 1 # 0
      OBVIOUS
    <3>2. s[k + 1] = (s[k] + f[k]) % P /\ g[k + 1] = (g[k] + f[k]) % P
      BY <1>4, <1>9, <3>1
    <3> QED
      BY <2>2, <3>1, <3>2
  <2> HIDE DEF S
  <2>3. \A k \in 0 .. n : k \in S
    BY <2>1, <2>2, UpTo
  <2> QED
    BY <2>3 DEF S
<1> QED
  BY <1>3, <1>6, <1>10 DEF G

\* Sums, term after term.
LEMMA SumTurn ==
  ASSUME NEW n \in Nat, NEW f, Terms(f, n)
  PROVE  /\ SumMod(f, 0) = 0 /\ SumMod(f, n) \in Zp
         /\ \A m \in 0 .. n - 1 : /\ SumMod(f, m) \in Zp
                                  /\ SumMod(f, m + 1) = (SumMod(f, m) + f[m]) % P
<1>1. PICK g : Loop(g, n, 0, Adding(f, n)) /\ SumMod(f, n) = g[n]
  BY SumLoop
<1>2. ASSUME NEW m \in 0 .. n
      PROVE  SumMod(f, m) = g[m]
  <2>1. m \in Nat /\ Terms(f, m)
    BY DEF Terms
  <2>2. PICK h : Loop(h, m, 0, Adding(f, m)) /\ SumMod(f, m) = h[m]
    BY <2>1, SumLoop
  <2>3. ASSUME NEW k \in 0 .. m - 1
        PROVE  Adding(f, m)[k] = Adding(f, n)[k]
    BY <2>3 DEF Adding
  <2>4. Loop(h, m, 0, Adding(f, n))
    BY <2>2, <2>3 DEF Loop
  <2> QED
    BY <1>1, <2>2, <2>4, LoopUnique
<1>3. \A m \in 0 .. n : g[m] \in Zp
  BY <1>1 DEF Loop
<1>4. ASSUME NEW m \in 0 .. n - 1
      PROVE  g[m + 1] = (g[m] + f[m]) % P
  <2>1. g[m + 1] = Adding(f, n)[m][g[m]]
    BY <1>1 DEF Loop
  <2>2. g[m] \in Zp
    BY <1>3
  <2> QED
    BY <2>1, <2>2 DEF Adding
<1>5. g[0] = 0
  BY <1>1 DEF Loop
<1>6. 0 \in 0 .. n /\ n \in 0 .. n
  OBVIOUS
<1>7. ASSUME NEW m \in 0 .. n - 1
      PROVE  /\ SumMod(f, m) \in Zp
             /\ SumMod(f, m + 1) = (SumMod(f, m) + f[m]) % P
  <2>1. m \in 0 .. n /\ m + 1 \in 0 .. n
    OBVIOUS
  <2> QED
    BY <1>2, <1>3, <1>4, <2>1
<1> QED
  BY <1>2, <1>3, <1>5, <1>6, <1>7

\* ProductMod is the end of a loop.
LEMMA ProductLoop ==
  ASSUME NEW n \in Nat, NEW f, Terms(f, n)
  PROVE  \E g : Loop(g, n, 1, Multiplying(f, n)) /\ ProductMod(f, n) = g[n]
<1> DEFINE G == Multiplying(f, n)
           Q(s) == s = [k \in 0 .. n |-> IF k = 0 THEN 1 ELSE (s[k - 1] * f[k - 1]) % P]
<1>1. \A k \in 0 .. n - 1 : \A y \in Zp : G[k][y] = (y * f[k]) % P
  BY DEF Multiplying
<1>2. ASSUME NEW k \in 0 .. n - 1, NEW y \in Zp
      PROVE  G[k][y] \in Zp
  <2>1. f[k] \in Int /\ y \in Int /\ y * f[k] \in Int /\ P \in Nat \ {0}
    BY Modulus DEF Terms
  <2>2. (y * f[k]) % P \in 0 .. P - 1
    BY <2>1, ModSplit
  <2> QED
    BY <1>1, <2>2 DEF Zp
<1> HIDE DEF G
<1>3. PICK g : Loop(g, n, 1, G)
  BY <1>2, Modulus, Recursion
<1>4. \A k \in 0 .. n : g[k] = IF k = 0 THEN 1 ELSE (g[k - 1] * f[k - 1]) % P
  <2> TAKE k \in 0 .. n
  <2>1. CASE k = 0
    BY <2>1, <1>3 DEF Loop
  <2>2. CASE k # 0
    <3>1. k - 1 \in 0 .. n - 1 /\ k - 1 \in 0 .. n /\ (k - 1) + 1 = k
      BY <2>2
    <3>2. g[k] = G[k - 1][g[k - 1]] /\ g[k - 1] \in Zp
      BY <1>3, <3>1 DEF Loop
    <3> QED
      BY <1>1, <3>1, <3>2, <2>2
  <2> QED
    BY <2>1, <2>2
<1>5. Q(g)
  <2>1. g = [k \in 0 .. n |-> g[k]]
    BY <1>3 DEF Loop
  <2> QED
    BY <2>1, <1>4
<1> DEFINE s == CHOOSE t : Q(t)
<1>6. ProductMod(f, n) = s[n]
  BY DEF ProductMod
<1> HIDE DEF Q
<1>7. Q(s)
  BY <1>5
<1> HIDE DEF s
<1>8. s = [k \in 0 .. n |-> IF k = 0 THEN 1 ELSE (s[k - 1] * f[k - 1]) % P]
  BY <1>7 DEF Q
<1>9. s[0] = 1 /\ \A k \in 1 .. n : s[k] = (s[k - 1] * f[k - 1]) % P
  BY <1>8
<1>10. \A k \in 0 .. n : s[k] = g[k]
  <2> DEFINE S == {k \in 0 .. n : s[k] = g[k]}
  <2>1. 0 \in S
    BY <1>9, <1>4
  <2>2. ASSUME NEW k \in 0 .. n - 1, k \in S
        PROVE  k + 1 \in S
    <3>1. k + 1 \in 1 .. n /\ k + 1 \in 0 .. n /\ (k + 1) - 1 = k /\ k + 1 # 0
      OBVIOUS
    <3>2. s[k + 1] = (s[k] * f[k]) % P /\ g[k + 1] = (g[k] * f[k]) % P
      BY <1>4, <1>9, <3>1
    <3> QED
      BY <2>2, <3>1, <3>2
  <2> HIDE DEF S
  <2>3. \A k \in 0 .. n : k \in S
    BY <2>1, <2>2, UpTo
  <2> QED
    BY <2>3 DEF S
<1> QED
  BY <1>3, <1>6, <1>10 DEF G

\* Products, factor after factor.
LEMMA ProductTurn ==
  ASSUME NEW n \in Nat, NEW f, Terms(f, n)
  PROVE  /\ ProductMod(f, 0) = 1 /\ ProductMod(f, n) \in Zp
         /\ \A m \in 0 .. n - 1 : /\ ProductMod(f, m) \in Zp
                                  /\ ProductMod(f, m + 1) = (ProductMod(f, m) * f[m]) % P
<1>1. PICK g : Loop(g, n, 1, Multiplying(f, n)) /\ ProductMod(f, n) = g[n]
  BY ProductLoop
<1>2. ASSUME NEW m \in 0 .. n
      PROVE  ProductMod(f, m) = g[m]
  <2>1. m \in Nat /\ Terms(f, m)
    BY DEF Terms
  <2>2. PICK h : Loop(h, m, 1, Multiplying(f, m)) /\ ProductMod(f, m) = h[m]
    BY <2>1, ProductLoop
  <2>3. ASSUME NEW k \in 0 .. m - 1
        PROVE  Multiplying(f, m)[k] = Multiplying(f, n)[k]
    BY <2>3 DEF Multiplying
  <2>4. Loop(h, m, 1, Multiplying(f, n))
    BY <2>2, <2>3 DEF Loop
  <2> QED
    BY <1>1, <2>2, <2>4, LoopUnique
<1>3. \A m \in 0 .. n : g[m] \in Zp
  BY <1>1 DEF Loop
<1>4. ASSUME NEW m \in 0 .. n - 1
      PROVE  g[m + 1] = (g[m] * f[m]) % P
  <2>1. g[m + 1] = Multiplying(f, n)[m][g[m]]
    BY <1>1 DEF Loop
  <2>2. g[m] \in Zp
    BY <1>3
  <2> QED
    BY <2>1, <2>2 DEF Multiplying
<1>5. g[0] = 1
  BY <1>1 DEF Loop
<1>6. 0 \in 0 .. n /\ n \in 0 .. n
  OBVIOUS
<1>7. ASSUME NEW m \in 0 .. n - 1
      PROVE  /\ ProductMod(f, m) \in Zp
             /\ ProductMod(f, m + 1) = (ProductMod(f, m) * f[m]) % P
  <2>1. m \in 0 .. n /\ m + 1 \in 0 .. n
    OBVIOUS
  <2> QED
    BY <1>2, <1>3, <1>4, <2>1
<1> QED
  BY <1>2, <1>3, <1>5, <1>6, <1>7

\* A remainder modulo P is in Zp, and in Zp nothing is reduced.
LEMMA Reduced ==
  /\ \A x \in Int : x % P \in Zp
  /\ \A x \in Zp : x \in Int /\ x % P = x
<1>1. P \in Nat \ {0}
  BY Modulus
<1>2. ASSUME NEW x \in Int
      PROVE  x % P \in Zp
  BY <1>1, ModSplit DEF Zp
<1>3. ASSUME NEW x \in Zp
      PROVE  x \in Int /\ x % P = x
  BY <1>1, ModSmall DEF Zp
<1> QED
  BY <1>2, <1>3

\* What is added or multiplied in a loop may be reduced before.
LEMMA Within ==
  ASSUME NEW x \in Int, NEW y \in Int
  PROVE  /\ (x + (y % P)) % P = (x + y) % P /\ ((x % P) + y) % P = (x + y) % P
         /\ (x * (y % P)) % P = (x * y) % P /\ ((x % P) * y) % P = (x * y) % P
<1>1. P \in Nat \ {0}
  BY Modulus
<1>2. PICK i \in Int : x % P = x + i * P
  BY <1>1, ModWitness
<1>3. PICK j \in Int : y % P = y + j * P
  BY <1>1, ModWitness
<1>4. x + y \in Int /\ x * y \in Int /\ x * j \in Int /\ i * y \in Int
  OBVIOUS
<1>5. /\ x + (y + j * P) = (x + y) + j * P /\ (x + i * P) + y = (x + y) + i * P
      /\ x * (y + j * P) = (x * y) + (x * j) * P
      /\ (x + i * P) * y = (x * y) + (i * y) * P
  BY <1>1, Z3
<1> DEFINE a == x + y
           b == x * y
           c == x * j
           d == i * y
<1>6. a \in Int /\ b \in Int /\ c \in Int /\ d \in Int
  BY <1>4
<1> HIDE DEF a, b, c, d
<1>7. /\ (a + j * P) % P = a % P /\ (a + i * P) % P = a % P
      /\ (b + c * P) % P = b % P /\ (b + d * P) % P = b % P
  BY <1>1, <1>6, ModShift
<1>8. (x + (y % P)) % P = (x + y) % P /\ ((x % P) + y) % P = (x + y) % P
  <2>1. x + (y % P) = a + j * P /\ (x % P) + y = a + i * P
    BY <1>2, <1>3, <1>5 DEF a
  <2>2. (x + (y % P)) % P = a % P /\ ((x % P) + y) % P = a % P
    BY <2>1, <1>7
  <2> QED
    BY <2>2 DEF a
<1>9. (x * (y % P)) % P = (x * y) % P /\ ((x % P) * y) % P = (x * y) % P
  <2>1. x * (y % P) = b + c * P /\ (x % P) * y = b + d * P
    BY <1>2, <1>3, <1>5 DEF b, c, d
  <2>2. (x * (y % P)) % P = b % P /\ ((x % P) * y) % P = b % P
    BY <2>1, <1>7
  <2> QED
    BY <2>2 DEF b
<1> QED
  BY <1>8, <1>9

\* Sums of terms that are equal modulo P are equal.
LEMMA SumSame ==
  ASSUME NEW n \in Nat, NEW f, Terms(f, n), NEW h, Terms(h, n),
         \A k \in 0 .. n - 1 : f[k] % P = h[k] % P
  PROVE  SumMod(f, n) = SumMod(h, n)
<1> DEFINE S == {k \in 0 .. n : SumMod(f, k) = SumMod(h, k)}
<1>1. 0 \in S
  BY SumTurn
<1>2. ASSUME NEW k \in 0 .. n - 1, k \in S
      PROVE  k + 1 \in S
  <2>1. /\ SumMod(f, k) \in Zp /\ SumMod(f, k + 1) = (SumMod(f, k) + f[k]) % P
        /\ SumMod(h, k + 1) = (SumMod(h, k) + h[k]) % P
        /\ SumMod(f, k) = SumMod(h, k)
    BY <1>2, SumTurn
  <2> DEFINE s == SumMod(f, k)
  <2>2. s \in Int /\ f[k] \in Int /\ h[k] \in Int
    BY <2>1, Reduced DEF Terms
  <2> HIDE DEF s
  <2>3. (s + f[k]) % P = (s + (f[k] % P)) % P /\ (s + h[k]) % P = (s + (h[k] % P)) % P
    BY <2>2, Within
  <2>4. SumMod(f, k + 1) = (s + f[k]) % P /\ SumMod(h, k + 1) = (s + h[k]) % P
    BY <2>1 DEF s
  <2>5. f[k] % P = h[k] % P
    OBVIOUS
  <2>6. SumMod(f, k + 1) = SumMod(h, k + 1)
    BY <2>3, <2>4, <2>5
  <2> QED
    BY <2>6
<1> HIDE DEF S
<1>3. \A k \in 0 .. n : k \in S
  BY <1>1, <1>2, UpTo
<1> QED
  BY <1>3 DEF S

\* A sum is that of its first n terms and that of the m others.
LEMMA SumAppend ==
  ASSUME NEW n \in Nat, NEW m \in Nat, NEW f, Terms(f, n + m), NEW h,
         \A k \in 0 .. m - 1 : h[k] = f[n + k]
  PROVE  SumMod(f, n + m) = (SumMod(f, n) + SumMod(h, m)) % P
<1>1. Terms(f, n) /\ Terms(h, m)
  <2>1. \A k \in 0 .. n - 1 : k \in 0 .. (n + m) - 1
    OBVIOUS
  <2>2. \A k \in 0 .. m - 1 : n + k \in 0 .. (n + m) - 1
    OBVIOUS
  <2> QED
    BY <2>1, <2>2 DEF Terms
<1> DEFINE S == {k \in 0 .. m : SumMod(f, n + k) = (SumMod(f, n) + SumMod(h, k)) % P}
           a == SumMod(f, n)
<1>2. a \in Zp
  BY <1>1, SumTurn
<1>3. 0 \in S
  <2>1. SumMod(h, 0) = 0
    BY <1>1, SumTurn
  <2>2. n + 0 = n /\ a + 0 = a /\ a % P = a
    BY <1>2, Reduced
  <2> QED
    BY <2>1, <2>2
<1>4. ASSUME NEW k \in 0 .. m - 1, k \in S
      PROVE  k + 1 \in S
  <2> DEFINE b == SumMod(h, k)
  <2>1. n + k \in 0 .. (n + m) - 1 /\ n + m \in Nat /\ n + (k + 1) = (n + k) + 1
    OBVIOUS
  <2>2. SumMod(f, (n + k) + 1) = (SumMod(f, n + k) + f[n + k]) % P
    BY <2>1, SumTurn
  <2>3. b \in Zp /\ SumMod(h, k + 1) = (b + h[k]) % P
    BY <1>1, SumTurn
  <2>4. SumMod(f, n + k) = (a + b) % P /\ h[k] = f[n + k] /\ h[k] \in Int
    BY <1>1, <1>4 DEF Terms
  <2> HIDE DEF a, b
  <2>5. a \in Int /\ b \in Int /\ a + b \in Int /\ b + h[k] \in Int
    BY <1>2, <2>3, <2>4, Reduced
  <2>6. (((a + b) % P) + h[k]) % P = ((a + b) + h[k]) % P
    BY <2>4, <2>5, Within
  <2>7. (a + ((b + h[k]) % P)) % P = (a + (b + h[k])) % P
    BY <2>5, Within
  <2>8. (a + b) + h[k] = a + (b + h[k])
    BY <2>4, <2>5
  <2>9. SumMod(f, (n + k) + 1) = (((a + b) % P) + h[k]) % P
    BY <2>2, <2>4
  <2>10. (a + SumMod(h, k + 1)) % P = (a + ((b + h[k]) % P)) % P
    BY <2>3
  <2>11. SumMod(f, n + (k + 1)) = (a + SumMod(h, k + 1)) % P
    BY <2>1, <2>6, <2>7, <2>8, <2>9, <2>10
  <2> QED
    BY <2>11 DEF a
<1> HIDE DEF S
<1>5. \A k \in 0 .. m : k \in S
  BY <1>3, <1>4, UpTo
<1> QED
  BY <1>5 DEF S

\* What is added on both sides does not matter.
LEMMA Cancel ==
  ASSUME NEW s \in Zp, NEW t \in Zp, NEW c \in Int, (s + c) % P = (t + c) % P
  PROVE  s = t
<1>1. P \in Nat \ {0} /\ s \in Int /\ t \in Int /\ s + c \in Int /\ t + c \in Int /\ -c \in Int
  BY Reduced, Modulus
<1>2. (((s + c) % P) + (-c)) % P = ((s + c) + (-c)) % P
      /\ (((t + c) % P) + (-c)) % P = ((t + c) + (-c)) % P
  BY <1>1, Within
<1>3. (s + c) + (-c) = s /\ (t + c) + (-c) = t
  BY <1>1
<1>4. s % P = t % P
  BY <1>2, <1>3
<1> QED
  BY <1>4, Reduced

\* A sum around a ring of n entries may begin at any of them.
LEMMA SumTurned ==
  ASSUME NEW n \in Nat \ {0}, NEW g, Terms(g, n), NEW j \in Nat
  PROVE  SumMod([i \in 0 .. n - 1 |-> g[(i + j) % n]], n) = SumMod(g, n)
<1> DEFINE f(d) == [i \in 0 .. n - 1 |-> g[(i + d) % n]]
           S == {d \in 0 .. j : SumMod(f(d), n) = SumMod(g, n)}
<1>1. ASSUME NEW d \in Nat, NEW i \in Nat
      PROVE  (i + d) % n \in 0 .. n - 1 /\ g[(i + d) % n] \in Int
  <2>1. i + d \in Int
    OBVIOUS
  <2>2. (i + d) % n \in 0 .. n - 1
    BY <2>1, ModSplit
  <2> QED
    BY <2>2 DEF Terms
<1>2. ASSUME NEW d \in Nat
      PROVE  /\ \A i \in 0 .. n - 1 : f(d)[i] = g[(i + d) % n]
             /\ Terms(f(d), n)
  BY <1>1 DEF Terms
<1> HIDE DEF f
<1>3. 0 \in S
  <2>1. \A i \in 0 .. n - 1 : f(0)[i] = g[i]
    <3> TAKE i \in 0 .. n - 1
    <3>1. i + 0 = i /\ i % n = i
      BY ModSmall
    <3> QED
      BY <3>1, <1>2
  <2>2. SumMod(f(0), n) = SumMod(g, n)
    BY <2>1, <1>2, SumSame
  <2> QED
    BY <2>2
<1>4. ASSUME NEW d \in 0 .. j - 1, d \in S
      PROVE  d + 1 \in S
  <2> DEFINE h == [i \in 0 .. n |-> g[(i + d) % n]]
             s == SumMod(f(d), n)
             t == SumMod(f(d + 1), n)
             c == h[0]
  <2>1. d \in Nat /\ d + 1 \in Nat /\ n \in Nat /\ 1 \in Nat /\ n + 1 = 1 + n
    OBVIOUS
  <2>2. \A i \in 0 .. n : h[i] = g[(i + d) % n]
    OBVIOUS
  <2> HIDE DEF h
  <2>4. Terms(h, n + 1) /\ Terms(h, 1) /\ c \in Int /\ h[n] \in Int
    <3>1. \A i \in 0 .. n : h[i] \in Int
      <4> TAKE i \in 0 .. n
      <4>1. i \in Nat
        OBVIOUS
      <4> QED
        BY <1>1, <2>1, <2>2, <4>1
    <3>2. (n + 1) - 1 = n /\ 0 .. 1 - 1 \subseteq 0 .. n /\ 0 \in 0 .. n /\ n \in 0 .. n
      OBVIOUS
    <3> QED
      BY <3>1, <3>2 DEF Terms
  <2>5. h[n] = c
    <3>1. n + d = d + 1 * n /\ 0 + d = d /\ 1 \in Int /\ d \in Int
      OBVIOUS
    <3>2. (d + 1 * n) % n = d % n
      BY <3>1, ModShift
    <3>3. h[n] = g[(n + d) % n] /\ h[0] = g[(0 + d) % n]
      BY <2>2
    <3> QED
      BY <3>1, <3>2, <3>3
  <2>6. SumMod(h, n) = s
    <3>1. \A i \in 0 .. n - 1 : h[i] = f(d)[i] /\ i \in 0 .. n
      BY <1>2, <2>1, <2>2
    <3>2. Terms(h, n)
      BY <2>4 DEF Terms
    <3> QED
      BY <1>2, <2>1, <3>1, <3>2, SumSame
  <2>7. \A i \in 0 .. n - 1 : f(d + 1)[i] = h[1 + i]
    <3> TAKE i \in 0 .. n - 1
    <3>1. 1 + i \in 0 .. n /\ (1 + i) + d = i + (d + 1)
      OBVIOUS
    <3> QED
      BY <1>2, <2>1, <2>2, <3>1
  <2>8. SumMod(h, 1 + n) = (SumMod(h, 1) + t) % P
    BY <2>1, <2>4, <2>7, SumAppend
  <2>9. SumMod(h, n + 1) = (s + c) % P
    <3>1. n + 1 \in Nat /\ n \in 0 .. (n + 1) - 1
      OBVIOUS
    <3>2. SumMod(h, n + 1) = (SumMod(h, n) + h[n]) % P
      BY <2>4, <3>1, SumTurn
    <3> QED
      BY <2>5, <2>6, <3>2
  <2>10. SumMod(h, 1) = c % P
    <3>1. 0 \in 0 .. 1 - 1 /\ 0 + 1 = 1
      OBVIOUS
    <3>2. SumMod(h, 0) = 0 /\ SumMod(h, 0 + 1) = (SumMod(h, 0) + h[0]) % P
      BY <2>1, <2>4, <3>1, SumTurn
    <3> QED
      BY <2>4, <3>1, <3>2
  <2>11. s \in Zp /\ t \in Zp
    BY <1>2, <2>1, SumTurn
  <2> HIDE DEF s, t, c
  <2>12. s \in Int /\ t \in Int
    BY <2>11, Reduced
  <2>13. ((c % P) + t) % P = (c + t) % P
    BY <2>4, <2>12, Within
  <2>14. (s + c) % P = (t + c) % P
    <3>1. c + t = t + c
      BY <2>4, <2>12
    <3>2. SumMod(h, 1 + n) = SumMod(h, n + 1)
      BY <2>1
    <3> QED
      BY <2>8, <2>9, <2>10, <2>13, <3>1, <3>2
  <2>15. s = t
    BY <2>4, <2>11, <2>14, Cancel
  <2>16. s = SumMod(g, n)
    BY <1>4 DEF s
  <2>17. SumMod(f(d + 1), n) = SumMod(g, n)
    BY <2>15, <2>16 DEF t
  <2> QED
    BY <2>1, <2>17
<1> HIDE DEF S
<1>5. j \in S
  BY <1>3, <1>4, UpTo
<1>6. SumMod(f(j), n) = SumMod(g, n)
  BY <1>5 DEF S
<1> QED
  BY <1>6 DEF f

\* Terms that are 0 at the end of a sum do not matter.
LEMMA SumPadded ==
  ASSUME NEW n \in Nat, NEW m \in Nat, NEW f, Terms(f, n + m),
         \A k \in n .. n + m - 1 : f[k] = 0
  PROVE  SumMod(f, n + m) = SumMod(f, n)
<1> DEFINE S == {k \in 0 .. m : SumMod(f, n + k) = SumMod(f, n)}
<1>1. 0 \in S
  OBVIOUS
<1>2. ASSUME NEW k \in 0 .. m - 1, k \in S
      PROVE  k + 1 \in S
  <2>1. n + k \in 0 .. (n + m) - 1 /\ n + m \in Nat /\ n + (k + 1) = (n + k) + 1
        /\ n + k \in n .. n + m - 1
    OBVIOUS
  <2>2. SumMod(f, n + k) \in Zp /\ SumMod(f, (n + k) + 1) = (SumMod(f, n + k) + f[n + k]) % P
    BY <2>1, SumTurn
  <2> DEFINE s == SumMod(f, n + k)
  <2>3. s \in Zp /\ f[n + k] = 0
    BY <2>1, <2>2
  <2> HIDE DEF s
  <2>4. (s + 0) % P = s
    BY <2>3, Reduced
  <2>5. SumMod(f, n + (k + 1)) = SumMod(f, n)
    BY <1>2, <2>1, <2>2, <2>3, <2>4 DEF s
  <2> QED
    BY <2>5
<1> HIDE DEF S
<1>3. \A k \in 0 .. m : k \in S
  BY <1>1, <1>2, UpTo
<1> QED
  BY <1>3 DEF S

-----------------------------------------------------------------------------
(* The turning key. *)

\* The rows are equally long, and a padded key fills them a whole number of times.
LEMMA Rings ==
  /\ Half \in Nat \ {0} /\ Degree = 2 * Half
  /\ TempN \in Nat \ {0} /\ TempN >= Dim /\ Dim \in Nat \ {0}
  /\ \E c \in Nat : Half = c * TempN
<1>1. PICK w \in 1 .. 16 : Degree = 2 ^ w
  BY DetectAssumption
<1> DEFINE u == w - 1
<1>2. u \in 0 .. 15 /\ u + 1 = w /\ u \in 0 .. 16
  OBVIOUS
<1> HIDE DEF u
<1>3. Degree = 2 * 2 ^ u /\ 2 ^ u \in Nat \ {0}
  <2>1. 2 ^ (u + 1) = 2 * 2 ^ u
    BY <1>2, PowerAssumption
  <2> QED
    BY <1>1, <1>2, <2>1, Powers
<1>4. Half = 2 ^ u
  <2> DEFINE h == 2 ^ u
  <2>1. Degree = 2 * h /\ h \in Nat \ {0}
    BY <1>3
  <2> HIDE DEF h
  <2>2. Degree \div 2 = h
    BY <2>1, Z3
  <2> QED
    BY <2>2 DEF Half, h
<1>5. Half \in Nat \ {0} /\ Degree = 2 * Half
  BY <1>3, <1>4
<1>6. Dim \in 1 .. Half
  BY DetectAssumption
<1> DEFINE Fits(k) == 2 ^ k >= Dim /\ \A m \in 0 .. k - 1 : 2 ^ m < Dim
           T == {k \in 0 .. 16 : 2 ^ k >= Dim}
<1>7. \E k \in 0 .. 16 : Fits(k)
  <2>1. u \in T
    BY <1>2, <1>4, <1>5, <1>6
  <2>2. T \subseteq Nat
    OBVIOUS
  <2> HIDE DEF T
  <2>3. PICK k \in T : \A m \in T : ~(m < k)
    BY <2>1, <2>2, LeastNumber
  <2>4. k \in 0 .. 16 /\ 2 ^ k >= Dim
    BY DEF T
  <2>5. ASSUME NEW m \in 0 .. k - 1
        PROVE  2 ^ m < Dim
    <3>1. m \in 0 .. 16 /\ m < k
      BY <2>4
    <3>2. m \notin T
      BY <2>3, <3>1
    <3>3. ~(2 ^ m >= Dim) /\ 2 ^ m \in Nat
      BY <3>1, <3>2, Powers DEF T
    <3> DEFINE q == 2 ^ m
    <3>4. ~(q >= Dim) /\ q \in Nat /\ Dim \in Nat
      BY <1>5, <1>6, <3>3
    <3> HIDE DEF q
    <3>5. q < Dim
      BY <3>4
    <3> QED
      BY <3>5 DEF q
  <2> QED
    BY <2>4, <2>5
<1> DEFINE k == CHOOSE i \in 0 .. 16 : Fits(i)
<1>8. k \in 0 .. 16 /\ Fits(k)
  <2> HIDE DEF Fits
  <2> QED
    BY <1>7
<1>9. TempN = 2 ^ k
  BY DEF TempN
<1> HIDE DEF k
<1>10. TempN \in Nat \ {0} /\ TempN >= Dim
  BY <1>8, <1>9, Powers
<1>11. k <= u
  <2> SUFFICES ASSUME u < k
               PROVE  FALSE
    BY <1>2, <1>8
  <2>1. u \in 0 .. k - 1
    BY <1>2, <1>8
  <2>2. Half < Dim
    BY <1>4, <1>8, <2>1
  <2> QED
    BY <1>5, <1>6, <2>2
<1> DEFINE S == {d \in 0 .. u - k : \E c \in Nat : 2 ^ (k + d) = c * TempN}
<1>12. 0 \in S
  <2>1. k + 0 = k /\ 1 * TempN = TempN
    BY <1>8, <1>10
  <2>2. 2 ^ (k + 0) = 1 * TempN
    BY <1>9, <2>1
  <2> QED
    BY <1>2, <1>8, <1>11, <2>2
<1>13. ASSUME NEW d \in 0 .. (u - k) - 1, d \in S
       PROVE  d + 1 \in S
  <2>1. PICK c \in Nat : 2 ^ (k + d) = c * TempN
    BY <1>13
  <2>2. k + d \in 0 .. 15 /\ k + (d + 1) = (k + d) + 1 /\ d + 1 \in 0 .. u - k
    BY <1>2, <1>8, <1>11
  <2>3. 2 ^ ((k + d) + 1) = 2 * 2 ^ (k + d)
    BY <2>2, PowerAssumption
  <2>4. 2 * (c * TempN) = (2 * c) * TempN /\ 2 * c \in Nat
    BY <1>10
  <2>5. 2 ^ (k + (d + 1)) = (2 * c) * TempN
    BY <2>1, <2>2, <2>3, <2>4
  <2> QED
    BY <2>2, <2>4, <2>5
<1>14. u - k \in Nat /\ k + (u - k) = u /\ u - k \in 0 .. u - k
  BY <1>2, <1>8, <1>11
<1> HIDE DEF S
<1>15. \A d \in 0 .. u - k : d \in S
  BY <1>12, <1>13, <1>14, UpTo
<1>16. PICK c \in Nat : 2 ^ (k + (u - k)) = c * TempN
  BY <1>14, <1>15 DEF S
<1> QED
  BY <1>4, <1>5, <1>6, <1>10, <1>14, <1>16

\* After i turns slot j holds entry i + j of the ring of the padded key.
LEMMA KeyTurned ==
  ASSUME NEW s, NEW j \in Slot, NEW i \in Nat
  PROVE  LET t == (i + j) % TempN
         IN  RotateRows(genSwitchingKeyPVWPacked(s), i)[j] = IF t >= Dim THEN 0 ELSE s[t]
<1> DEFINE q == j \div Half
           r == j % Half
           u == (r + i) % Half
           x == q * Half + u
           key == genSwitchingKeyPVWPacked(s)
<1>1. j \in Nat /\ j < 2 * Half /\ Half \in Nat \ {0} /\ TempN \in Nat \ {0}
  BY Rings DEF Slot
<1>2. q \in Int /\ r \in 0 .. Half - 1 /\ j = q * Half + r
  BY <1>1, ModSplit
<1>3. RotateRows(key, i)[j] = key[x]
  BY DEF RotateRows
<1> HIDE DEF q, r
<1>4. r + i \in Int
  BY <1>1, <1>2
<1>5. PICK e \in Int : u = (r + i) + e * Half
  BY <1>1, <1>4, ModWitness
<1>6. u \in 0 .. Half - 1
  BY <1>1, <1>4, ModSplit
<1> HIDE DEF u
<1>7. q \in {0, 1}
  <2>1. q * Half < 2 * Half /\ q * Half > -Half
    BY <1>1, <1>2
  <2>2. q < 2
    BY <1>1, <1>2, <2>1, Z3
  <2>3. q > -1
    BY <1>1, <1>2, <2>1, Z3
  <2> QED
    BY <1>2, <2>2, <2>3
<1>8. x \in Slot
  <2>1. x \in 0 .. 2 * Half - 1
    BY <1>1, <1>6, <1>7
  <2> QED
    BY <2>1, Rings DEF Slot
<1>9. PICK c \in Nat : Half = c * TempN
  BY Rings
<1>10. x % TempN = (i + j) % TempN
  <2>1. x = (i + j) + e * Half
    BY <1>1, <1>2, <1>5, <1>6, Z3
  <2>2. e * Half = (e * c) * TempN
    BY <1>1, <1>9, Z3
  <2>3. i + j \in Int /\ e * c \in Int
    BY <1>1
  <2>4. ((i + j) + (e * c) * TempN) % TempN = (i + j) % TempN
    BY <1>1, <2>3, ModShift
  <2> QED
    BY <2>1, <2>2, <2>4
<1>11. key[x] = IF x % TempN >= Dim THEN 0 ELSE s[x % TempN]
  BY <1>8 DEF genSwitchingKeyPVWPacked
<1> HIDE DEF x, key
<1> QED
  BY <1>3, <1>10, <1>11 DEF key

\* What the detector adds up for a clue is the inner product with its mask.
LEMMA InnerTurned ==
  ASSUME NEW clue, NEW j \in Slot, NEW s \in [Coordinate -> Zp],
         clue[j].a \in [Coordinate -> Zp]
  PROVE  /\ InnerInSlot(clue, genSwitchingKeyPVWPacked(s), j) = Inner(clue[j].a, s)
         /\ Inner(clue[j].a, s) \in Zp
<1> DEFINE a == clue[j].a
           n == TempN
           key == genSwitchingKeyPVWPacked(s)
           g == [t \in 0 .. n - 1 |-> IF t >= Dim THEN 0 ELSE s[t] * a[t]]
           h == [t \in Coordinate |-> a[t] * s[t]]
           f == [i \in 0 .. n - 1 |-> LET t == (i + j) % n
                                      IN  IF t >= Dim THEN 0 ELSE RotateRows(key, i)[j] * a[t]]
<1>1. n \in Nat \ {0} /\ Dim \in Nat \ {0} /\ n >= Dim /\ j \in Nat
  BY Rings DEF Slot
<1> HIDE DEF n
<1>2. a \in [Coordinate -> Zp] /\ Coordinate = 0 .. Dim - 1 /\ Zp \subseteq Nat
  BY Modulus DEF Coordinate
<1> HIDE DEF a
<1>3. \A t \in 0 .. Dim - 1 : s[t] \in Nat /\ a[t] \in Nat /\ h[t] = a[t] * s[t]
  BY <1>2
<1>4. /\ \A t \in 0 .. n - 1 : g[t] = IF t >= Dim THEN 0 ELSE s[t] * a[t]
      /\ g = [t \in 0 .. n - 1 |-> g[t]]
  OBVIOUS
<1> HIDE DEF g, h
<1>5. Terms(h, Dim)
  BY <1>3 DEF Terms
<1>6. Terms(g, n)
  <2>1. ASSUME NEW t \in 0 .. n - 1
        PROVE  g[t] \in Int
    <3>1. CASE t >= Dim
      BY <1>4, <3>1
    <3>2. CASE ~(t >= Dim)
      <4>1. t \in 0 .. Dim - 1
        BY <1>1, <3>2
      <4> QED
        BY <1>3, <1>4, <3>2, <4>1
    <3> QED
      BY <3>1, <3>2
  <2> QED
    BY <2>1 DEF Terms
<1>7. f = [i \in 0 .. n - 1 |-> g[(i + j) % n]]
  <2>1. ASSUME NEW i \in 0 .. n - 1
        PROVE  f[i] = g[(i + j) % n]
    <3> DEFINE t == (i + j) % n
    <3>1. i \in Nat /\ i + j \in Int
      BY <1>1
    <3>2. t \in 0 .. n - 1
      BY <1>1, <3>1, ModSplit
    <3>3. RotateRows(key, i)[j] = IF t >= Dim THEN 0 ELSE s[t]
      BY <3>1, KeyTurned DEF n
    <3>4. f[i] = IF t >= Dim THEN 0 ELSE RotateRows(key, i)[j] * a[t]
      OBVIOUS
    <3> HIDE DEF t, key, f
    <3>5. f[i] = g[t]
      BY <1>4, <3>2, <3>3, <3>4
    <3> QED
      BY <3>5 DEF t
  <2>2. f = [i \in 0 .. n - 1 |-> f[i]]
    OBVIOUS
  <2> HIDE DEF f
  <2> QED
    BY <2>1, <2>2
<1>8. InnerInSlot(clue, key, j) = SumMod(f, n)
  BY DEF InnerInSlot, n, a
<1> HIDE DEF f
<1>9. SumMod(f, n) = SumMod(g, n)
  BY <1>1, <1>6, <1>7, SumTurned
<1>10. SumMod(g, n) = SumMod(g, Dim)
  <2> DEFINE m == n - Dim
  <2>1. m \in Nat /\ Dim + m = n /\ Dim \in Nat
    BY <1>1
  <2> HIDE DEF m
  <2>2. \A t \in Dim .. Dim + m - 1 : g[t] = 0
    BY <1>1, <1>4, <2>1
  <2>3. Terms(g, Dim + m)
    BY <1>6, <2>1
  <2>4. SumMod(g, Dim + m) = SumMod(g, Dim)
    BY <2>1, <2>2, <2>3, SumPadded
  <2> QED
    BY <2>1, <2>4
<1>11. SumMod(g, Dim) = SumMod(h, Dim)
  <2>1. ASSUME NEW t \in 0 .. Dim - 1
        PROVE  g[t] = h[t] /\ g[t] \in Int
    <3>1. t \in 0 .. n - 1 /\ ~(t >= Dim)
      BY <1>1
    <3> QED
      BY <1>3, <1>4, <3>1
  <2>2. Terms(g, Dim)
    BY <2>1 DEF Terms
  <2> QED
    BY <1>1, <1>5, <2>1, <2>2, SumSame
<1>12. Inner(a, s) = SumMod(h, Dim)
  BY DEF Inner, h
<1>13. SumMod(h, Dim) \in Zp
  BY <1>1, <1>5, SumTurn
<1> QED
  BY <1>8, <1>9, <1>10, <1>11, <1>12, <1>13 DEF a, key

-----------------------------------------------------------------------------
(* Powers modulo P. *)

\* Products of the same factors are equal.
LEMMA ProductSame ==
  ASSUME NEW n \in Nat, NEW f, Terms(f, n), NEW h, \A k \in 0 .. n - 1 : f[k] = h[k]
  PROVE  ProductMod(f, n) = ProductMod(h, n)
<1>1. Terms(h, n)
  BY DEF Terms
<1> DEFINE S == {k \in 0 .. n : ProductMod(f, k) = ProductMod(h, k)}
<1>2. 0 \in S
  BY <1>1, ProductTurn
<1>3. ASSUME NEW k \in 0 .. n - 1, k \in S
      PROVE  k + 1 \in S
  <2>1. /\ ProductMod(f, k + 1) = (ProductMod(f, k) * f[k]) % P
        /\ ProductMod(h, k + 1) = (ProductMod(h, k) * h[k]) % P
    BY <1>1, ProductTurn
  <2>2. ProductMod(f, k) = ProductMod(h, k) /\ f[k] = h[k]
    BY <1>3
  <2>3. ProductMod(f, k + 1) = ProductMod(h, k + 1)
    BY <2>1, <2>2
  <2> QED
    BY <2>3
<1> HIDE DEF S
<1>4. \A k \in 0 .. n : k \in S
  BY <1>2, <1>3, UpTo
<1> QED
  BY <1>4 DEF S

\* Powers, factor after factor.
LEMMA PowerTurn ==
  ASSUME NEW x \in Int, NEW d \in Nat
  PROVE  /\ PowerMod(x, 0) = 1 /\ PowerMod(x, d) \in Zp
         /\ PowerMod(x, d + 1) = (PowerMod(x, d) * x) % P
<1> DEFINE f == [i \in 0 .. d - 1 |-> x]
           h == [i \in 0 .. (d + 1) - 1 |-> x]
           z == [i \in 0 .. 0 - 1 |-> x]
<1>1. Terms(f, d) /\ Terms(h, d) /\ Terms(h, d + 1) /\ Terms(z, 0)
  BY DEF Terms
<1>2. d + 1 \in Nat /\ 0 \in Nat /\ d \in 0 .. (d + 1) - 1 /\ h[d] = x
  OBVIOUS
<1>3. \A k \in 0 .. d - 1 : f[k] = h[k]
  OBVIOUS
<1>4. PowerMod(x, d) = ProductMod(f, d) /\ PowerMod(x, d + 1) = ProductMod(h, d + 1)
      /\ PowerMod(x, 0) = ProductMod(z, 0)
  BY DEF PowerMod
<1> HIDE DEF f, h, z
<1>5. ProductMod(f, d) = ProductMod(h, d)
  BY <1>1, <1>3, ProductSame
<1>6. ProductMod(h, d + 1) = (ProductMod(h, d) * h[d]) % P
  BY <1>1, <1>2, ProductTurn
<1>7. ProductMod(f, d) \in Zp /\ ProductMod(z, 0) = 1
  BY <1>1, <1>2, ProductTurn
<1> QED
  BY <1>2, <1>4, <1>5, <1>6, <1>7

\* The power of a sum.
LEMMA PowerSplit ==
  ASSUME NEW x \in Int, NEW a \in Nat, NEW b \in Nat
  PROVE  PowerMod(x, a + b) = (PowerMod(x, a) * PowerMod(x, b)) % P
<1> DEFINE u == PowerMod(x, a)
           S == {k \in 0 .. b : PowerMod(x, a + k) = (u * PowerMod(x, k)) % P}
<1>1. u \in Zp /\ u \in Int
  BY PowerTurn, Reduced
<1>2. 0 \in S
  <2>1. PowerMod(x, 0) = 1 /\ a + 0 = a
    BY PowerTurn
  <2>2. u * 1 = u /\ u % P = u
    BY <1>1, Reduced
  <2> QED
    BY <2>1, <2>2
<1>3. ASSUME NEW k \in 0 .. b - 1, k \in S
      PROVE  k + 1 \in S
  <2> DEFINE v == PowerMod(x, k)
  <2>1. k \in Nat /\ a + k \in Nat /\ a + (k + 1) = (a + k) + 1
    OBVIOUS
  <2>2. v \in Zp /\ v \in Int /\ PowerMod(x, k + 1) = (v * x) % P
        /\ PowerMod(x, (a + k) + 1) = (PowerMod(x, a + k) * x) % P
    BY <2>1, PowerTurn, Reduced
  <2>3. PowerMod(x, a + k) = (u * v) % P
    BY <1>3
  <2> HIDE DEF u, v
  <2>4. u * v \in Int /\ v * x \in Int /\ (u * v) * x = u * (v * x)
    BY <1>1, <2>2, Z3
  <2>5. (((u * v) % P) * x) % P = ((u * v) * x) % P
    BY <2>4, Within
  <2>6. (u * ((v * x) % P)) % P = (u * (v * x)) % P
    BY <1>1, <2>4, Within
  <2>7. PowerMod(x, a + (k + 1)) = (u * PowerMod(x, k + 1)) % P
    BY <2>1, <2>2, <2>3, <2>4, <2>5, <2>6
  <2> QED
    BY <2>7 DEF u
<1> HIDE DEF S
<1>4. \A k \in 0 .. b : k \in S
  BY <1>2, <1>3, UpTo
<1> QED
  BY <1>4 DEF S

\* The power of a power.
LEMMA PowerPower ==
  ASSUME NEW x \in Int, NEW r \in Nat, NEW i \in Nat
  PROVE  PowerMod(PowerMod(x, r), i) = PowerMod(x, i * r)
<1> DEFINE y == PowerMod(x, r)
           S == {k \in 0 .. i : PowerMod(y, k) = PowerMod(x, k * r)}
<1>1. y \in Zp /\ y \in Int
  BY PowerTurn, Reduced
<1>2. 0 \in S
  <2>1. PowerMod(y, 0) = 1 /\ PowerMod(x, 0) = 1
    BY <1>1, PowerTurn
  <2>2. 0 * r = 0
    OBVIOUS
  <2> QED
    BY <2>1, <2>2
<1>3. ASSUME NEW k \in 0 .. i - 1, k \in S
      PROVE  k + 1 \in S
  <2>1. k \in Nat /\ k * r \in Nat /\ (k + 1) * r = k * r + r
    BY Z3
  <2>2. PowerMod(y, k + 1) = (PowerMod(y, k) * y) % P
    BY <1>1, <2>1, PowerTurn
  <2> DEFINE e == k * r
  <2>3. e \in Nat /\ PowerMod(y, k) = PowerMod(x, e)
    BY <1>3, <2>1
  <2> HIDE DEF e
  <2>4. PowerMod(x, e + r) = (PowerMod(x, e) * y) % P
    BY <2>3, PowerSplit
  <2>5. PowerMod(y, k + 1) = PowerMod(x, (k + 1) * r)
    <3>1. (k + 1) * r = e + r
      BY <2>1 DEF e
    <3> QED
      BY <2>2, <2>3, <2>4, <3>1
  <2> QED
    BY <2>5
<1> HIDE DEF S
<1>4. \A k \in 0 .. i : k \in S
  BY <1>2, <1>3, UpTo
<1> QED
  BY <1>4 DEF S

\* The lowest digits of a number in base two.
LEMMA BitDigit ==
  ASSUME NEW d \in Nat, NEW q \in Nat \ {0}
  PROVE  /\ d % q \in Nat /\ (d \div q) % 2 \in {0, 1}
         /\ d % (2 * q) = (d % q) + ((d \div q) % 2) * q
<1> DEFINE e == d \div q
           r == d % q
           b == e % 2
           c == e \div 2
<1>1. e \in Int /\ r \in 0 .. q - 1 /\ d = e * q + r
  BY ModSplit
<1>2. c \in Int /\ b \in 0 .. 2 - 1 /\ e = c * 2 + b
  BY <1>1, ModSplit
<1> HIDE DEF e, r, b, c
<1>3. d = c * (2 * q) + (b * q + r)
  BY <1>1, <1>2, Z3
<1>4. b \in {0, 1} /\ b * q + r \in 0 .. 2 * q - 1 /\ 2 * q \in Nat \ {0}
  <2>1. b \in {0, 1}
    BY <1>2
  <2>2. CASE b = 0
    BY <1>1, <2>1, <2>2
  <2>3. CASE b = 1
    BY <1>1, <2>1, <2>3
  <2> QED
    BY <2>1, <2>2, <2>3
<1> DEFINE k == b * q + r
           m == 2 * q
<1>5. k \in 0 .. m - 1 /\ m \in Nat \ {0}
  BY <1>4
<1> HIDE DEF k, m
<1>6. (c * m + k) % m = k
  BY <1>2, <1>5, ModDigit
<1>7. d % m = k
  BY <1>3, <1>6 DEF k, m
<1>8. k = r + b * q
  BY <1>1, <1>4 DEF k
<1> QED
  BY <1>1, <1>4, <1>7, <1>8 DEF m, r, b, e

\* Powers of two grow.
LEMMA PowersGrow == \A d \in 0 .. 16 : \A k \in 0 .. d : 2 ^ k <= 2 ^ d
<1> DEFINE S == {d \in 0 .. 16 : \A k \in 0 .. d : 2 ^ k <= 2 ^ d}
<1>1. 0 \in S
  <2>1. ASSUME NEW k \in 0 .. 0
        PROVE  2 ^ k <= 2 ^ 0
    <3>1. k = 0 /\ 2 ^ 0 = 1
      BY PowerAssumption
    <3> QED
      BY <3>1
  <2>2. 0 \in 0 .. 16
    OBVIOUS
  <2> QED
    BY <2>1, <2>2, Zenon
<1>2. ASSUME NEW d \in 0 .. 16 - 1, d \in S
      PROVE  d + 1 \in S
  <2>1. d + 1 \in 0 .. 16 /\ d \in 0 .. 15 /\ d \in 0 .. 16
    OBVIOUS
  <2>2. 2 ^ (d + 1) = 2 * 2 ^ d /\ 2 ^ d \in Nat \ {0} /\ 2 ^ (d + 1) \in Nat
    BY <2>1, PowerAssumption, Powers
  <2>3. ASSUME NEW k \in 0 .. d + 1
        PROVE  2 ^ k <= 2 ^ (d + 1)
    <3>1. CASE k = d + 1
      BY <2>2, <3>1
    <3>2. CASE k # d + 1
      <4>1. k \in 0 .. d /\ k \in 0 .. 16
        BY <2>1, <3>2
      <4>2. 2 ^ k <= 2 ^ d /\ 2 ^ k \in Nat
        BY <1>2, <4>1, Powers
      <4> DEFINE u == 2 ^ k
                 v == 2 ^ d
                 w == 2 ^ (d + 1)
      <4>3. u <= v /\ w = 2 * v /\ u \in Nat /\ v \in Nat
        BY <2>2, <4>2
      <4> HIDE DEF u, v, w
      <4>4. u <= w
        BY <4>3
      <4> QED
        BY <4>4 DEF u, w
    <3> QED
      BY <3>1, <3>2
  <2> QED
    BY <2>1, <2>3
<1> HIDE DEF S
<1>3. \A d \in 0 .. 16 : d \in S
  BY <1>1, <1>2, UpTo
<1> QED
  BY <1>3 DEF S

\* The number of baby steps, and of giant steps, has sixteen bits.
LEMMA Steps == Root \in Nat \ {0} /\ Root * Root = P - 1 /\ Root < 2 ^ 16
<1>1. PICK k \in 1 .. 16 : P = 2 ^ k + 1
  BY DetectAssumption
<1>2. Root \in Nat \ {0} /\ Root * Root = P - 1
  BY DetectAssumption
<1> DEFINE u == 2 ^ k
           v == 2 ^ 16
<1>3. u <= v /\ u \in Nat /\ v \in Nat /\ P = u + 1
  <2>1. k \in 0 .. 16 /\ 16 \in 0 .. 16
    BY <1>1
  <2>2. 2 ^ k <= 2 ^ 16 /\ 2 ^ k \in Nat /\ 2 ^ 16 \in Nat
    BY <2>1, Powers, PowersGrow
  <2> QED
    BY <1>1, <2>2
<1>4. 2 <= v
  <2>1. 0 \in 0 .. 15 /\ 0 + 1 = 1 /\ 1 \in 0 .. 16 /\ 16 \in 0 .. 16
    OBVIOUS
  <2>2. 2 ^ 1 = 2
    BY <2>1, PowerAssumption
  <2> QED
    BY <2>1, <2>2, PowersGrow
<1> HIDE DEF u, v
<1>5. Root * Root <= v
  BY <1>2, <1>3
<1>6. Root < v
  BY <1>2, <1>3, <1>4, <1>5, Z3
<1> QED
  BY <1>2, <1>6 DEF v

\* The steps of the range check are powers.
LEMMA StepsArePowers ==
  ASSUME NEW x \in Zp, NEW n \in 1 .. Root, NEW e \in 1 .. n
  PROVE  calUptoDegreeK(x, n)[e] = PowerMod(x, e)
<1> DEFINE G == [m \in 0 .. 15 |-> [y \in Zp |-> (y * y) % P]]
           Q(s) == s = [m \in 0 .. 16 |-> IF m = 0 THEN x ELSE (s[m - 1] * s[m - 1]) % P]
           sq == CHOOSE s : Q(s)
           f == [m \in 0 .. 15 |-> IF (e \div 2 ^ m) % 2 = 1 THEN sq[m] ELSE 1]
<1>1. calUptoDegreeK(x, n)[e] = ProductMod(f, 16)
  BY DEF calUptoDegreeK
<1>2. x \in Int /\ e \in Nat
  BY Reduced
<1>3. ASSUME NEW m \in 0 .. 15, NEW y \in Zp
      PROVE  G[m][y] = (y * y) % P /\ G[m][y] \in Zp
  <2>1. y \in Int /\ y * y \in Int
    BY Reduced
  <2> QED
    BY <2>1, Reduced
<1> HIDE DEF G
<1>4. PICK g : Loop(g, 16, x, G)
  <2>1. 16 \in Nat /\ 16 - 1 = 15
    OBVIOUS
  <2> QED
    BY <1>3, <2>1, Recursion
<1>5. Q(g)
  <2>1. \A m \in 0 .. 16 : g[m] = IF m = 0 THEN x ELSE (g[m - 1] * g[m - 1]) % P
    <3> TAKE m \in 0 .. 16
    <3>1. CASE m = 0
      BY <3>1, <1>4 DEF Loop
    <3>2. CASE m # 0
      <4>1. m - 1 \in 0 .. 15 /\ m - 1 \in 0 .. 16 - 1 /\ m - 1 \in 0 .. 16 /\ (m - 1) + 1 = m
        BY <3>2
      <4>2. g[(m - 1) + 1] = G[m - 1][g[m - 1]] /\ g[m - 1] \in Zp
        BY <1>4, <4>1 DEF Loop
      <4> QED
        BY <1>3, <3>2, <4>1, <4>2
    <3> QED
      BY <3>1, <3>2
  <2>2. g = [m \in 0 .. 16 |-> g[m]]
    BY <1>4 DEF Loop
  <2> QED
    BY <2>1, <2>2
<1> HIDE DEF Q
<1>6. Q(sq)
  BY <1>5
<1> HIDE DEF sq
<1>7. sq[0] = x /\ \A m \in 0 .. 15 : sq[m + 1] = (sq[m] * sq[m]) % P
  <2>1. sq = [m \in 0 .. 16 |-> IF m = 0 THEN x ELSE (sq[m - 1] * sq[m - 1]) % P]
    BY <1>6 DEF Q
  <2>2. \A m \in 0 .. 16 : sq[m] = IF m = 0 THEN x ELSE (sq[m - 1] * sq[m - 1]) % P
    BY <2>1
  <2>3. \A m \in 0 .. 15 : m + 1 \in 0 .. 16 /\ m + 1 # 0 /\ (m + 1) - 1 = m
    OBVIOUS
  <2> QED
    BY <2>2, <2>3
<1> DEFINE S == {m \in 0 .. 16 : sq[m] = PowerMod(x, 2 ^ m)}
<1>8. 0 \in S
  <2>1. 0 \in Nat /\ 0 + 1 = 1 /\ 2 ^ 0 = 1
    BY PowerAssumption
  <2>2. PowerMod(x, 0) = 1 /\ PowerMod(x, 0 + 1) = (PowerMod(x, 0) * x) % P
    BY <1>2, <2>1, PowerTurn
  <2>3. 1 * x = x /\ x % P = x
    BY <1>2, Reduced
  <2>4. PowerMod(x, 2 ^ 0) = x
    BY <2>1, <2>2, <2>3
  <2> QED
    BY <1>7, <2>4
<1>9. ASSUME NEW m \in 0 .. 16 - 1, m \in S
      PROVE  m + 1 \in S
  <2> DEFINE q == 2 ^ m
  <2>1. m \in 0 .. 15 /\ m \in 0 .. 16 /\ m + 1 \in 0 .. 16
    OBVIOUS
  <2>2. q \in Nat /\ 2 ^ (m + 1) = 2 * q
    BY <2>1, Powers, PowerAssumption
  <2>3. sq[m] = PowerMod(x, q)
    BY <1>9
  <2>4. sq[m + 1] = (sq[m] * sq[m]) % P
    BY <1>7, <2>1
  <2> HIDE DEF q
  <2>5. PowerMod(x, q + q) = (PowerMod(x, q) * PowerMod(x, q)) % P /\ q + q = 2 * q
    BY <1>2, <2>2, PowerSplit
  <2>6. sq[m + 1] = PowerMod(x, 2 ^ (m + 1))
    BY <2>2, <2>3, <2>4, <2>5
  <2> QED
    BY <2>1, <2>6
<1> HIDE DEF S
<1>10. \A m \in 0 .. 16 : m \in S
  BY <1>8, <1>9, UpTo
<1>11. \A m \in 0 .. 15 : f[m] = IF (e \div 2 ^ m) % 2 = 1 THEN sq[m] ELSE 1
  OBVIOUS
<1>12. \A m \in 0 .. 15 : sq[m] = PowerMod(x, 2 ^ m) /\ sq[m] \in Zp /\ sq[m] \in Int
  <2> TAKE m \in 0 .. 15
  <2>1. m \in 0 .. 16
    OBVIOUS
  <2>2. sq[m] = PowerMod(x, 2 ^ m) /\ 2 ^ m \in Nat
    BY <1>10, <2>1, Powers DEF S
  <2> QED
    BY <1>2, <2>2, PowerTurn, Reduced
<1> HIDE DEF f
<1>13. Terms(f, 16)
  <2>1. \A m \in 0 .. 15 : f[m] \in Int
    BY <1>11, <1>12
  <2>2. 16 - 1 = 15
    OBVIOUS
  <2> QED
    BY <2>1, <2>2 DEF Terms
<1> DEFINE T == {m \in 0 .. 16 : ProductMod(f, m) = PowerMod(x, e % 2 ^ m)}
<1>14. 0 \in T
  <2>1. ProductMod(f, 0) = 1 /\ PowerMod(x, 0) = 1
    BY <1>2, <1>13, PowerTurn, ProductTurn
  <2>2. 2 ^ 0 = 1
    BY PowerAssumption
  <2>3. e % 1 = 0
    BY <1>2, Z3
  <2>4. ProductMod(f, 0) = PowerMod(x, e % 2 ^ 0)
    BY <2>1, <2>2, <2>3
  <2> QED
    BY <2>4
<1>15. ASSUME NEW m \in 0 .. 16 - 1, m \in T
       PROVE  m + 1 \in T
  <2> DEFINE q == 2 ^ m
             r == e % q
             b == (e \div q) % 2
  <2>1. m \in 0 .. 15 /\ m \in 0 .. 16 /\ m + 1 \in 0 .. 16
    OBVIOUS
  <2>2. q \in Nat \ {0} /\ 2 ^ (m + 1) = 2 * q
    BY <2>1, Powers, PowerAssumption
  <2>3. f[m] = IF b = 1 THEN PowerMod(x, q) ELSE 1
    BY <1>11, <1>12, <2>1
  <2>4. ProductMod(f, m) = PowerMod(x, r)
    BY <1>15
  <2>5. ProductMod(f, m + 1) = (ProductMod(f, m) * f[m]) % P
    BY <1>13, <2>1, ProductTurn
  <2> HIDE DEF q
  <2>6. r \in Nat /\ b \in {0, 1} /\ e % (2 * q) = r + b * q
    BY <1>2, <2>2, BitDigit
  <2> HIDE DEF r, b
  <2>7. ProductMod(f, m + 1) = PowerMod(x, r + b * q)
    <3>1. CASE b = 1
      <4>1. PowerMod(x, r + q) = (PowerMod(x, r) * PowerMod(x, q)) % P /\ b * q = q
        BY <1>2, <2>2, <2>6, <3>1, PowerSplit
      <4> QED
        BY <2>3, <2>4, <2>5, <3>1, <4>1
    <3>2. CASE b = 0
      <4>1. r + b * q = r
        BY <2>2, <2>6, <3>2
      <4>2. PowerMod(x, r) \in Zp
        BY <1>2, <2>6, PowerTurn
      <4>3. PowerMod(x, r) * 1 = PowerMod(x, r) /\ PowerMod(x, r) % P = PowerMod(x, r)
        BY <4>2, Reduced
      <4> QED
        BY <2>3, <2>4, <2>5, <3>2, <4>1, <4>3
    <3> QED
      BY <2>6, <3>1, <3>2
  <2>8. ProductMod(f, m + 1) = PowerMod(x, e % 2 ^ (m + 1))
    BY <2>2, <2>6, <2>7
  <2> QED
    BY <2>1, <2>8
<1> HIDE DEF T
<1>16. ProductMod(f, 16) = PowerMod(x, e % 2 ^ 16)
  <2>1. 16 \in Nat /\ 16 \in 0 .. 16
    OBVIOUS
  <2>2. \A m \in 0 .. 16 : m \in T
    BY <1>14, <1>15, <2>1, UpTo
  <2> QED
    BY <2>1, <2>2 DEF T
<1>17. e % 2 ^ 16 = e
  <2> DEFINE v == 2 ^ 16
  <2>1. Root < v /\ v \in Nat \ {0} /\ Root \in Nat
    BY Steps, Powers
  <2> HIDE DEF v
  <2>2. e \in 0 .. v - 1
    BY <2>1
  <2>3. e % v = e
    BY <2>1, <2>2, ModSmall
  <2> QED
    BY <2>3 DEF v
<1> QED
  BY <1>1, <1>16, <1>17

\* A common factor.
LEMMA SumScale ==
  ASSUME NEW n \in Nat, NEW f, Terms(f, n), NEW c \in Int, NEW h,
         \A k \in 0 .. n - 1 : h[k] = f[k] * c
  PROVE  SumMod(h, n) = (SumMod(f, n) * c) % P
<1>1. Terms(h, n)
  BY DEF Terms
<1> DEFINE S == {k \in 0 .. n : SumMod(h, k) = (SumMod(f, k) * c) % P}
<1>2. 0 \in S
  <2>1. SumMod(h, 0) = 0 /\ SumMod(f, 0) = 0
    BY <1>1, SumTurn
  <2>2. 0 * c = 0 /\ 0 % P = 0
    BY Modulus, Reduced
  <2> QED
    BY <2>1, <2>2
<1>3. ASSUME NEW k \in 0 .. n - 1, k \in S
      PROVE  k + 1 \in S
  <2> DEFINE s == SumMod(f, k)
  <2>1. s \in Zp /\ SumMod(f, k + 1) = (s + f[k]) % P
        /\ SumMod(h, k + 1) = (SumMod(h, k) + h[k]) % P
    BY <1>1, SumTurn
  <2>2. SumMod(h, k) = (s * c) % P /\ h[k] = f[k] * c /\ f[k] \in Int
    BY <1>3 DEF Terms
  <2> HIDE DEF s
  <2>3. s \in Int /\ s * c \in Int /\ f[k] * c \in Int /\ s + f[k] \in Int
        /\ (s + f[k]) * c = (s * c) + (f[k] * c)
    BY <2>1, <2>2, Reduced, Z3
  <2>4. (((s * c) % P) + (f[k] * c)) % P = ((s * c) + (f[k] * c)) % P
    BY <2>3, Within
  <2>5. (((s + f[k]) % P) * c) % P = ((s + f[k]) * c) % P
    BY <2>3, Within
  <2>6. SumMod(h, k + 1) = (SumMod(f, k + 1) * c) % P
    BY <2>1, <2>2, <2>3, <2>4, <2>5
  <2> QED
    BY <2>6
<1> HIDE DEF S
<1>4. \A k \in 0 .. n : k \in S
  BY <1>2, <1>3, UpTo
<1> QED
  BY <1>4 DEF S

\* The check of Paterson and Stockmeyer is 1 in the range and 0 outside: baby and
\* giant steps meet every term of the polynomial once.
LEMMA CheckIsPolynomial ==
  ASSUME NEW x \in Zp
  PROVE  RangeCheck[x] = IF InRange(x) THEN 1 ELSE 0
<1> DEFINE C == RangeCheckIndices
           baby == calUptoDegreeK(x, Root)
           y == baby[Root]
           giant == calUptoDegreeK(y, Root)
           row(i) == [j \in 0 .. Root - 1 |-> C[i * Root + j] * baby[j + 1]]
           levelSum(i) == SumMod(row(i), Root)
           T == [i \in 0 .. Root - 1 |-> levelSum(i) * (IF i = 0 THEN 1 ELSE giant[i])]
           F == [k \in 0 .. P - 2 |-> C[k] * PowerMod(x, k + 1)]
<1>1. RangeCheck[x] = (1 - SumMod(T, Root)) % P
  BY DEF RangeCheck, PatersonStockmeyer
<1>2. Root \in Nat \ {0} /\ Root * Root = P - 1 /\ Root \in 1 .. Root /\ x \in Int
      /\ Root \in Nat
  BY Steps, Reduced
<1>3. \A j \in 0 .. Root - 1 : baby[j + 1] = PowerMod(x, j + 1)
  <2> TAKE j \in 0 .. Root - 1
  <2>1. j + 1 \in 1 .. Root
    BY <1>2
  <2> HIDE DEF baby
  <2>2. calUptoDegreeK(x, Root)[j + 1] = PowerMod(x, j + 1)
    BY <1>2, <2>1, StepsArePowers
  <2> QED
    BY <2>2 DEF baby
<1>4. y = PowerMod(x, Root) /\ y \in Zp
  <2>1. calUptoDegreeK(x, Root)[Root] = PowerMod(x, Root)
    BY <1>2, StepsArePowers
  <2>2. PowerMod(x, Root) \in Zp
    BY <1>2, PowerTurn
  <2> QED
    BY <2>1, <2>2
<1> HIDE DEF y
<1>5. \A i \in 1 .. Root - 1 : giant[i] = PowerMod(x, i * Root)
  <2> TAKE i \in 1 .. Root - 1
  <2>1. i \in 1 .. Root /\ i \in Nat
    BY <1>2
  <2>2. calUptoDegreeK(y, Root)[i] = PowerMod(y, i)
    BY <1>2, <1>4, <2>1, StepsArePowers
  <2>3. PowerMod(PowerMod(x, Root), i) = PowerMod(x, i * Root)
    BY <1>2, <2>1, PowerPower
  <2> QED
    BY <1>4, <2>2, <2>3
<1> HIDE DEF baby, giant
<1>6. \A k \in 0 .. P - 2 : F[k] = C[k] * PowerMod(x, k + 1) /\ F[k] \in Int /\ C[k] \in Int
  <2> TAKE k \in 0 .. P - 2
  <2>1. k \in Nat /\ k + 1 \in Nat
    OBVIOUS
  <2>2. PowerMod(x, k + 1) \in Int /\ C[k] \in Int
    <3>1. PowerMod(x, k + 1) \in Zp
      BY <1>2, <2>1, PowerTurn
    <3>2. C[k] \in Zp
      BY DetectAssumption
    <3> QED
      BY <3>1, <3>2, Reduced
  <2>3. F[k] = C[k] * PowerMod(x, k + 1)
    OBVIOUS
  <2> QED
    BY <2>2, <2>3
<1> HIDE DEF C
<1>7. SumMod(F, P - 1) = IF InRange(x) THEN 0 ELSE 1
  BY PolynomialAssumption DEF C
<1> HIDE DEF F
<1>8. \A i \in 0 .. Root - 1, j \in 0 .. Root - 1 :
        /\ row(i)[j] = C[i * Root + j] * PowerMod(x, j + 1) /\ row(i)[j] \in Int
        /\ i * Root + j \in 0 .. P - 2
  <2> SUFFICES ASSUME NEW i \in 0 .. Root - 1, NEW j \in 0 .. Root - 1
               PROVE  /\ row(i)[j] = C[i * Root + j] * PowerMod(x, j + 1)
                      /\ row(i)[j] \in Int
                      /\ i * Root + j \in 0 .. P - 2
    OBVIOUS
  <2>1. i * Root + j \in 0 .. P - 2
    <3> DEFINE p == i * Root
               q == (Root - 1) * Root
    <3>1. p <= q /\ q = Root * Root - Root /\ p \in Nat /\ q \in Int
      BY <1>2, Z3
    <3> HIDE DEF p, q
    <3>2. p + j \in 0 .. P - 2
      BY <1>2, <3>1, Modulus
    <3> QED
      BY <3>2 DEF p
  <2>2. row(i)[j] = C[i * Root + j] * PowerMod(x, j + 1)
    BY <1>3
  <2>3. j + 1 \in Nat /\ PowerMod(x, j + 1) \in Zp
    BY <1>2, PowerTurn
  <2>4. PowerMod(x, j + 1) \in Int /\ C[i * Root + j] \in Int
    BY <1>6, <2>1, <2>3, Reduced
  <2> QED
    BY <2>1, <2>2, <2>4
<1>9. ASSUME NEW i \in 0 .. Root - 1
      PROVE  /\ levelSum(i) \in Zp /\ levelSum(i) \in Int
             /\ T[i] = levelSum(i) * PowerMod(x, i * Root)
             /\ i * Root \in Nat /\ PowerMod(x, i * Root) \in Int
  <2>1. Terms(row(i), Root)
    BY <1>8 DEF Terms
  <2>2. levelSum(i) \in Zp /\ levelSum(i) \in Int
    BY <1>2, <2>1, SumTurn, Reduced
  <2>3. T[i] = levelSum(i) * (IF i = 0 THEN 1 ELSE giant[i])
    OBVIOUS
  <2>4. i * Root \in Nat
    BY <1>2
  <2>5. PowerMod(x, i * Root) = IF i = 0 THEN 1 ELSE giant[i]
    <3>1. CASE i = 0
      <4>1. i * Root = 0 /\ PowerMod(x, 0) = 1
        BY <1>2, <3>1, PowerTurn
      <4> QED
        BY <3>1, <4>1
    <3>2. CASE i # 0
      BY <1>5, <3>2
    <3> QED
      BY <3>1, <3>2
  <2>6. PowerMod(x, i * Root) \in Zp
    BY <1>2, <2>4, PowerTurn
  <2> QED
    BY <2>2, <2>3, <2>4, <2>5, <2>6, Reduced
<1> HIDE DEF T, levelSum, row
<1>10. Terms(T, Root)
  <2>1. \A i \in 0 .. Root - 1 : T[i] \in Int
    <3> TAKE i \in 0 .. Root - 1
    <3> DEFINE u == levelSum(i)
               v == PowerMod(x, i * Root)
    <3>1. u \in Int /\ v \in Int /\ T[i] = u * v
      BY <1>9
    <3> HIDE DEF u, v
    <3> QED
      BY <3>1
  <2> QED
    BY <2>1 DEF Terms
<1> DEFINE S == {i \in 0 .. Root : SumMod(F, i * Root) = SumMod(T, i)}
<1>11. Terms(F, P - 1)
  <2>1. (P - 1) - 1 = P - 2
    BY Modulus
  <2> QED
    BY <1>6, <2>1 DEF Terms
<1>12. 0 \in S
  <2>1. P - 1 \in Nat /\ 0 * Root = 0
    BY <1>2, Modulus
  <2>2. SumMod(F, 0) = 0 /\ SumMod(T, 0) = 0
    BY <1>2, <1>10, <1>11, <2>1, SumTurn
  <2> QED
    BY <1>2, <2>1, <2>2
<1>13. ASSUME NEW i \in 0 .. Root - 1, i \in S
       PROVE  i + 1 \in S
  <2> DEFINE b == i * Root
             w == PowerMod(x, b)
             l == levelSum(i)
             h == [j \in 0 .. Root - 1 |-> row(i)[j] * w]
             F2 == [j \in 0 .. Root - 1 |-> F[b + j]]
             s == SumMod(T, i)
  <2>1. b \in Nat /\ w \in Int /\ l \in Int /\ T[i] = l * w /\ l = SumMod(row(i), Root)
    BY <1>9 DEF levelSum
  <2>2. SumMod(F, b) = s
    BY <1>13
  <2>3. \A j \in 0 .. Root - 1 : /\ h[j] = row(i)[j] * w /\ F2[j] = F[b + j]
                                 /\ row(i)[j] \in Int /\ b + j \in 0 .. P - 2
    BY <1>8
  <2> HIDE DEF b, l
  <2>4. Terms(row(i), Root)
    BY <2>3 DEF Terms
  <2> HIDE DEF h, F2
  <2>5. SumMod(h, Root) = (l * w) % P
    <3> HIDE DEF w
    <3>1. SumMod(h, Root) = (SumMod(row(i), Root) * w) % P
      BY <1>2, <2>1, <2>3, <2>4, SumScale
    <3> QED
      BY <2>1, <3>1
  <2>6. \A j \in 0 .. Root - 1 : F2[j] % P = h[j] % P /\ F2[j] \in Int /\ h[j] \in Int
    <3> TAKE j \in 0 .. Root - 1
    <3> DEFINE c == C[b + j]
               v == PowerMod(x, j + 1)
    <3>1. row(i)[j] = c * v /\ b + j \in 0 .. P - 2
      BY <1>8, <2>3 DEF b
    <3>2. (b + j) + 1 = b + (j + 1) /\ j + 1 \in Nat
      BY <2>1
    <3>3. F2[j] = c * PowerMod(x, b + (j + 1)) /\ c \in Int /\ F2[j] \in Int
      BY <1>6, <2>3, <3>1, <3>2
    <3>4. PowerMod(x, b + (j + 1)) = (w * v) % P
      BY <1>2, <2>1, <3>2, PowerSplit
    <3>5. v \in Zp /\ v \in Int
      BY <1>2, <3>2, PowerTurn, Reduced
    <3>6. h[j] = (c * v) * w
      BY <2>3, <3>1
    <3> HIDE DEF c, v, w
    <3>7. w * v \in Int /\ c * v \in Int /\ (c * v) * w = c * (w * v) /\ h[j] \in Int
      BY <2>1, <3>3, <3>5, <3>6, Z3
    <3>8. (c * ((w * v) % P)) % P = (c * (w * v)) % P /\ (w * v) % P \in Int
      <4> DEFINE e == w * v
      <4>1. e \in Int
        BY <3>7
      <4> HIDE DEF e
      <4>2. (c * (e % P)) % P = (c * e) % P /\ e % P \in Int
        BY <3>3, <4>1, Within, Reduced
      <4> QED
        BY <4>2 DEF e
    <3>9. F2[j] % P = (c * (w * v)) % P
      BY <3>3, <3>4, <3>8
    <3> QED
      BY <3>3, <3>6, <3>7, <3>9
  <2>7. SumMod(F2, Root) = SumMod(h, Root)
    <3>1. Terms(F2, Root) /\ Terms(h, Root)
      BY <2>6 DEF Terms
    <3> QED
      BY <1>2, <2>6, <3>1, SumSame
  <2>8. SumMod(F, b + Root) = (SumMod(F, b) + SumMod(F2, Root)) % P
    <3>1. Terms(F, b + Root)
      <4>1. b + Root - 1 \in 0 .. P - 2
        <5>1. Root - 1 \in 0 .. Root - 1 /\ b + (Root - 1) = b + Root - 1
          BY <1>2, <2>1
        <5> QED
          BY <2>3, <5>1
      <4>2. \A k \in 0 .. (b + Root) - 1 : k \in 0 .. P - 2
        BY <1>2, <2>1, <4>1, Modulus
      <4> QED
        BY <1>6, <4>2 DEF Terms
    <3> QED
      BY <1>2, <2>1, <2>3, <3>1, SumAppend
  <2>9. SumMod(T, i + 1) = (s + T[i]) % P /\ s \in Zp /\ s \in Int
    BY <1>2, <1>10, SumTurn, Reduced
  <2> HIDE DEF s, w
  <2>10. (s + ((l * w) % P)) % P = (s + (l * w)) % P
    <3>1. l * w \in Int
      BY <2>1
    <3> QED
      BY <2>9, <3>1, Within
  <2>11. SumMod(F, b + Root) = SumMod(T, i + 1)
    BY <2>1, <2>2, <2>5, <2>7, <2>8, <2>9, <2>10
  <2>12. (i + 1) * Root = b + Root /\ i + 1 \in 0 .. Root
    BY <1>2, Z3 DEF b
  <2> QED
    BY <2>11, <2>12
<1> HIDE DEF S
<1>14. \A i \in 0 .. Root : i \in S
  BY <1>2, <1>12, <1>13, UpTo
<1>15. SumMod(F, Root * Root) = SumMod(T, Root)
  <2>1. Root \in 0 .. Root
    BY <1>2
  <2> QED
    BY <1>14, <2>1 DEF S
<1>16. SumMod(T, Root) = IF InRange(x) THEN 0 ELSE 1
  BY <1>2, <1>7, <1>15
<1>17. (1 - 0) % P = 1 /\ (1 - 1) % P = 0
  BY Modulus, Reduced
<1> QED
  BY <1>1, <1>16, <1>17

-----------------------------------------------------------------------------
(* A clue in a batch. *)

Clue == [a : [Coordinate -> Zp], b : [Component -> Zp]]

\* What a slot holds for a clue: b - <a, s> less P \div 4; where the subtraction
\* from b wraps, it comes out one too large, as Word is 1 modulo P.
LEMMA SlotValue ==
  ASSUME NEW batch, NEW count \in Nat, NEW j \in Slot, j < count,
         NEW s \in [Coordinate -> Zp], NEW l \in Component, batch[j] \in Clue
  PROVE  LET v == computeBplusAS(batch, count, s, l)[j]
             i == Inner(batch[j].a, s)
         IN  /\ v \in Zp /\ i \in Zp
             /\ \E t \in {0, 1} : v = ((batch[j].b[l] - i) + (t - P \div 4)) % P
<1> DEFINE key == genSwitchingKeyPVWPacked(s)
           c == batch[j]
           b == c.b[l]
           q == P \div 4
           i == Inner(c.a, s)
           x == (IF b >= q THEN b - q ELSE Word + b - q)
           v == computeBplusAS(batch, count, s, l)[j]
<1>1. c.a \in [Coordinate -> Zp] /\ b \in Zp
  BY DEF Clue
<1>2. InnerInSlot(batch, key, j) = i /\ i \in Zp
  BY <1>1, InnerTurned
<1>3. v = ((x % P) - InnerInSlot(batch, key, j)) % P
  BY DEF computeBplusAS
<1>4. P \in Nat \ {0} /\ q \in Int /\ b \in Int /\ i \in Int
  <2>1. P \in Nat \ {0}
    BY Modulus
  <2>2. q \in Int
    BY <2>1, Z3
  <2> QED
    BY <1>1, <1>2, <2>1, <2>2, Reduced
<1>5. PICK k \in Int : Word = k * P + 1
  <2>1. Word \in Int /\ Word % P = 1
    BY DetectAssumption
  <2>2. Word \div P \in Int /\ Word = (Word \div P) * P + (Word % P)
    BY <1>4, <2>1, ModSplit
  <2> QED
    BY <2>1, <2>2
<1> HIDE DEF x, v, i, b, q, key, c
<1>6. PICK t \in {0, 1}, h \in Int : x = (b + (t - q)) + h * P
  <2>1. CASE b >= q
    <3>1. x = (b + (0 - q)) + 0 * P
      BY <1>4, <2>1 DEF x
    <3> QED
      BY <3>1
  <2>2. CASE ~(b >= q)
    <3>1. x = (b + (1 - q)) + k * P
      BY <1>4, <1>5, <2>2, Z3 DEF x
    <3> QED
      BY <3>1
  <2> QED
    BY <2>1, <2>2
<1>7. x % P = (b + (t - q)) % P
  <2> DEFINE u == b + (t - q)
  <2>1. u \in Int
    BY <1>4
  <2> HIDE DEF u
  <2>2. (u + h * P) % P = u % P
    BY <1>4, <2>1, ModShift
  <2> QED
    BY <1>6, <2>2 DEF u
<1>8. v = ((b - i) + (t - q)) % P /\ v \in Zp
  <2> DEFINE u == b + (t - q)
             m == -i
  <2>1. u \in Int /\ m \in Int /\ (u % P) \in Int
    <3>1. u \in Int
      BY <1>4
    <3> QED
      BY <1>4, <3>1, Reduced
  <2>2. v = ((u % P) + m) % P
    BY <1>2, <1>3, <1>4, <1>7, <2>1
  <2>3. u + m = (b - i) + (t - q) /\ u + m \in Int
    BY <1>4, <2>1
  <2> HIDE DEF u, m
  <2>4. ((u % P) + m) % P = (u + m) % P /\ (u + m) % P \in Zp
    BY <2>1, <2>3, Within, Reduced
  <2> QED
    BY <2>2, <2>3, <2>4
<1> QED
  BY <1>2, <1>8 DEF v, i, b, q, c

\* The quarter that clues lie around, and the range around it.
LEMMA Quarter ==
  /\ P \div 4 \in Nat /\ 2 * (P \div 4) <= P \div 2 /\ P \div 2 < P
  /\ RangeToCheck \in Nat /\ 1 <= RangeToCheck /\ RangeToCheck < P \div 4
<1> DEFINE q == P \div 4
<1>1. P \in Nat /\ P > 2
  BY Modulus
<1>2. q \in Nat /\ 2 * q <= P \div 2 /\ P \div 2 < P
  BY <1>1, Z3
<1>3. RangeToCheck \in 1 .. q - 1
  BY DetectAssumption
<1> HIDE DEF q
<1>4. RangeToCheck \in Nat /\ 1 <= RangeToCheck /\ RangeToCheck < q
  BY <1>2, <1>3
<1> QED
  BY <1>2, <1>4 DEF q

\* An own clue comes out as its noise, or one above it: in range.
LEMMA OwnInRange ==
  ASSUME NEW batch, NEW count \in Nat, NEW j \in Slot, j < count, NEW l \in Component,
         NEW sk \in [Component -> [Coordinate -> Zp]], NEW a, NEW e \in [Component -> Noise],
         batch[j] = PVWEnc(a, sk, e), batch[j] \in Clue
  PROVE  InRange(computeBplusAS(batch, count, sk[l], l)[j])
<1> DEFINE s == sk[l]
           v == computeBplusAS(batch, count, s, l)[j]
           i == Inner(a, s)
           q == P \div 4
           n == e[l]
           b == batch[j].b[l]
           R == RangeToCheck
<1>1. s \in [Coordinate -> Zp]
  OBVIOUS
<1>2. batch[j].a = a /\ b = (i + q + n) % P
  BY DEF PVWEnc
<1>3. v \in Zp /\ i \in Zp /\ \E t \in {0, 1} : v = ((b - i) + (t - q)) % P
  BY <1>1, <1>2, SlotValue
<1>4. n \in Noise /\ Noise \subseteq -R .. R - 1
  BY OmrAssumption
<1>5. P \in Nat \ {0} /\ q \in Nat /\ i \in Int /\ R \in Nat /\ R < q /\ 2 * q <= P
  <2>1. P \in Nat \ {0} /\ 2 * (P \div 2) = P - 1
    BY Modulus
  <2>2. i \in Int
    <3> HIDE DEF i
    <3> QED
      BY <1>3, Reduced
  <2>3. P \div 2 \in Int
    BY <2>1, Z3
  <2> DEFINE w == P \div 2
  <2>4. w \in Int /\ 2 * q <= w /\ w < P /\ q \in Nat /\ R \in Nat /\ R < q
    BY <2>3, Quarter
  <2> HIDE DEF w, q
  <2> QED
    BY <2>1, <2>2, <2>4
<1> HIDE DEF s, v, i, q, n, b, R
<1>6. PICK t \in {0, 1} : v = ((b - i) + (t - q)) % P
  BY <1>3
<1>7. n \in Int /\ -R <= n /\ n <= R - 1
  BY <1>4, <1>5
<1>8. PICK h \in Int : b = (i + q + n) + h * P
  <2>1. i + q + n \in Int
    BY <1>5, <1>7
  <2> QED
    BY <1>2, <1>5, <2>1, ModWitness
<1>9. v = (n + t) % P
  <2>1. (b - i) + (t - q) = (n + t) + h * P /\ n + t \in Int
    BY <1>5, <1>7, <1>8, Z3
  <2> DEFINE u == n + t
  <2>2. u \in Int
    BY <2>1
  <2> HIDE DEF u
  <2>3. (u + h * P) % P = u % P
    BY <1>5, <2>2, ModShift
  <2> QED
    BY <1>6, <2>1, <2>3 DEF u
<1>10. CASE n + t >= 0
  <2>1. n + t \in 0 .. P - 1 /\ n + t <= R
    BY <1>5, <1>7, <1>10
  <2>2. v = n + t
    BY <1>5, <1>9, <2>1, ModSmall
  <2>3. v <= R
    BY <2>1, <2>2
  <2> QED
    BY <2>3 DEF InRange, v, R, s
<1>11. CASE ~(n + t >= 0)
  <2> DEFINE u == n + t + P
  <2>1. u \in 0 .. P - 1 /\ u >= P - R /\ u - P = n + t
    BY <1>5, <1>7, <1>11
  <2> HIDE DEF u
  <2>2. (u - P) % P = u
    BY <1>5, <2>1, ModSmall
  <2>3. v >= P - R
    BY <1>9, <2>1, <2>2
  <2> QED
    BY <2>3 DEF InRange, v, R, s
<1> QED
  BY <1>10, <1>11

\* A component that comes out in range is in the lower half.
LEMMA InRangeDecrypts ==
  ASSUME NEW batch, NEW count \in Nat, NEW j \in Slot, j < count, NEW l \in Component,
         NEW s \in [Coordinate -> Zp], batch[j] \in Clue,
         InRange(computeBplusAS(batch, count, s, l)[j])
  PROVE  (batch[j].b[l] - Inner(batch[j].a, s)) % P < P \div 2
<1> DEFINE v == computeBplusAS(batch, count, s, l)[j]
           i == Inner(batch[j].a, s)
           b == batch[j].b[l]
           q == P \div 4
           R == RangeToCheck
           d == b - i
<1>1. v \in Zp /\ i \in Zp /\ \E t \in {0, 1} : v = (d + (t - q)) % P
  BY SlotValue
<1>2. b \in Zp
  BY DEF Clue
<1>3. /\ P \in Nat \ {0} /\ q \in Nat /\ 2 * q <= P \div 2 /\ P \div 2 < P
      /\ R \in Nat /\ 1 <= R /\ R < q /\ P \div 2 \in Int
  <2>1. P \in Nat \ {0} /\ 2 * (P \div 2) = P - 1
    BY Modulus
  <2>2. P \div 2 \in Int
    BY <2>1, Z3
  <2> QED
    BY <2>1, <2>2, Quarter
<1>4. b \in Int /\ i \in Int /\ d \in Int /\ v \in Int /\ v \in 0 .. P - 1
  <2>1. b \in Int /\ i \in Int /\ v \in Int
    BY <1>1, <1>2, Reduced
  <2> QED
    BY <1>1, <2>1 DEF Zp
<1>5. v <= R \/ v >= P - R
  BY DEF InRange
<1> HIDE DEF v, i, b, q, R, d
<1>6. PICK t \in {0, 1} : v = (d + (t - q)) % P
  BY <1>1
<1>7. PICK h \in Int : v = (d + (t - q)) + h * P
  <2>1. d + (t - q) \in Int
    BY <1>3, <1>4
  <2> QED
    BY <1>3, <1>6, <2>1, ModWitness
<1> DEFINE w == P \div 2
<1>8. w \in Int /\ 2 * q <= w /\ w < P
  BY <1>3
<1> HIDE DEF w
<1>9. \E k \in 0 .. w - 1, g \in Int : d = k + g * P
  <2>1. CASE v <= R
    <3> DEFINE k == v + q - t
    <3>1. k \in 0 .. w - 1 /\ -h \in Int
      BY <1>3, <1>4, <1>8, <2>1
    <3>2. d = k + (-h) * P
      BY <1>3, <1>4, <1>7, Z3
    <3> QED
      BY <3>1, <3>2
  <2>2. CASE v >= P - R
    <3> DEFINE k == (v - P) + q - t
    <3>1. k \in 0 .. w - 1 /\ 1 - h \in Int
      BY <1>3, <1>4, <1>8, <2>2
    <3>2. d = k + (1 - h) * P
      BY <1>3, <1>4, <1>7, Z3
    <3> QED
      BY <3>1, <3>2
  <2> QED
    BY <1>5, <2>1, <2>2
<1>10. PICK k \in 0 .. w - 1, g \in Int : d = k + g * P
  BY <1>9
<1>11. d % P = k
  <2>1. k \in 0 .. P - 1 /\ k \in Int
    BY <1>3, <1>8
  <2>2. (k + g * P) % P = k % P /\ k % P = k
    BY <1>3, <2>1, ModShift, ModSmall
  <2> QED
    BY <1>10, <2>2
<1>12. d % P < w
  BY <1>8, <1>11
<1> QED
  BY <1>12 DEF d, b, i, w

\* The product of bits is 1 if they all are, and else 0.
LEMMA ProductOfBits ==
  ASSUME NEW n \in Nat, NEW f, \A k \in 0 .. n - 1 : f[k] \in {0, 1}
  PROVE  ProductMod(f, n) = IF \A k \in 0 .. n - 1 : f[k] = 1 THEN 1 ELSE 0
<1>1. Terms(f, n)
  BY DEF Terms
<1> DEFINE All(m) == \A k \in 0 .. m - 1 : f[k] = 1
           S == {m \in 0 .. n : ProductMod(f, m) = IF All(m) THEN 1 ELSE 0}
<1>2. 0 \in S
  <2>1. ProductMod(f, 0) = 1
    BY <1>1, ProductTurn
  <2>2. All(0)
    OBVIOUS
  <2> HIDE DEF All
  <2> QED
    BY <2>1, <2>2
<1>3. ASSUME NEW m \in 0 .. n - 1, m \in S
      PROVE  m + 1 \in S
  <2>1. ProductMod(f, m + 1) = (ProductMod(f, m) * f[m]) % P
    BY <1>1, ProductTurn
  <2>2. ProductMod(f, m) = IF All(m) THEN 1 ELSE 0
    BY <1>3
  <2>3. All(m + 1) <=> All(m) /\ f[m] = 1
    <3>1. \A k : k \in 0 .. (m + 1) - 1 <=> k \in 0 .. m - 1 \/ k = m
      OBVIOUS
    <3> QED
      BY <3>1, Zenon
  <2> HIDE DEF All
  <2>4. 0 % P = 0 /\ 1 % P = 1 /\ f[m] \in {0, 1}
    BY Modulus, Reduced
  <2>5. ProductMod(f, m + 1) = IF All(m + 1) THEN 1 ELSE 0
    <3>1. CASE All(m) /\ f[m] = 1
      <4>1. 1 * 1 = 1
        OBVIOUS
      <4> QED
        BY <2>1, <2>2, <2>3, <2>4, <3>1, <4>1
    <3>2. CASE ~All(m)
      <4>1. 0 * f[m] = 0
        BY <2>4
      <4> QED
        BY <2>1, <2>2, <2>3, <2>4, <3>2, <4>1
    <3>3. CASE All(m) /\ f[m] = 0
      <4>1. 1 * 0 = 0
        OBVIOUS
      <4> QED
        BY <2>1, <2>2, <2>3, <2>4, <3>3, <4>1
    <3> QED
      BY <2>4, <3>1, <3>2, <3>3
  <2> QED
    BY <2>5
<1> HIDE DEF S
<1>4. n \in S
  BY <1>2, <1>3, UpTo
<1> QED
  BY <1>4 DEF S

\* The bit of a clue: 1 if all its components come out in range, and else 0.
LEMMA BitOfClue ==
  ASSUME NEW batch, NEW count \in Nat, NEW j \in Slot, j < count,
         NEW sk \in [Component -> [Coordinate -> Zp]], batch[j] \in Clue
  PROVE  ObtainPackedSIC(batch, count, sk)[j]
           = IF \A l \in Component : InRange(computeBplusAS(batch, count, sk[l], l)[j])
             THEN 1 ELSE 0
<1> DEFINE cts == [l \in Component |->
                     [i \in Slot |-> RangeCheck[computeBplusAS(batch, count, sk[l], l)[i]]]]
           f == [l \in Component |-> cts[l][j]]
           Within0(l) == InRange(computeBplusAS(batch, count, sk[l], l)[j])
<1>1. ObtainPackedSIC(batch, count, sk)[j] = ProductMod(f, Ell)
  BY DEF ObtainPackedSIC, EvalMultMany
<1>2. Ell \in Nat /\ Component = 0 .. Ell - 1
  BY DetectAssumption DEF Component
<1>3. \A l \in Component : f[l] = IF Within0(l) THEN 1 ELSE 0
  <2> TAKE l \in Component
  <2>1. f[l] = RangeCheck[computeBplusAS(batch, count, sk[l], l)[j]]
    OBVIOUS
  <2>2. sk[l] \in [Coordinate -> Zp]
    OBVIOUS
  <2> DEFINE v == computeBplusAS(batch, count, sk[l], l)[j]
  <2>3. v \in Zp
    BY <2>2, SlotValue
  <2> HIDE DEF v
  <2>4. RangeCheck[v] = IF InRange(v) THEN 1 ELSE 0
    BY <2>3, CheckIsPolynomial
  <2> QED
    BY <2>1, <2>4 DEF v
<1> HIDE DEF f, Within0
<1>4. \A k \in 0 .. Ell - 1 : f[k] \in {0, 1}
  BY <1>2, <1>3
<1>5. ProductMod(f, Ell) = IF \A k \in 0 .. Ell - 1 : f[k] = 1 THEN 1 ELSE 0
  BY <1>2, <1>4, ProductOfBits
<1>6. (\A k \in 0 .. Ell - 1 : f[k] = 1) <=> \A l \in Component : Within0(l)
  <2>1. \A l \in Component : f[l] = 1 <=> Within0(l)
    BY <1>3
  <2> QED
    BY <1>2, <2>1
<1> QED
  BY <1>1, <1>5, <1>6 DEF Within0

\* Detection of one clue: its bit is a bit, it is set for an own clue, and a set bit
\* belongs to a clue that decrypts to zeros.
LEMMA ClueDetected ==
  ASSUME NEW batch, NEW count \in Nat, NEW j \in Slot, j < count,
         NEW sk \in [Component -> [Coordinate -> Zp]], batch[j] \in Clue
  PROVE  LET bit == ObtainPackedSIC(batch, count, sk)[j]
         IN  /\ bit \in {0, 1}
             /\ (\E a \in [Coordinate -> Zp], e \in [Component -> Noise] :
                  batch[j] = PVWEnc(a, sk, e)) => bit = 1
             /\ bit = 1 => DecryptsToZeros(batch[j], sk)
<1> DEFINE bit == ObtainPackedSIC(batch, count, sk)[j]
           Within0(l) == InRange(computeBplusAS(batch, count, sk[l], l)[j])
<1>1. bit = IF \A l \in Component : Within0(l) THEN 1 ELSE 0
  BY BitOfClue
<1>2. ASSUME NEW a \in [Coordinate -> Zp], NEW e \in [Component -> Noise],
             batch[j] = PVWEnc(a, sk, e)
      PROVE  \A l \in Component : Within0(l)
  BY <1>2, OwnInRange
<1>3. ASSUME \A l \in Component : Within0(l)
      PROVE  DecryptsToZeros(batch[j], sk)
  <2>1. ASSUME NEW l \in Component
        PROVE  (batch[j].b[l] - Inner(batch[j].a, sk[l])) % P < P \div 2
    <3>1. sk[l] \in [Coordinate -> Zp] /\ Within0(l)
      BY <1>3
    <3> QED
      BY <3>1, InRangeDecrypts
  <2> QED
    BY <2>1 DEF DecryptsToZeros
<1> HIDE DEF bit, Within0
<1>4. bit \in {0, 1}
  BY <1>1
<1>5. (\E a \in [Coordinate -> Zp], e \in [Component -> Noise] : batch[j] = PVWEnc(a, sk, e))
       => bit = 1
  BY <1>1, <1>2
<1>6. bit = 1 => DecryptsToZeros(batch[j], sk)
  BY <1>1, <1>3
<1> QED
  BY <1>4, <1>5, <1>6 DEF bit

-----------------------------------------------------------------------------
(* Batches and workers. *)

Sized == scheme \in DOMAIN Sizes /\ size \in Sizes[scheme]

LEMMA SizesTyped ==
  ASSUME Sized
  PROVE  /\ size.count \in 1 .. MaxCount /\ size.cores \in Nat \ {0} /\ MaxCount \in Nat
         /\ size.count \in Nat \ {0} /\ Degree \in Nat \ {0}
<1>1. size.count \in 1 .. MaxCount /\ size.cores \in Nat \ {0} /\ MaxCount \in Nat
  BY OmrAssumption DEF Sized
<1>2. Degree \in Nat \ {0}
  BY Rings
<1> QED
  BY <1>1, <1>2

\* The batches that the workers take are those there are, and each has at most a
\* ciphertext of messages.
LEMMA BatchOfWorker ==
  ASSUME Sized, NEW w \in Workers, NEW m \in 0 .. PerWorker - 1
  PROVE  LET b == w * PerWorker + m
         IN  /\ b \in Batches /\ BatchSize(b) \in Nat
             /\ \A j \in 0 .. BatchSize(b) - 1 :
                  /\ j \in Slot /\ j < BatchSize(b)
                  /\ Start(b) + j \in 0 .. size.count - 1
<1> DEFINE b == w * PerWorker + m
           n == size.count
           d == Degree
           B == BatchCount
<1>1. n \in 1 .. MaxCount /\ size.cores \in Nat \ {0} /\ MaxCount \in Nat /\ d \in Nat \ {0}
  BY SizesTyped
<1>2. B = (n + d - 1) \div d
  BY DEF BatchCount
<1>3. B \in Nat /\ B * d <= n + d - 1
  <2> HIDE DEF n, d, B
  <2> DEFINE u == n + d - 1
  <2>1. u \in Nat
    BY <1>1
  <2> HIDE DEF u
  <2>2. u \div d \in Int /\ u % d \in 0 .. d - 1 /\ u = (u \div d) * d + (u % d)
    BY <1>1, <2>1, ModSplit
  <2>3. u \div d \in Nat
    BY <1>1, <2>1, Z3
  <2> DEFINE p == u \div d
             q == p * d
  <2>4. q \in Int /\ q <= u
    BY <1>1, <2>1, <2>2
  <2>5. B = p
    BY <1>2 DEF u
  <2> QED
    BY <2>3, <2>4, <2>5 DEF u
<1>4. b \in 0 .. B - 1
  <2>1. CASE scheme = "OMR2"
    <3>1. PerWorker = 1 /\ w \in 0 .. B - 1
      BY <2>1 DEF PerWorker, Workers
    <3>2. m = 0 /\ w * 1 = w
      BY <1>3, <3>1
    <3> QED
      BY <1>3, <3>1, <3>2
  <2>2. CASE scheme # "OMR2"
    <3> DEFINE c == size.cores
               r == PerWorker
    <3>1. r = B \div c /\ w \in 0 .. c - 1 /\ c \in Nat \ {0} /\ m \in 0 .. r - 1
      BY <1>1, <2>2 DEF PerWorker, Workers
    <3>2. b = w * r + m
      OBVIOUS
    <3> HIDE DEF c, r, b, B
    <3>3. r \in Nat /\ r * c <= B
      <4>1. B \div c \in Int /\ B % c \in 0 .. c - 1 /\ B = (B \div c) * c + (B % c)
        BY <1>3, <3>1, ModSplit
      <4>2. B \div c \in Nat
        BY <1>3, <3>1, Z3
      <4>3. B = r * c + (B % c) /\ r \in Nat
        BY <3>1, <4>1, <4>2
      <4> DEFINE q == r * c
      <4>4. q \in Nat
        BY <3>1, <4>3
      <4> HIDE DEF q
      <4>5. q <= B
        BY <1>3, <4>1, <4>3, <4>4 DEF q
      <4> QED
        BY <4>3, <4>5 DEF q
    <3>4. w * r >= 0 /\ w * r <= (c - 1) * r /\ (c - 1) * r = r * c - r /\ w * r \in Int
      BY <3>1, <3>3, Z3
    <3> DEFINE x == w * r
               y == r * c
    <3>5. x >= 0 /\ x <= y - r /\ y <= B /\ x \in Int /\ y \in Int
      BY <3>1, <3>3, <3>4
    <3> HIDE DEF x, y
    <3>6. x + m \in 0 .. B - 1
      BY <1>3, <3>1, <3>3, <3>5
    <3> QED
      BY <3>2, <3>6 DEF x
  <2> QED
    BY <2>1, <2>2
<1> HIDE DEF b, B, n, d
<1>5. b \in Batches
  <2> DEFINE A == (MaxCount + d - 1) \div d
             u == MaxCount + d - 1
             v == n + d - 1
  <2>1. u \in Nat /\ v \in Nat /\ v <= u
    BY <1>1
  <2>2. A = u \div d
    OBVIOUS
  <2> HIDE DEF A, u
  <2>3. A \in Int /\ u % d \in 0 .. d - 1 /\ u = A * d + (u % d)
    BY <1>1, <2>1, <2>2, ModSplit
  <2>4. B * d < (A + 1) * d
    <3>1. (A + 1) * d = A * d + d /\ A * d \in Int /\ B * d \in Int
      BY <1>1, <1>3, <2>3
    <3> DEFINE x == A * d
               y == B * d
               z == (A + 1) * d
    <3>2. z = x + d /\ x \in Int /\ y \in Int /\ y <= v /\ u = x + (u % d)
      BY <1>3, <2>3, <3>1
    <3> HIDE DEF x, y, z
    <3>3. y < z
      BY <1>1, <2>1, <2>3, <3>2
    <3> QED
      BY <3>3 DEF y, z
  <2>5. B < A + 1
    BY <1>1, <1>3, <2>3, <2>4, Z3
  <2>6. b \in 0 .. A - 1
    BY <1>3, <1>4, <2>3, <2>5
  <2> QED
    BY <2>6 DEF Batches, A, d
<1>6. Start(b) = b * d /\ b * d \in Nat /\ b * d <= n - 1
  <2>1. b <= B - 1 /\ b \in Nat
    BY <1>3, <1>4
  <2>2. b * d <= (B - 1) * d /\ (B - 1) * d = B * d - d /\ b * d \in Nat
    BY <1>1, <1>3, <2>1, Z3
  <2> DEFINE x == b * d
             y == B * d
  <2>3. x <= y - d /\ y <= n + d - 1 /\ x \in Nat /\ y \in Int
    BY <1>1, <1>3, <2>2
  <2> HIDE DEF x, y
  <2>4. x <= n - 1 /\ x \in Nat
    BY <1>1, <2>3
  <2> QED
    BY <2>4 DEF x, Start, d
<1> DEFINE k == BatchSize(b)
<1>7. k \in Nat /\ k <= d /\ k <= n - Start(b)
  <2> DEFINE o == n - Start(b)
             T == {d, o}
  <2>1. o \in Nat
    BY <1>1, <1>6
  <2>2. k = Min(T)
    BY DEF BatchSize, n, d
  <2> HIDE DEF o, k
  <2>3. \E x \in T : \A y \in T : x <= y
    <3>1. CASE d <= o
      BY <1>1, <2>1, <3>1
    <3>2. CASE ~(d <= o)
      BY <1>1, <2>1, <3>2
    <3> QED
      BY <3>1, <3>2
  <2>4. k \in T /\ \A y \in T : k <= y
    BY <2>2, <2>3 DEF Min
  <2> QED
    BY <1>1, <2>1, <2>4 DEF o
<1> HIDE DEF k
<1>8. ASSUME NEW j \in 0 .. k - 1
      PROVE  j \in Slot /\ j < k /\ Start(b) + j \in 0 .. n - 1
  <2>1. j \in 0 .. d - 1 /\ j < k
    BY <1>1, <1>7
  <2>2. Start(b) \in Nat /\ Start(b) <= n - 1
    BY <1>6
  <2>3. Start(b) + j \in 0 .. n - 1
    BY <1>1, <1>7, <2>2
  <2> QED
    BY <2>1, <2>3 DEF Slot, d
<1> QED
  BY <1>5, <1>7, <1>8 DEF b, k, n

\* A worker that has a batch is the number of one.
LEMMA WorkerInBatches ==
  ASSUME Sized, NEW w \in Workers, NEW m \in 0 .. PerWorker - 1
  PROVE  w \in Batches
<1> DEFINE r == PerWorker
           b == w * r + m
           A == (MaxCount + Degree - 1) \div Degree
<1>1. b \in 0 .. A - 1 /\ A \in Int
  <2>1. b \in Batches
    BY BatchOfWorker
  <2>2. MaxCount + Degree - 1 \in Int /\ Degree \in Nat \ {0}
    BY SizesTyped
  <2> DEFINE u == MaxCount + Degree - 1
  <2>3. u \in Int
    BY <2>2
  <2> HIDE DEF u
  <2>4. u \div Degree \in Int
    BY <2>2, <2>3, ModSplit
  <2> QED
    BY <2>1, <2>4 DEF Batches, u
<1>2. w \in Nat /\ r \in Int
  <2>1. BatchCount \in Int /\ size.cores \in Nat \ {0}
    <3>1. size.count \in Nat /\ size.cores \in Nat \ {0} /\ Degree \in Nat \ {0}
      BY SizesTyped
    <3> DEFINE u == size.count + Degree - 1
    <3>2. u \in Int
      BY <3>1
    <3> HIDE DEF u
    <3>3. u \div Degree \in Int
      BY <3>1, <3>2, ModSplit
    <3> QED
      BY <3>1, <3>3 DEF BatchCount, u
  <2>2. BatchCount \div size.cores \in Int
    BY <2>1, ModSplit
  <2> QED
    BY <2>1, <2>2 DEF Workers, PerWorker
<1> HIDE DEF r, A, b
<1>3. m \in Nat /\ r >= 1
  BY <1>2 DEF r
<1>4. w * r >= w /\ w * r \in Nat
  BY <1>2, <1>3, Z3
<1>5. b >= w /\ b = w * r + m
  <2> DEFINE x == w * r
  <2>1. x >= w /\ x \in Nat /\ b = x + m
    BY <1>4 DEF b
  <2> HIDE DEF x
  <2>2. b >= w
    BY <1>2, <1>3, <2>1
  <2> QED
    BY <2>1, <2>2 DEF x
<1>6. w \in 0 .. A - 1
  BY <1>1, <1>2, <1>5
<1> QED
  BY <1>6 DEF Batches, A

-----------------------------------------------------------------------------
(* Detection. *)

\* The clues of batch b, as Detect loads them.
BatchClues(b) == [j \in 0 .. BatchSize(b) - 1 |-> clues[Start(b) + j]]

\* What the sender published.
Published ==
  /\ pertinent \subseteq 0 .. size.count - 1
  /\ \A i \in 0 .. size.count - 1 : clues[i] \in Clue
  /\ \A i \in pertinent : \E e \in [Component -> Noise] : clues[i] = PVWEnc(Mask[i], Key, e)

\* What the workers have done so far: the batches they finished are checked.
Checked ==
  /\ turn \in [Batches -> Nat]
  /\ packed = [b \in Batches |-> packed[b]]
  /\ \A w \in Workers, m \in 0 .. PerWorker - 1 :
       m < turn[w] =>
         LET b == w * PerWorker + m
         IN  packed[b] = ObtainPackedSIC(BatchClues(b), BatchSize(b), Key)

DetectInv ==
  /\ Sized
  /\ phase = "send" => turn = [w \in Batches |-> 0] /\ packed = [b \in Batches |-> packed[b]]
  /\ phase = "detect" => Published /\ Checked
  /\ phase \notin {"send", "detect"} => pertinent \subseteq hits

\* A clue is of its type.
LEMMA ClueTyped ==
  ASSUME NEW a \in [Coordinate -> Zp], NEW sk \in [Component -> [Coordinate -> Zp]],
         NEW e \in [Component -> Int]
  PROVE  PVWEnc(a, sk, e) \in Clue
<1>1. ASSUME NEW l \in Component
      PROVE  (Inner(a, sk[l]) + P \div 4 + e[l]) % P \in Zp
  <2> DEFINE f == [i \in Coordinate |-> a[i] * sk[l][i]]
  <2>1. Dim \in Nat /\ Coordinate = 0 .. Dim - 1
    BY Rings DEF Coordinate
  <2>2. \A i \in 0 .. Dim - 1 : f[i] \in Int
    <3> TAKE i \in 0 .. Dim - 1
    <3>1. a[i] \in Zp /\ sk[l][i] \in Zp /\ f[i] = a[i] * sk[l][i]
      BY <2>1
    <3>2. a[i] \in Int /\ sk[l][i] \in Int
      BY <3>1, Reduced
    <3> QED
      BY <3>1, <3>2
  <2>3. Terms(f, Dim)
    BY <2>2 DEF Terms
  <2>4. Inner(a, sk[l]) = SumMod(f, Dim)
    BY DEF Inner
  <2> HIDE DEF f
  <2>5. Inner(a, sk[l]) \in Int
    BY <2>1, <2>3, <2>4, SumTurn, Reduced
  <2>6. P \div 4 \in Int /\ e[l] \in Int
    BY Quarter
  <2> QED
    BY <2>5, <2>6, Reduced
<1> QED
  BY <1>1 DEF PVWEnc, Clue

\* Prepare publishes clues of zeros, own ones with noise that stays in the range.
LEMMA PreparePublishes ==
  ASSUME DetectInv, NEW chosen, NEW foreign \in ForeignKeys,
         NEW e \in [Component -> Noise], Prepare(chosen, foreign, e)
  PROVE  Published'
<1> DEFINE z == [l \in Component |-> 0]
<1>1. Key \in [Component -> [Coordinate -> Zp]] /\ foreign \in [Component -> [Coordinate -> Zp]]
  BY OmrAssumption
<1>2. e \in [Component -> Int] /\ z \in [Component -> Int]
  <2>1. Noise \subseteq Int
    <3>1. Noise \subseteq -RangeToCheck .. RangeToCheck - 1 /\ RangeToCheck \in Int
      BY OmrAssumption, Quarter
    <3> QED
      BY <3>1
  <2>2. \A l \in Component : e[l] \in Int
    BY <2>1
  <2>3. e = [l \in Component |-> e[l]]
    OBVIOUS
  <2>4. z \in [Component -> Int]
    OBVIOUS
  <2> HIDE DEF z
  <2> QED
    BY <2>2, <2>3, <2>4
<1>3. \A i \in 0 .. size.count - 1 : i \in Message
  BY SizesTyped DEF DetectInv, Message
<1>4. chosen \subseteq 0 .. size.count - 1 /\ pertinent' = chosen /\ size' = size
  BY DEF Prepare
<1>5. \A i \in 0 .. size.count - 1 :
         clues'[i] = IF i \in chosen THEN PVWEnc(Mask[i], Key, e) ELSE PVWEnc(Mask[i], foreign, z)
  BY DEF Prepare
<1> HIDE DEF z
<1>6. \A i \in 0 .. size.count - 1 : clues'[i] \in Clue
  <2> TAKE i \in 0 .. size.count - 1
  <2>1. Mask[i] \in [Coordinate -> Zp]
    BY <1>3, OmrAssumption
  <2>2. PVWEnc(Mask[i], Key, e) \in Clue /\ PVWEnc(Mask[i], foreign, z) \in Clue
    BY <1>1, <1>2, <2>1, ClueTyped
  <2> QED
    BY <1>5, <2>2
<1>7. \A i \in chosen : clues'[i] = PVWEnc(Mask[i], Key, e)
  BY <1>4, <1>5
<1> QED
  BY <1>4, <1>6, <1>7 DEF Published

\* A turn of a worker checks the batch it is at, and touches no other.
LEMMA DetectChecks ==
  ASSUME DetectInv, NEW w \in Batches, Detect(w)
  PROVE  Checked'
<1> DEFINE t == turn[w]
           b0 == w * PerWorker + t
           batch(b) == [j \in 0 .. BatchSize(b) - 1 |-> clues[Start(b) + j]]
           Sic(b) == ObtainPackedSIC(batch(b), BatchSize(b), Key)
<1>1. Checked /\ Sized /\ w \in Workers /\ t < PerWorker
  BY DEF DetectInv, Detect
<1>2. t \in Nat
  BY <1>1 DEF Checked
<1>3. packed' = [packed EXCEPT ![b0] = Sic(b0)] /\ turn' = [turn EXCEPT ![w] = t + 1]
  BY DEF Detect, Batch
<1>4. scheme' = scheme /\ size' = size /\ clues' = clues
  BY DEF Detect
<1>5. t \in 0 .. PerWorker - 1 /\ PerWorker \in Int
  <2>1. PerWorker \in Int
    <3>1. size.count \in Nat /\ size.cores \in Nat \ {0} /\ Degree \in Nat \ {0}
      BY <1>1, SizesTyped
    <3> DEFINE u == size.count + Degree - 1
               B == u \div Degree
    <3>2. u \in Int
      BY <3>1
    <3> HIDE DEF u
    <3>3. B \in Int
      BY <3>1, <3>2, ModSplit
    <3>4. BatchCount = B
      BY DEF BatchCount, u
    <3> HIDE DEF B
    <3>5. BatchCount \div size.cores \in Int
      BY <3>1, <3>3, <3>4, ModSplit
    <3> QED
      BY <3>5 DEF PerWorker
  <2> QED
    BY <1>1, <1>2, <2>1
<1>6. b0 \in Batches
  BY <1>1, <1>5, BatchOfWorker
<1>7. /\ Workers' = Workers /\ PerWorker' = PerWorker
      /\ \A b : BatchSize(b)' = BatchSize(b) /\ BatchClues(b)' = batch(b)
  BY <1>4 DEF Workers, PerWorker, BatchCount, BatchSize, Start, BatchClues
<1>8. \A b : batch(b) = BatchClues(b)
  BY DEF BatchClues
<1> HIDE DEF batch
<1>9. turn' \in [Batches -> Nat]
  BY <1>1, <1>2, <1>3 DEF Checked
<1>10. packed' = [b \in Batches |-> packed'[b]] /\ packed'[b0] = Sic(b0)
       /\ \A b \in Batches : b # b0 => packed'[b] = packed[b]
  <2>1. packed = [b \in Batches |-> packed[b]]
    BY <1>1 DEF Checked
  <2> HIDE DEF b0, Sic
  <2> QED
    BY <1>3, <1>6, <2>1
<1>11. ASSUME NEW x \in Workers, NEW m \in 0 .. PerWorker - 1, m < turn'[x]
       PROVE  packed'[x * PerWorker + m] = Sic(x * PerWorker + m)
  <2> DEFINE b == x * PerWorker + m
  <2>1. b \in Batches
    BY <1>1, BatchOfWorker
  <2>2. CASE b = b0
    <3> HIDE DEF b, b0, Sic
    <3>1. packed'[b] = Sic(b)
      BY <1>10, <2>2
    <3> QED
      BY <3>1 DEF b
  <2>3. CASE b # b0
    <3>1. m < turn[x]
      <4>1. CASE x = w
        <5>1. turn'[x] = t + 1
          BY <1>1, <1>3, <4>1 DEF Checked
        <5>2. m # t
          BY <2>3, <4>1
        <5> QED
          BY <1>2, <1>11, <4>1, <5>1, <5>2
      <4>2. CASE x # w
        <5>1. turn'[x] = turn[x]
          BY <1>1, <1>3, <4>2 DEF Checked
        <5> QED
          BY <1>11, <5>1
      <4> QED
        BY <4>1, <4>2
    <3>2. packed[b] = Sic(b)
      BY <1>1, <1>8, <3>1 DEF Checked
    <3>3. packed'[b] = packed[b]
      <4> HIDE DEF b, b0, Sic
      <4> QED
        BY <1>10, <2>1, <2>3
    <3> QED
      BY <3>2, <3>3
  <2> QED
    BY <2>2, <2>3
<1> HIDE DEF Sic
<1>12. \A b : Sic(b) = ObtainPackedSIC(BatchClues(b)', BatchSize(b)', Key)
  BY <1>7 DEF Sic
<1> QED
  BY <1>7, <1>9, <1>10, <1>11, <1>12 DEF Checked

\* What is known of a message in a batch that is checked.
LEMMA MessageDetected ==
  ASSUME Sized, Published, Checked, NEW w \in Workers, NEW m \in 0 .. PerWorker - 1,
         m < turn[w], NEW j \in 0 .. BatchSize(w * PerWorker + m) - 1
  PROVE  LET i   == Start(w * PerWorker + m) + j
             bit == packed[w * PerWorker + m][j]
         IN  /\ bit \in {0, 1}
             /\ i \in pertinent => bit = 1
             /\ bit = 1 => DecryptsToZeros(clues[i], Key)
<1> DEFINE b == w * PerWorker + m
           n == BatchSize(b)
           i == Start(b) + j
           bit == packed[b][j]
<1>1. Sized /\ Published /\ Checked
  BY DEF DetectInv
<1>2. n \in Nat /\ j \in Slot /\ j < n /\ i \in 0 .. size.count - 1
  BY <1>1, BatchOfWorker
<1>3. packed[b] = ObtainPackedSIC(BatchClues(b), n, Key)
  BY <1>1 DEF Checked
<1>4. BatchClues(b)[j] = clues[i] /\ clues[i] \in Clue
  BY <1>1, <1>2 DEF BatchClues, Published
<1>5. Key \in [Component -> [Coordinate -> Zp]]
  BY OmrAssumption
<1>6. i \in pertinent => \E a \in [Coordinate -> Zp], e \in [Component -> Noise] :
                            BatchClues(b)[j] = PVWEnc(a, Key, e)
  <2> SUFFICES ASSUME i \in pertinent
               PROVE  \E a \in [Coordinate -> Zp], e \in [Component -> Noise] :
                         BatchClues(b)[j] = PVWEnc(a, Key, e)
    OBVIOUS
  <2>1. PICK e \in [Component -> Noise] : clues[i] = PVWEnc(Mask[i], Key, e)
    BY <1>1 DEF Published
  <2>2. Mask[i] \in [Coordinate -> Zp]
    <3>1. i \in Message
      BY <1>1, <1>2, SizesTyped DEF Message
    <3> QED
      BY <3>1, OmrAssumption
  <2> QED
    BY <1>4, <2>1, <2>2
<1> DEFINE batch == BatchClues(b)
<1> HIDE DEF b, n, i, batch
<1>7. batch[j] \in Clue
  BY <1>4 DEF batch
<1>8. LET c == ObtainPackedSIC(batch, n, Key)[j]
      IN  /\ c \in {0, 1}
          /\ (\E a \in [Coordinate -> Zp], e \in [Component -> Noise] :
                batch[j] = PVWEnc(a, Key, e)) => c = 1
          /\ c = 1 => DecryptsToZeros(batch[j], Key)
  BY <1>2, <1>5, <1>7, ClueDetected
<1>9. bit \in {0, 1} /\ (i \in pertinent => bit = 1)
      /\ (bit = 1 => DecryptsToZeros(clues[i], Key))
  BY <1>3, <1>4, <1>6, <1>8 DEF batch
<1> QED
  BY <1>9 DEF b, i

\* Every message is in the batch of some worker, at some place of it.
LEMMA WorkerOfMessage ==
  ASSUME Sized, NEW i \in 0 .. size.count - 1
  PROVE  \E w \in Workers, m \in 0 .. PerWorker - 1 :
            /\ w * PerWorker + m = i \div Degree
            /\ i % Degree \in 0 .. BatchSize(i \div Degree) - 1
            /\ Start(i \div Degree) + (i % Degree) = i
<1> DEFINE d == Degree
           n == size.count
           b == i \div d
           j == i % d
           B == BatchCount
<1>1. n \in Nat \ {0} /\ d \in Nat \ {0} /\ size.cores \in Nat \ {0}
  BY SizesTyped
<1>2. b \in Int /\ j \in 0 .. d - 1 /\ i = b * d + j
  <2>1. i \in Int
    BY <1>1
  <2> QED
    BY <1>1, <2>1, ModSplit
<1>3. B = (n + d - 1) \div d
  BY DEF BatchCount
<1> HIDE DEF d, n, b, j, B
<1>4. b \in Nat /\ b * d \in Nat
  BY <1>1, <1>2, Z3 DEF b
<1>5. B \in Int /\ b < B
  <2> DEFINE u == n + d - 1
             r == u % d
  <2>1. u \in Int
    BY <1>1
  <2> HIDE DEF u
  <2>2. B \in Int /\ r \in 0 .. d - 1 /\ u = B * d + r
    BY <1>1, <1>3, <2>1, ModSplit DEF u
  <2> HIDE DEF r
  <2>3. i \in Nat /\ i <= n - 1
    BY <1>1 DEF n
  <2>4. (b + 1) * d = b * d + d /\ B * d \in Int /\ (B + 1) * d = B * d + d
    BY <1>1, <1>4, <2>2, Z3
  <2> DEFINE x == b * d
             y == B * d
             z == (b + 1) * d
             v == (B + 1) * d
  <2>5. /\ x \in Nat /\ y \in Int /\ z = x + d /\ v = y + d /\ i = x + j
        /\ u = y + r /\ u = n + d - 1
    BY <1>2, <1>4, <2>2, <2>4 DEF u
  <2> HIDE DEF x, y, z, v
  <2>6. z < v
    BY <1>1, <1>2, <2>2, <2>3, <2>5
  <2>7. b + 1 < B + 1
    <3>1. (b + 1) * d < (B + 1) * d
      BY <2>6 DEF z, v
    <3> QED
      BY <1>1, <1>4, <2>2, <3>1, Z3
  <2> QED
    BY <1>4, <2>2, <2>7
<1>6. \E w \in Workers, m \in 0 .. PerWorker - 1 : w * PerWorker + m = b
  <2>1. CASE scheme = "OMR2"
    <3>1. PerWorker = 1 /\ Workers = 0 .. B - 1
      BY <2>1 DEF PerWorker, Workers, B
    <3>2. b \in Workers /\ 0 \in 0 .. PerWorker - 1 /\ b * PerWorker + 0 = b
      BY <1>4, <1>5, <3>1
    <3> QED
      BY <3>2
  <2>2. CASE scheme # "OMR2"
    <3> DEFINE c == size.cores
               k == PerWorker
    <3>1. c \in Nat \ {0} /\ k = B \div c /\ Workers = 0 .. c - 1
      BY <1>1, <2>2 DEF PerWorker, Workers, B
    <3>2. n % (c * d) = 0
      BY <2>2, OmrAssumption DEF Sized, n, d
    <3> HIDE DEF c, k
    <3>3. PICK e \in Int : n = e * (c * d)
      <4> DEFINE q == c * d
      <4>1. q \in Nat \ {0}
        BY <1>1, <3>1, Z3
      <4> HIDE DEF q
      <4>2. n \div q \in Int /\ n = (n \div q) * q + (n % q)
        BY <1>1, <4>1, ModSplit
      <4>3. (n \div q) * q \in Int
        BY <4>1, <4>2
      <4>4. n = (n \div q) * q
        BY <3>2, <4>2, <4>3 DEF q
      <4> QED
        BY <4>2, <4>4 DEF q
    <3>4. B = e * c
      <4> DEFINE f == e * c
      <4>1. f \in Int /\ n = f * d /\ f * d + (d - 1) = n + d - 1
        BY <1>1, <3>1, <3>3, Z3
      <4> HIDE DEF f
      <4>2. d - 1 \in 0 .. d - 1
        BY <1>1
      <4>3. ((f * d) + (d - 1)) \div d = f
        BY <1>1, <4>1, <4>2, DivDigit
      <4> QED
        BY <1>3, <4>1, <4>3 DEF f
    <3>5. k = e
      <4>1. 0 \in 0 .. c - 1 /\ e * c + 0 = e * c
        BY <3>1
      <4>2. (e * c + 0) \div c = e
        BY <3>1, <4>1, DivDigit
      <4> QED
        BY <3>1, <3>4, <4>1, <4>2
    <3>6. k \in Nat \ {0}
      <4>1. e * c > 0
        BY <1>4, <1>5, <3>4
      <4>2. e > 0
        BY <3>1, <4>1, Z3
      <4> QED
        BY <3>5, <4>2
    <3> DEFINE w == b \div k
               m == b % k
    <3>7. w \in Int /\ m \in 0 .. k - 1 /\ b = w * k + m
      BY <1>4, <3>6, ModSplit
    <3> HIDE DEF w, m
    <3>8. w \in 0 .. c - 1
      <4>1. w * k < c * k /\ w * k > -k
        <5>1. B = c * k /\ c * k \in Int /\ w * k \in Int
          BY <3>1, <3>4, <3>5, <3>6, <3>7, Z3
        <5> DEFINE x == w * k
                   y == c * k
        <5>2. B = y /\ x \in Int /\ y \in Int /\ b = x + m
          BY <3>7, <5>1
        <5> HIDE DEF x, y
        <5>3. x < y /\ x > -k
          BY <1>4, <1>5, <3>6, <3>7, <5>2
        <5> QED
          BY <5>3 DEF x, y
      <4>2. w < c
        BY <3>1, <3>6, <3>7, <4>1, Z3
      <4>3. w > -1
        BY <3>6, <3>7, <4>1, Z3
      <4> QED
        BY <3>1, <3>7, <4>2, <4>3
    <3> QED
      BY <3>1, <3>7, <3>8 DEF k
  <2> QED
    BY <2>1, <2>2
<1>7. j \in 0 .. BatchSize(b) - 1 /\ Start(b) + j = i
  <2> DEFINE o == n - Start(b)
             T == {d, o}
  <2>1. Start(b) = b * d
    BY DEF Start, d
  <2>2. BatchSize(b) = Min(T)
    BY DEF BatchSize, n, d
  <2>3. Start(b) + j = i /\ Start(b) \in Nat
    BY <1>2, <1>4, <2>1
  <2>4. o \in Int /\ j < o
    BY <1>1, <1>2, <2>3 DEF n
  <2> HIDE DEF o
  <2>5. \E x \in T : \A y \in T : x <= y
    <3>1. CASE d <= o
      BY <1>1, <2>4, <3>1
    <3>2. CASE ~(d <= o)
      BY <1>1, <2>4, <3>2
    <3> QED
      BY <3>1, <3>2
  <2>6. BatchSize(b) \in T
    BY <2>2, <2>5 DEF Min
  <2>7. j \in Nat /\ j < d /\ BatchSize(b) \in Int /\ j < BatchSize(b)
    BY <1>1, <1>2, <2>4, <2>6
  <2> QED
    BY <2>3, <2>7
<1> QED
  BY <1>6, <1>7 DEF b, j, d

\* Behind the barrier no message of the recipient is missing.
LEMMA BarrierComplete ==
  ASSUME Sized, Published, Checked, AllFinished
  PROVE  pertinent \subseteq Hits
<1> SUFFICES ASSUME NEW i \in pertinent
             PROVE  i \in Hits
  OBVIOUS
<1>1. i \in 0 .. size.count - 1
  BY DEF Published
<1>2. PICK w \in Workers, m \in 0 .. PerWorker - 1 :
        /\ w * PerWorker + m = i \div Degree
        /\ i % Degree \in 0 .. BatchSize(i \div Degree) - 1
        /\ Start(i \div Degree) + (i % Degree) = i
  BY <1>1, WorkerOfMessage
<1>3. m < turn[w]
  <2>1. turn[w] = PerWorker
    BY DEF AllFinished
  <2>2. w \in Batches
    BY WorkerInBatches
  <2>3. turn[w] \in Nat
    BY <2>2 DEF Checked
  <2> QED
    BY <2>1, <2>3
<1> DEFINE b == i \div Degree
           j == i % Degree
<1>4. w * PerWorker + m = b /\ j \in 0 .. BatchSize(b) - 1 /\ Start(b) + j = i
  BY <1>2
<1> HIDE DEF b, j
<1>5. packed[b][j] = 1
  <2>1. j \in 0 .. BatchSize(w * PerWorker + m) - 1
    BY <1>4
  <2>2. Start(w * PerWorker + m) + j \in pertinent
    BY <1>4
  <2>3. packed[w * PerWorker + m][j] = 1
    BY <1>3, <2>1, <2>2, MessageDetected
  <2> QED
    BY <1>4, <2>3
<1> QED
  BY <1>1, <1>5 DEF Hits, b, j

\* DetectInv is inductive: only Prepare and Detect work before retrieval.
LEMMA DetectInvHolds == Spec => []DetectInv
<1>1. Init => DetectInv
  BY DEF Init, DetectInv, Sized
<1>2. DetectInv /\ [Next]_vars => DetectInv'
  <2> SUFFICES ASSUME DetectInv, [Next]_vars
               PROVE  DetectInv'
    OBVIOUS
  <2>1. Sized
    BY DEF DetectInv
  <2>2. ASSUME NEW chosen \in PertinentSets, NEW foreign \in ForeignKeys,
               NEW e \in [Component -> Noise], Prepare(chosen, foreign, e)
        PROVE  DetectInv'
    <3>1. phase = "send" /\ phase' = "detect" /\ UNCHANGED <<scheme, size, turn, packed>>
      BY <2>2 DEF Prepare
    <3>2. Sized'
      BY <2>1, <3>1 DEF Sized
    <3>3. Published'
      BY <2>2, PreparePublishes
    <3>4. turn = [w \in Batches |-> 0] /\ packed = [b \in Batches |-> packed[b]]
      BY <3>1 DEF DetectInv
    <3>5. turn' \in [Batches -> Nat] /\ packed' = [b \in Batches |-> packed'[b]]
      BY <3>1, <3>4
    <3>6. ASSUME NEW w \in Workers', NEW m \in (0 .. PerWorker - 1)'
          PROVE  ~(m < turn'[w])
      <4>1. w \in Workers /\ m \in 0 .. PerWorker - 1
        BY <3>1, <3>6 DEF Workers, PerWorker, BatchCount
      <4>2. w * PerWorker + m \in Batches /\ w \in Batches
        BY <2>1, <4>1, BatchOfWorker, WorkerInBatches
      <4>3. turn'[w] = 0
        BY <3>1, <3>4, <4>2
      <4> QED
        BY <3>6, <4>3
    <3>7. Checked'
      BY <3>5, <3>6 DEF Checked
    <3> QED
      BY <3>1, <3>2, <3>3, <3>7 DEF DetectInv
  <2>3. ASSUME NEW w \in Batches, Detect(w)
        PROVE  DetectInv'
    <3>1. phase = "detect" /\ phase' = "detect" /\ UNCHANGED <<scheme, size, pertinent, clues>>
      BY <2>3 DEF Detect
    <3>2. Sized' /\ Published'
      BY <2>1, <3>1 DEF Sized, Published, DetectInv
    <3>3. Checked'
      BY <2>3, DetectChecks
    <3> QED
      BY <3>1, <3>2, <3>3 DEF DetectInv
  <2>4. ASSUME UNCHANGED <<scheme, size>>, phase' \notin {"send", "detect"},
               (pertinent \subseteq hits)'
        PROVE  DetectInv'
    <3>1. Sized'
      BY <2>1, <2>4 DEF Sized
    <3> QED
      BY <2>4, <3>1 DEF DetectInv
  <2>5. ASSUME phase \notin {"send", "detect"}, phase' \notin {"send", "detect"},
               UNCHANGED <<scheme, size, pertinent, hits>>
        PROVE  DetectInv'
    <3>1. pertinent \subseteq hits
      BY <2>5 DEF DetectInv
    <3> QED
      BY <2>4, <2>5, <3>1
  <2>6. ASSUME phase = "detect", AllFinished, hits' = Hits, pertinent' = pertinent
        PROVE  (pertinent \subseteq hits)'
    BY <2>6, BarrierComplete DEF DetectInv
  <2>7. ASSUME NEW g \in [Hits -> EdgeChoices], Distribute(g)
        PROVE  DetectInv'
    <3>1. /\ phase = "detect" /\ phase' = "retrieve" /\ AllFinished /\ hits' = Hits
          /\ UNCHANGED <<scheme, size, pertinent>>
      BY <2>7 DEF Distribute
    <3> QED
      BY <2>4, <2>6, <3>1
  <2>8. CASE AggregateBits
    <3>1. /\ phase = "detect" /\ phase' = "decode" /\ AllFinished /\ hits' = Hits
          /\ UNCHANGED <<scheme, size, pertinent>>
      BY <2>8 DEF AggregateBits
    <3> QED
      BY <2>4, <2>6, <3>1
  <2>9. ASSUME NEW w \in Batches, NEW slot \in Slots(w), Retrieve(w, slot)
        PROVE  DetectInv'
    <3>1. phase = "retrieve" /\ UNCHANGED <<scheme, size, phase, pertinent, hits>>
      BY <2>9 DEF Retrieve
    <3> QED
      BY <2>5, <3>1
  <2>10. CASE Aggregate
    <3>1. /\ phase = "retrieve" /\ phase' = "decode"
          /\ UNCHANGED <<scheme, size, pertinent, hits>>
      BY <2>10 DEF Aggregate
    <3> QED
      BY <2>5, <3>1
  <2>11. ASSUME NEW junk \in {0, 1}, Decode(junk)
        PROVE  DetectInv'
    <3>1. /\ phase = "decode" /\ phase' = "done"
          /\ UNCHANGED <<scheme, size, pertinent, hits>>
      BY <2>11 DEF Decode
    <3> QED
      BY <2>5, <3>1
  <2>12. CASE UNCHANGED vars
    <3>1. UNCHANGED <<scheme, size, phase, pertinent, clues, packed, turn, hits>>
      BY <2>12 DEF vars
    <3>2. Sized'
      BY <2>1, <3>1 DEF Sized
    <3>3. phase = "send" => (turn = [w \in Batches |-> 0] /\ packed = [b \in Batches |-> packed[b]])'
      BY <3>1 DEF DetectInv
    <3>4. phase = "detect" => Published'
      BY <3>1 DEF DetectInv, Published
    <3>5. phase = "detect" => Checked'
      BY <3>1 DEF DetectInv, Checked, Workers, PerWorker, BatchCount, BatchClues, BatchSize, Start
    <3>6. phase \notin {"send", "detect"} => (pertinent \subseteq hits)'
      BY <3>1 DEF DetectInv
    <3> QED
      BY <3>1, <3>2, <3>3, <3>4, <3>5, <3>6 DEF DetectInv
  <2> QED
    BY <2>2, <2>3, <2>7, <2>8, <2>9, <2>10, <2>11, <2>12 DEF Next, Stop
<1> QED
  BY <1>1, <1>2, PTL DEF Spec

\* Detection by the workers, in any order and over any batches: once a batch is
\* finished, the messages of the recipient have their bits set, the slots hold only
\* bits, and whoever has a set bit has a clue that decrypts to zeros under the
\* recipient's key, whatever key it was made with; and behind the barrier no message
\* of the recipient is missing (OwnDetected).
THEOREM DetectsOwn == Spec => []OwnDetected
<1>1. DetectInv => OwnDetected
  <2> SUFFICES ASSUME DetectInv
               PROVE  OwnDetected
    OBVIOUS
  <2>1. ASSUME phase = "detect", NEW w \in Workers, NEW m \in 0 .. PerWorker - 1, m < turn[w],
               NEW j \in 0 .. BatchSize(w * PerWorker + m) - 1
        PROVE  LET i   == Start(w * PerWorker + m) + j
                   bit == packed[w * PerWorker + m][j]
               IN  /\ bit \in {0, 1}
                   /\ i \in pertinent => bit = 1
                   /\ bit = 1 => DecryptsToZeros(clues[i], Key)
    BY <2>1, MessageDetected DEF DetectInv
  <2> QED
    BY <2>1 DEF OwnDetected, DetectInv
<1> QED
  BY <1>1, DetectInvHolds, PTL
=============================================================================
