---------------------------- MODULE ShuffleProofs ----------------------------
(***************************************************************************)
(* Theorems about Shuffle, for any number of elements, permutations and    *)
(* masks, over any abelian group of blocks.                                *)
(*                                                                         *)
(* Between a permuter's answer and the owner's receipt the share of one    *)
(* server is still a mask on the connection.  The inductive invariant says *)
(* for every stage of the two rounds what is on the connection and that    *)
(* the mask, less the owner's b, completes the sum.                        *)
(***************************************************************************)
EXTENDS Shuffle, SequenceTheorems, TLAPS

Sum == Plus(x0[ALICE], x0[BOB])
Once == SimplePerm(perm[BOB], Sum)
Twice == SimplePerm(perm[ALICE], Once)

\* The correlation of Offline, which nothing changes.
Correlated ==
  delta = [p \in Party |-> Minus(b[Peer(p)], SimplePerm(perm[p], a[Peer(p)]))]

\* Where the two servers are, and what they have sent.
Place(ra, rb, sa, sb) ==
  /\ round[ALICE] = ra /\ round[BOB] = rb
  /\ sent[ALICE] = sa /\ sent[BOB] = sb

\* ALICE has not sent her vector, or BOB has not answered it.
Start ==
  /\ Place(1, 1, FALSE, FALSE)
  /\ chan[ALICE] = <<>> /\ chan[BOB] = <<>>
  /\ x = x0

Asked ==
  /\ Place(1, 1, TRUE, FALSE)
  /\ chan[ALICE] = <<>> /\ chan[BOB] = <<Plus(x0[ALICE], a[ALICE])>>
  /\ x = x0

\* BOB's own vector of the second round may follow his answer at once.
Answered ==
  \E w \in Vector, s \in BOOLEAN :
     /\ Place(1, 2, TRUE, s)
     /\ chan[BOB] = <<>>
     /\ chan[ALICE] = IF s THEN <<w, Plus(x[BOB], a[BOB])>> ELSE <<w>>
     /\ Plus(Minus(w, b[ALICE]), x[BOB]) = Once

Halfway ==
  \E s \in BOOLEAN :
     /\ Place(2, 2, FALSE, s)
     /\ chan[BOB] = <<>>
     /\ chan[ALICE] = IF s THEN <<Plus(x[BOB], a[BOB])>> ELSE <<>>
     /\ Plus(out0[ALICE], x[BOB]) = Once

AnsweredAgain ==
  \E w \in Vector :
     /\ Place(3, 2, FALSE, TRUE)
     /\ chan[ALICE] = <<>> /\ chan[BOB] = <<w>>
     /\ Plus(out[ALICE], Minus(w, b[BOB])) = Twice

AnsweredFlat ==
  \E w \in Vector :
     /\ Place(1, 3, TRUE, FALSE)
     /\ chan[ALICE] = <<w>> /\ chan[BOB] = <<>>
     /\ Plus(Minus(w, b[ALICE]), out[BOB]) = Once

Over ==
  /\ Place(3, 3, FALSE, FALSE)
  /\ chan[ALICE] = <<>> /\ chan[BOB] = <<>>
  /\ Plus(out[ALICE], out[BOB]) = IF Flat THEN Once ELSE Twice

Stages ==
  IF Flat THEN x0[BOB] = Zeros /\ (Start \/ Asked \/ AnsweredFlat \/ Over)
  ELSE Start \/ Asked \/ Answered \/ Halfway \/ AnsweredAgain \/ Over

Inv == TypeOK /\ Correlated /\ Stages

-----------------------------------------------------------------------------
(* The group. *)

\* An owner's mask cancels what the permuter's delta adds.
LEMMA MasksCancel ==
  ASSUME NEW u \in Block, NEW m \in Block, NEW n \in Block, NEW w \in Block
  PROVE  Add(Sub(w, n), Sub(Add(Add(u, m), Sub(n, m)), w)) = u
<1> DEFINE s == Sub(w, n)
           t == Sub(Add(u, n), w)
<1>1. Add(Add(u, m), Sub(n, m)) = Add(u, n)
  <2>1. Add(Add(u, m), Sub(n, m)) = Add(u, Add(m, Sub(n, m)))
    BY GroupAssumption
  <2>2. Add(m, Sub(n, m)) = Add(Sub(n, m), m)
    BY GroupAssumption
  <2>3. Add(Sub(n, m), m) = n
    BY GroupAssumption
  <2> QED
    BY <2>1, <2>2, <2>3
<1>2. s \in Block /\ t \in Block /\ Add(u, n) \in Block
  BY GroupAssumption
<1>3. Add(s, n) = w /\ Add(t, w) = Add(u, n)
  BY <1>2, GroupAssumption
<1>4. Add(Add(t, s), n) = Add(t, Add(s, n))
  <2> HIDE DEF s, t
  <2> QED BY <1>2, GroupAssumption
<1>5. Add(Add(t, s), n) = Add(u, n)
  BY <1>3, <1>4
<1>6. Add(t, s) = u
  <2>1. Add(t, s) \in Block /\ Sub(Add(u, n), n) = u
    BY <1>2, GroupAssumption
  <2>2. Sub(Add(Add(t, s), n), n) = Add(t, s)
    <3> HIDE DEF s, t
    <3> QED BY <1>2, <2>1, GroupAssumption
  <2> QED
    BY <1>5, <2>1, <2>2
<1>7. Add(s, t) = Add(t, s)
  BY <1>2, GroupAssumption
<1> QED
  BY <1>1, <1>6, <1>7

\* A summand can be added to a sum on either side.
LEMMA AddRight ==
  ASSUME NEW u \in Block, NEW v \in Block, NEW y \in Block
  PROVE  /\ Add(Add(u, v), y) = Add(Add(u, y), v)
         /\ Add(u, Add(y, v)) = Add(Add(u, v), y)
BY GroupAssumption

-----------------------------------------------------------------------------
(* Vectors. *)

\* Sums, differences and permutations of vectors are vectors.
LEMMA VectorClosure ==
  ASSUME NEW u \in Vector, NEW v \in Vector, NEW q \in [Idx -> Idx]
  PROVE  /\ Plus(u, v) \in Vector
         /\ Minus(u, v) \in Vector
         /\ SimplePerm(q, u) \in Vector
         /\ Zeros \in Vector
BY GroupAssumption DEF Vector, Plus, Minus, SimplePerm, Zeros

\* PermuteShare: what the permuter keeps and the owner makes of the mask are
\* shares of the owner's vector permuted.
LEMMA RoundShares ==
  ASSUME NEW u \in Vector, NEW m \in Vector, NEW n \in Vector, NEW w \in Vector,
         NEW q \in [Idx -> Idx],
         NEW r, r = Minus(Plus(SimplePerm(q, Plus(u, m)),
                               Minus(n, SimplePerm(q, m))), w)
  PROVE  r \in Vector /\ Plus(Minus(w, n), r) = SimplePerm(q, u)
<1>1. r \in Vector
  BY VectorClosure
<1>2. \A k \in Idx : Add(Sub(w[k], n[k]), r[k]) = u[q[k]]
  <2> TAKE k \in Idx
  <2>1. /\ q[k] \in Idx /\ u[q[k]] \in Block /\ m[q[k]] \in Block
        /\ n[k] \in Block /\ w[k] \in Block
    BY DEF Vector
  <2>2. r[k] = Sub(Add(Add(u[q[k]], m[q[k]]), Sub(n[k], m[q[k]])), w[k])
    BY <2>1 DEF Plus, Minus, SimplePerm
  <2> QED
    BY <2>1, <2>2, MasksCancel
<1> QED
  BY <1>1, <1>2 DEF Plus, Minus, SimplePerm

\* Adding a permuted vector to a share adds it to the sum.
LEMMA RoundWithShare ==
  ASSUME NEW u \in Vector, NEW y \in Vector, NEW h \in Vector, NEW r \in Vector,
         NEW q \in [Idx -> Idx], Plus(h, r) = SimplePerm(q, u)
  PROVE  /\ Plus(h, Plus(SimplePerm(q, y), r)) = SimplePerm(q, Plus(u, y))
         /\ Plus(Plus(r, SimplePerm(q, y)), h) = SimplePerm(q, Plus(y, u))
<1>1. \A k \in Idx : /\ q[k] \in Idx /\ u[q[k]] \in Block /\ y[q[k]] \in Block
                     /\ h[k] \in Block /\ r[k] \in Block
  BY DEF Vector
<1>2. \A k \in Idx : Add(h[k], r[k]) = u[q[k]]
  <2> TAKE k \in Idx
  <2>1. Plus(h, r)[k] = SimplePerm(q, u)[k]
    OBVIOUS
  <2> QED
    BY <2>1 DEF Plus, SimplePerm
<1>3. \A k \in Idx : Add(h[k], Add(y[q[k]], r[k])) = Add(u[q[k]], y[q[k]])
  BY <1>1, <1>2, AddRight
<1>4. \A k \in Idx : Add(Add(r[k], y[q[k]]), h[k]) = Add(y[q[k]], u[q[k]])
  <2> TAKE k \in Idx
  <2>1. Add(Add(r[k], y[q[k]]), h[k]) = Add(Add(r[k], h[k]), y[q[k]])
    BY <1>1, AddRight
  <2>2. Add(r[k], h[k]) = u[q[k]]
    BY <1>1, <1>2, GroupAssumption
  <2>3. Add(u[q[k]], y[q[k]]) = Add(y[q[k]], u[q[k]])
    BY <1>1, GroupAssumption
  <2> QED
    BY <2>1, <2>2, <2>3
<1> QED
  BY <1>1, <1>3, <1>4 DEF Plus, SimplePerm

\* Sums and differences alone.
LEMMA Sums ==
  ASSUME NEW u \in Vector, NEW v \in Vector
  PROVE  Plus(u, v) \in Vector /\ Minus(u, v) \in Vector
BY GroupAssumption DEF Vector, Plus, Minus

\* What Append, Head and Tail do to the connection.
LEMMA TwoOnChannel ==
  ASSUME NEW S, NEW u \in S, NEW v \in S
  PROVE  /\ Append(<<u>>, v) = <<u, v>>
         /\ Head(<<u, v>>) = u /\ Tail(<<u, v>>) = <<v>>
         /\ Head(<<u>>) = u /\ Tail(<<u>>) = <<>>
<1>1. <<u>> \in Seq(S) /\ <<u, v>> \in Seq(S)
  OBVIOUS
<1>2. Append(<<u>>, v) = <<u, v>>
  <2>1. Append(<<u>>, v) \in Seq(S) /\ Len(Append(<<u>>, v)) = 2
    BY <1>1, AppendProperties
  <2>2. Append(<<u>>, v)[1] = u /\ Append(<<u>>, v)[2] = v
    BY <1>1, AppendProperties
  <2>3. \A i \in 1 .. 2 : Append(<<u>>, v)[i] = <<u, v>>[i]
    BY <2>2
  <2> QED
    BY <1>1, <2>1, <2>3, SeqEqual
<1>3. Head(<<u, v>>) = u
  BY <1>1
<1>4. Tail(<<u, v>>) = <<v>>
  BY <1>1
<1>5. Head(<<u>>) = u
  BY <1>1
<1>6. Tail(<<u>>) = <<>>
  BY <1>1
<1> QED
  BY <1>2, <1>3, <1>4, <1>5, <1>6

\* Adding a zero vector changes nothing.
LEMMA PlusZeros ==
  ASSUME NEW u \in Vector
  PROVE  Plus(u, Zeros) = u
BY GroupAssumption DEF Vector, Plus, Zeros

-----------------------------------------------------------------------------
(* The invariant. *)

\* Each party owns one of the two rounds.
LEMMA Parties ==
  /\ Party = {1, 2} /\ ALICE = 1 /\ BOB = 2
  /\ Peer(ALICE) = BOB /\ Peer(BOB) = ALICE
  /\ Owner(1) = ALICE /\ Owner(2) = BOB
BY DEF Party, ALICE, BOB, Peer, Owner

\* What the type invariant says of one party.
LEMMA Typing ==
  ASSUME TypeOK
  PROVE  \A p \in Party :
           /\ perm[p] \in [Idx -> Idx]
           /\ a[p] \in Vector /\ b[p] \in Vector /\ delta[p] \in Vector
           /\ x0[p] \in Vector /\ x[p] \in Vector
           /\ out0[p] \in Vector /\ out[p] \in Vector
BY ShuffleAssumption DEF TypeOK

\* What a permuter keeps of the owner's masked vector u, and the mask w: with
\* the owner's b they are shares of u permuted.
LEMMA KeptAndMask ==
  ASSUME TypeOK, Correlated, NEW p \in Party, NEW u \in Vector, NEW w \in Vector
  PROVE  /\ PermutedShare(p, Plus(u, a[Peer(p)]), w) \in Vector
         /\ Plus(Minus(w, b[Peer(p)]), PermutedShare(p, Plus(u, a[Peer(p)]), w))
              = SimplePerm(perm[p], u)
<1>1. Peer(p) \in Party
  BY DEF Peer, Party
<1>2. /\ a[Peer(p)] \in Vector /\ b[Peer(p)] \in Vector
      /\ perm[p] \in [Idx -> Idx]
  BY <1>1, Typing
<1>3. delta[p] = Minus(b[Peer(p)], SimplePerm(perm[p], a[Peer(p)]))
  BY DEF Correlated
<1> DEFINE m == a[Peer(p)]
           n == b[Peer(p)]
           q == perm[p]
           r == PermutedShare(p, Plus(u, m), w)
<1>4. r = Minus(Plus(SimplePerm(q, Plus(u, m)), Minus(n, SimplePerm(q, m))), w)
  BY <1>3 DEF PermutedShare
<1>5. r \in Vector /\ Plus(Minus(w, n), r) = SimplePerm(q, u)
  <2> HIDE DEF m, n, q, r
  <2>1. m \in Vector /\ n \in Vector /\ q \in [Idx -> Idx]
    BY <1>2 DEF m, n, q
  <2> QED
    BY <1>4, <2>1, RoundShares
<1> QED
  BY <1>5

\* The invariant holds at the start.
LEMMA InitInv == Init => Inv
<1> SUFFICES ASSUME Init PROVE Inv
  OBVIOUS
<1>1. TypeOK
  <2>1. Zeros \in Vector
    BY GroupAssumption DEF Zeros, Vector
  <2>2. delta \in [Party -> Vector]
    <3>1. \A p \in Party : /\ Peer(p) \in Party
                           /\ a[Peer(p)] \in Vector /\ b[Peer(p)] \in Vector
                           /\ perm[p] \in [Idx -> Idx]
      BY ShuffleAssumption DEF Init, Peer, Party
    <3> QED
      BY <3>1, VectorClosure DEF Init
  <2>3. x \in [Party -> Vector]
    BY ShuffleAssumption DEF Init
  <2> QED
    BY <2>1, <2>2, <2>3 DEF Init, TypeOK
<1>2. Correlated
  BY DEF Init, Correlated
<1>3. Stages
  BY Parties DEF Init, Stages, Start, Place
<1> QED
  BY <1>1, <1>2, <1>3 DEF Inv

(***************************************************************************)
(* The three actions, by the stage they can happen in.                     *)
(***************************************************************************)
LEMMA OwnerSendEffect ==
  ASSUME TypeOK, NEW p \in Party, OwnerSend(p)
  PROVE  /\ chan'[p] = chan[p]
         /\ chan'[Peer(p)] = Append(chan[Peer(p)], Plus(x[p], a[p]))
         /\ sent'[p] = TRUE /\ sent'[Peer(p)] = sent[Peer(p)]
         /\ round' = round
<1>1. Peer(p) \in Party /\ Peer(p) # p
  BY DEF Peer, Party, ALICE, BOB
<1>2. DOMAIN chan = Party /\ DOMAIN sent = Party
  BY DEF TypeOK
<1>3. /\ chan' = [chan EXCEPT ![Peer(p)] = Append(@, Plus(x[p], a[p]))]
      /\ sent' = [sent EXCEPT ![p] = TRUE]
      /\ round' = round
  BY DEF OwnerSend
<1>4. chan'[p] = chan[p] /\ chan'[Peer(p)] = Append(chan[Peer(p)], Plus(x[p], a[p]))
  BY <1>1, <1>2, <1>3
<1>5. sent'[p] = TRUE /\ sent'[Peer(p)] = sent[Peer(p)]
  BY <1>1, <1>2, <1>3
<1> QED
  BY <1>3, <1>4, <1>5

\* The owner's message keeps the invariant.
LEMMA OwnerSendInv ==
  ASSUME Inv, NEW p \in Party, OwnerSend(p)
  PROVE  Inv'
<1> USE Parties
<1>1. Plus(x[p], a[p]) \in Vector
  BY Typing, Sums DEF Inv
<1>2. TypeOK'
  BY <1>1, Typing DEF Inv, TypeOK, OwnerSend, setup
<1>3. Correlated'
  BY DEF Inv, Correlated, OwnerSend, setup
<1>4. Stages'
  <2>1. CASE Start
    <3>1. p = ALICE
      BY <2>1 DEF Start, Place, OwnerSend
    <3>2. Place(1, 1, TRUE, FALSE)'
      BY <2>1, <3>1, OwnerSendEffect DEF Start, Place, Inv
    <3>3. chan'[ALICE] = <<>> /\ chan'[BOB] = <<Plus(x0[ALICE], a[ALICE])>>
      BY <2>1, <3>1, OwnerSendEffect DEF Start, Inv
    <3>4. Asked'
      BY <2>1, <3>2, <3>3 DEF Start, Asked, OwnerSend, setup
    <3> QED
      BY <2>1, <3>4 DEF Inv, Stages, OwnerSend, setup, Zeros, Idx
  <2>2. CASE Asked
    BY <2>2 DEF Asked, Place, OwnerSend
  <2>3. CASE ~Flat /\ Answered
    <3>1. PICK w \in Vector, s \in BOOLEAN :
             /\ Place(1, 2, TRUE, s)
             /\ chan[BOB] = <<>>
             /\ chan[ALICE] = IF s THEN <<w, Plus(x[BOB], a[BOB])>> ELSE <<w>>
             /\ Plus(Minus(w, b[ALICE]), x[BOB]) = Once
      BY <2>3 DEF Answered
    <3>2. p = BOB /\ s = FALSE
      BY <3>1 DEF Place, OwnerSend
    <3>3. /\ Place(1, 2, TRUE, TRUE)'
          /\ chan'[BOB] = <<>>
          /\ chan'[ALICE] = <<w, Plus(x[BOB], a[BOB])>>
      <4>1. Place(1, 2, TRUE, TRUE)'
        BY <3>1, <3>2, OwnerSendEffect DEF Place, Inv
      <4>2. chan'[BOB] = chan[BOB] /\ chan'[ALICE] = Append(chan[ALICE], Plus(x[BOB], a[BOB]))
        BY <3>2, OwnerSendEffect DEF Inv
      <4>3. chan[ALICE] = <<w>> /\ chan[BOB] = <<>>
        BY <3>1, <3>2
      <4>4. Append(<<w>>, Plus(x[BOB], a[BOB])) = <<w, Plus(x[BOB], a[BOB])>>
        BY <1>1, <3>2, TwoOnChannel
      <4> QED
        BY <4>1, <4>2, <4>3, <4>4
    <3>4. Answered'
      BY <3>1, <3>3 DEF Answered, OwnerSend, setup, Once, Sum
    <3> QED
      BY <2>3, <3>4 DEF Stages
  <2>4. CASE ~Flat /\ Halfway
    <3>1. PICK s \in BOOLEAN :
             /\ Place(2, 2, FALSE, s)
             /\ chan[BOB] = <<>>
             /\ chan[ALICE] = IF s THEN <<Plus(x[BOB], a[BOB])>> ELSE <<>>
             /\ Plus(out0[ALICE], x[BOB]) = Once
      BY <2>4 DEF Halfway
    <3>2. p = BOB /\ s = FALSE
      BY <3>1 DEF Place, OwnerSend
    <3>3. /\ Place(2, 2, FALSE, TRUE)'
          /\ chan'[BOB] = <<>>
          /\ chan'[ALICE] = <<Plus(x[BOB], a[BOB])>>
      <4>1. Place(2, 2, FALSE, TRUE)'
        BY <3>1, <3>2, OwnerSendEffect DEF Place, Inv
      <4>2. chan'[BOB] = chan[BOB] /\ chan'[ALICE] = Append(chan[ALICE], Plus(x[BOB], a[BOB]))
        BY <3>2, OwnerSendEffect DEF Inv
      <4>3. chan[ALICE] = <<>> /\ chan[BOB] = <<>>
        BY <3>1, <3>2
      <4>4. Append(<<>>, Plus(x[BOB], a[BOB])) = <<Plus(x[BOB], a[BOB])>>
        OBVIOUS
      <4> QED
        BY <4>1, <4>2, <4>3, <4>4
    <3>4. Halfway'
      BY <3>1, <3>3 DEF Halfway, OwnerSend, setup, Once, Sum
    <3> QED
      BY <2>4, <3>4 DEF Stages
  <2>5. CASE AnsweredAgain \/ AnsweredFlat \/ Over
    BY <2>5 DEF AnsweredAgain, AnsweredFlat, Over, Place, OwnerSend
  <2> QED
    BY <2>1, <2>2, <2>3, <2>4, <2>5 DEF Inv, Stages
<1> QED
  BY <1>2, <1>3, <1>4 DEF Inv

\* What the owner's receive changes, party by party.
LEMMA OwnerReceiveEffect ==
  ASSUME TypeOK, NEW p \in Party, OwnerReceive(p)
  PROVE  /\ chan'[p] = Tail(chan[p]) /\ chan'[Peer(p)] = chan[Peer(p)]
         /\ round'[p] = After(round[p]) /\ round'[Peer(p)] = round[Peer(p)]
         /\ sent'[p] = FALSE /\ sent'[Peer(p)] = sent[Peer(p)]
         /\ ~Flat /\ round[p] = 1 => out0'[p] = Minus(Head(chan[p]), b[p])
         /\ Flat \/ round[p] = 2 => /\ out'[p] = Minus(Head(chan[p]), b[p])
                                   /\ out'[Peer(p)] = out[Peer(p)]
<1>1. Peer(p) \in Party /\ Peer(p) # p
  BY DEF Peer, Party, ALICE, BOB
<1>2. DOMAIN chan = Party /\ DOMAIN sent = Party /\ DOMAIN round = Party
  BY DEF TypeOK
<1>7. DOMAIN out0 = Party /\ DOMAIN out = Party
  BY DEF TypeOK
<1>8. ASSUME ~Flat, round[p] = 1 PROVE out0'[p] = Minus(Head(chan[p]), b[p])
  <2>1. out0' = [out0 EXCEPT ![p] = Minus(Head(chan[p]), b[p])]
    BY <1>8 DEF OwnerReceive
  <2> QED
    BY <1>7, <2>1
<1>9. ASSUME Flat \/ round[p] = 2
      PROVE  /\ out'[p] = Minus(Head(chan[p]), b[p])
             /\ out'[Peer(p)] = out[Peer(p)]
  <2>1. out' = [out EXCEPT ![p] = Minus(Head(chan[p]), b[p])]
    BY <1>9 DEF OwnerReceive
  <2> QED
    BY <1>1, <1>7, <2>1
<1>3. /\ chan' = [chan EXCEPT ![p] = Tail(@)]
      /\ round' = [round EXCEPT ![p] = After(round[p])]
      /\ sent' = [sent EXCEPT ![p] = FALSE]
  BY DEF OwnerReceive
<1>4. chan'[p] = Tail(chan[p]) /\ chan'[Peer(p)] = chan[Peer(p)]
  BY <1>1, <1>2, <1>3
<1>5. round'[p] = After(round[p]) /\ round'[Peer(p)] = round[Peer(p)]
  BY <1>1, <1>2, <1>3
<1>6. sent'[p] = FALSE /\ sent'[Peer(p)] = sent[Peer(p)]
  BY <1>1, <1>2, <1>3
<1> QED
  BY <1>4, <1>5, <1>6, <1>8, <1>9

\* The round a server is in when it has returned from round r.
LEMMA AfterRound == /\ Flat => After(1) = 3
                    /\ ~Flat => After(1) = 2 /\ After(2) = 3
BY DEF After

\* The owner's receive keeps the invariant.
LEMMA OwnerReceiveInv ==
  ASSUME Inv, NEW p \in Party, OwnerReceive(p)
  PROVE  Inv'
<1> USE Parties
<1>1. chan[p] \in Seq(Vector) /\ chan[p] # <<>> /\ b[p] \in Vector
  BY Typing DEF Inv, TypeOK, OwnerReceive
<1>2. Head(chan[p]) \in Vector /\ Tail(chan[p]) \in Seq(Vector)
  BY <1>1, HeadTailProperties, ElementOfSeq
<1>3. Minus(Head(chan[p]), b[p]) \in Vector
  BY <1>1, <1>2, Sums
<1>4. After(round[p]) \in 1 .. 3
  <2>1. round[p] \in 1 .. 3 /\ round[p] < 3
    BY DEF Inv, TypeOK, OwnerReceive
  <2> QED
    BY <2>1 DEF After
<1>5. TypeOK'
  BY <1>2, <1>3, <1>4 DEF Inv, TypeOK, OwnerReceive, setup
<1>6. Correlated'
  BY DEF Inv, Correlated, OwnerReceive, setup
<1>7. Stages'
  <2>1. CASE Start \/ Asked \/ Over \/ (~Flat /\ Halfway)
    BY <2>1 DEF Start, Asked, Over, Halfway, Place, OwnerReceive
  <2>2. CASE ~Flat /\ Answered
    <3>1. PICK w \in Vector, s \in BOOLEAN :
             /\ Place(1, 2, TRUE, s)
             /\ chan[BOB] = <<>>
             /\ chan[ALICE] = IF s THEN <<w, Plus(x[BOB], a[BOB])>> ELSE <<w>>
             /\ Plus(Minus(w, b[ALICE]), x[BOB]) = Once
      BY <2>2 DEF Answered
    <3>2. p = ALICE
      BY <3>1 DEF Place, OwnerReceive
    <3>3. Plus(x[BOB], a[BOB]) \in Vector
      BY Typing, Sums DEF Inv
    <3>4. /\ Head(chan[ALICE]) = w
          /\ Tail(chan[ALICE]) = IF s THEN <<Plus(x[BOB], a[BOB])>> ELSE <<>>
      BY <3>1, <3>3, TwoOnChannel
    <3>5. Place(2, 2, FALSE, s)'
      <4>1. round[ALICE] = 1 /\ round[BOB] = 2 /\ sent[BOB] = s
        BY <3>1 DEF Place
      <4>2. round'[ALICE] = After(1) /\ round'[BOB] = 2
        BY <3>2, <4>1, OwnerReceiveEffect DEF Inv
      <4>3. sent'[ALICE] = FALSE /\ sent'[BOB] = s
        BY <3>2, <4>1, OwnerReceiveEffect DEF Inv
      <4> QED
        BY <2>2, <4>2, <4>3, AfterRound DEF Place
    <3>6. /\ chan'[BOB] = <<>>
          /\ chan'[ALICE] = IF s THEN <<Plus(x[BOB], a[BOB])>> ELSE <<>>
      BY <3>1, <3>2, <3>4, OwnerReceiveEffect DEF Inv
    <3>7. out0'[ALICE] = Minus(w, b[ALICE])
      BY <2>2, <3>1, <3>2, <3>4, OwnerReceiveEffect DEF Place, Inv
    <3>8. Halfway'
      BY <3>1, <3>5, <3>6, <3>7 DEF Halfway, OwnerReceive, setup, Once, Sum
    <3> QED
      BY <2>2, <3>8 DEF Stages
  <2>3. CASE ~Flat /\ AnsweredAgain
    <3>1. PICK w \in Vector :
             /\ Place(3, 2, FALSE, TRUE)
             /\ chan[ALICE] = <<>> /\ chan[BOB] = <<w>>
             /\ Plus(out[ALICE], Minus(w, b[BOB])) = Twice
      BY <2>3 DEF AnsweredAgain
    <3>2. p = BOB
      BY <3>1 DEF Place, OwnerReceive
    <3>3. Head(chan[BOB]) = w /\ Tail(chan[BOB]) = <<>>
      BY <3>1, TwoOnChannel
    <3>4. Place(3, 3, FALSE, FALSE)'
      <4>1. round[BOB] = 2 /\ round[ALICE] = 3 /\ sent[ALICE] = FALSE
        BY <3>1 DEF Place
      <4>2. round'[BOB] = After(2) /\ round'[ALICE] = 3
        BY <3>2, <4>1, OwnerReceiveEffect DEF Inv
      <4>3. sent'[BOB] = FALSE /\ sent'[ALICE] = FALSE
        BY <3>2, <4>1, OwnerReceiveEffect DEF Inv
      <4> QED
        BY <2>3, <4>2, <4>3, AfterRound DEF Place
    <3>5. chan'[ALICE] = <<>> /\ chan'[BOB] = <<>>
      BY <3>1, <3>2, <3>3, OwnerReceiveEffect DEF Inv
    <3>6. out'[BOB] = Minus(w, b[BOB]) /\ out'[ALICE] = out[ALICE]
      BY <2>3, <3>1, <3>2, <3>3, OwnerReceiveEffect DEF Place, Inv
    <3>7. Over'
      BY <2>3, <3>1, <3>4, <3>5, <3>6 DEF Over, OwnerReceive, setup, Twice, Once, Sum
    <3> QED
      BY <2>3, <3>7 DEF Stages
  <2>4. CASE Flat /\ AnsweredFlat
    <3>1. PICK w \in Vector :
             /\ Place(1, 3, TRUE, FALSE)
             /\ chan[ALICE] = <<w>> /\ chan[BOB] = <<>>
             /\ Plus(Minus(w, b[ALICE]), out[BOB]) = Once
      BY <2>4 DEF AnsweredFlat
    <3>2. p = ALICE
      BY <3>1 DEF Place, OwnerReceive
    <3>3. Head(chan[ALICE]) = w /\ Tail(chan[ALICE]) = <<>>
      BY <3>1, TwoOnChannel
    <3>4. Place(3, 3, FALSE, FALSE)'
      <4>1. round[ALICE] = 1 /\ round[BOB] = 3 /\ sent[BOB] = FALSE
        BY <3>1 DEF Place
      <4>2. round'[ALICE] = After(1) /\ round'[BOB] = 3
        BY <3>2, <4>1, OwnerReceiveEffect DEF Inv
      <4>3. sent'[ALICE] = FALSE /\ sent'[BOB] = FALSE
        BY <3>2, <4>1, OwnerReceiveEffect DEF Inv
      <4> QED
        BY <2>4, <4>2, <4>3, AfterRound DEF Place
    <3>5. chan'[ALICE] = <<>> /\ chan'[BOB] = <<>>
      BY <3>1, <3>2, <3>3, OwnerReceiveEffect DEF Inv
    <3>6. out'[ALICE] = Minus(w, b[ALICE]) /\ out'[BOB] = out[BOB]
      BY <2>4, <3>1, <3>2, <3>3, OwnerReceiveEffect DEF Place, Inv
    <3>7. Over'
      BY <2>4, <3>1, <3>4, <3>5, <3>6 DEF Over, OwnerReceive, setup, Once, Sum
    <3> QED
      BY <2>4, <3>7 DEF Inv, Stages, OwnerReceive, setup, Zeros, Idx
  <2> QED
    BY <2>1, <2>2, <2>3, <2>4 DEF Inv, Stages
<1> QED
  BY <1>5, <1>6, <1>7 DEF Inv

\* What server p keeps of the vector it has received.
Kept(p, w) == PermutedShare(p, Head(chan[p]), w)

\* What the permuting party changes, party by party.
LEMMA PermuteEffect ==
  ASSUME TypeOK, NEW p \in Party, NEW w \in Masks, Permute(p, w)
  PROVE  /\ chan'[p] = Tail(chan[p])
         /\ chan'[Peer(p)] = Append(chan[Peer(p)], w)
         /\ round'[p] = After(round[p]) /\ round'[Peer(p)] = round[Peer(p)]
         /\ sent' = sent
         /\ Kept(p, w) \in Vector
         /\ ~Flat /\ round[p] = 1 =>
              /\ x'[p] = Plus(SimplePerm(perm[p], x[p]), Kept(p, w))
              /\ out' = out
         /\ ~Flat /\ round[p] = 2 =>
              /\ out'[p] = Plus(Kept(p, w), SimplePerm(perm[p], out0[p]))
              /\ x' = x
         /\ Flat => /\ out'[p] = Kept(p, w)
                    /\ x' = x
<1>1. Peer(p) \in Party /\ Peer(p) # p
  BY DEF Peer, Party, ALICE, BOB
<1>2. DOMAIN chan = Party /\ DOMAIN round = Party
  BY DEF TypeOK
<1>6. DOMAIN x = Party /\ DOMAIN out = Party
  BY DEF TypeOK
<1>7. Kept(p, w) \in Vector
  <2>1. chan[p] \in Seq(Vector) /\ chan[p] # <<>> /\ w \in Vector
    BY ShuffleAssumption DEF TypeOK, Permute
  <2>2. Head(chan[p]) \in Vector
    BY <2>1, HeadTailProperties, ElementOfSeq
  <2>3. perm[p] \in [Idx -> Idx] /\ delta[p] \in Vector
    BY Typing
  <2>4. SimplePerm(perm[p], Head(chan[p])) \in Vector
    BY <2>2, <2>3, VectorClosure
  <2> QED
    BY <2>1, <2>3, <2>4, Sums DEF Kept, PermutedShare
<1>8. ASSUME ~Flat, round[p] = 1
      PROVE  /\ x'[p] = Plus(SimplePerm(perm[p], x[p]), Kept(p, w))
             /\ out' = out
  <2>1. /\ x' = [x EXCEPT ![p] = Plus(SimplePerm(perm[p], @), Kept(p, w))]
        /\ out' = out
    BY <1>8 DEF Permute, Kept
  <2> QED
    BY <1>6, <2>1
<1>9. ASSUME ~Flat, round[p] = 2
      PROVE  /\ out'[p] = Plus(Kept(p, w), SimplePerm(perm[p], out0[p]))
             /\ x' = x
  <2>1. /\ out' = [out EXCEPT ![p] = Plus(Kept(p, w), SimplePerm(perm[p], out0[p]))]
        /\ x' = x
    BY <1>9 DEF Permute, Kept, Recombine
  <2> QED
    BY <1>6, <2>1
<1>10. ASSUME Flat PROVE out'[p] = Kept(p, w) /\ x' = x
  <2>1. out' = [out EXCEPT ![p] = Kept(p, w)] /\ x' = x
    BY <1>10 DEF Permute, Kept
  <2> QED
    BY <1>6, <2>1
<1>3. /\ chan' = [chan EXCEPT ![p] = Tail(@), ![Peer(p)] = Append(@, w)]
      /\ round' = [round EXCEPT ![p] = After(round[p])]
      /\ sent' = sent
  BY DEF Permute
<1>4. chan'[p] = Tail(chan[p]) /\ chan'[Peer(p)] = Append(chan[Peer(p)], w)
  BY <1>1, <1>2, <1>3
<1>5. round'[p] = After(round[p]) /\ round'[Peer(p)] = round[Peer(p)]
  BY <1>1, <1>2, <1>3
<1> QED
  BY <1>3, <1>4, <1>5, <1>7, <1>8, <1>9, <1>10

\* It keeps the types,
LEMMA PermuteType ==
  ASSUME TypeOK, NEW p \in Party, NEW w \in Masks, Permute(p, w)
  PROVE  TypeOK'
<1>1. Kept(p, w) \in Vector /\ w \in Vector
  BY PermuteEffect, ShuffleAssumption
<1>2. Peer(p) \in Party /\ Peer(p) # p
  BY DEF Peer, Party, ALICE, BOB
<1>3. Tail(chan[p]) \in Seq(Vector)
  <2>1. chan[p] \in Seq(Vector) /\ chan[p] # <<>>
    BY DEF TypeOK, Permute
  <2> QED
    BY <2>1, HeadTailProperties
<1>4. Append(chan[Peer(p)], w) \in Seq(Vector)
  <2>1. chan[Peer(p)] \in Seq(Vector)
    BY <1>2 DEF TypeOK
  <2> QED
    BY <1>1, <2>1, AppendProperties
<1>5. chan' \in [Party -> Seq(Vector)]
  <2>1. chan' = [chan EXCEPT ![p] = Tail(chan[p]), ![Peer(p)] = Append(chan[Peer(p)], w)]
    BY <1>2 DEF Permute, TypeOK
  <2> QED
    BY <1>3, <1>4, <2>1 DEF TypeOK
<1>6. round' \in [Party -> 1 .. 3]
  <2>1. round[p] \in 1 .. 3 /\ round[p] < 3
    BY DEF TypeOK, Permute
  <2>2. After(round[p]) \in 1 .. 3
    BY <2>1 DEF After
  <2> QED
    BY <2>2 DEF TypeOK, Permute
<1>7. /\ Plus(SimplePerm(perm[p], x[p]), Kept(p, w)) \in Vector
      /\ Plus(Kept(p, w), SimplePerm(perm[p], out0[p])) \in Vector
  <2>1. /\ SimplePerm(perm[p], x[p]) \in Vector
        /\ SimplePerm(perm[p], out0[p]) \in Vector
    <3>1. /\ x[p] \in Vector /\ out0[p] \in Vector
          /\ perm[p] \in [Idx -> Idx]
      BY Typing
    <3> QED
      BY <3>1, VectorClosure
  <2> QED
    BY <1>1, <2>1, Sums
<1>8. {x, out0, out}' \subseteq [Party -> Vector]
  <2>1. CASE Flat
    <3>1. /\ out' = [out EXCEPT ![p] = Kept(p, w)]
          /\ out0' = out0 /\ x' = x
      BY <2>1 DEF Permute, Kept
    <3> QED
      BY <1>1, <3>1 DEF TypeOK
  <2>2. CASE ~Flat /\ round[p] = 1
    <3>1. /\ x' = [x EXCEPT ![p] = Plus(SimplePerm(perm[p], x[p]), Kept(p, w))]
          /\ out0' = [out0 EXCEPT ![p] = Kept(p, w)]
          /\ out' = out
      BY <2>2 DEF Permute, Kept, TypeOK
    <3> QED
      BY <1>1, <1>7, <3>1 DEF TypeOK
  <2>3. CASE ~Flat /\ round[p] # 1
    <3>1. /\ out' = [out EXCEPT ![p] = Plus(Kept(p, w), SimplePerm(perm[p], out0[p]))]
          /\ out0' = out0 /\ x' = x
      BY <2>3 DEF Permute, Kept, Recombine
    <3> QED
      BY <1>7, <3>1 DEF TypeOK
  <2> QED
    BY <2>1, <2>2, <2>3
<1>9. sent' \in [Party -> BOOLEAN]
  BY DEF TypeOK, Permute
<1>10. /\ perm' \in [Party -> Perms] /\ {a, b}' \subseteq [Party -> Masks]
       /\ delta' \in [Party -> Vector] /\ x0' \in [Party -> Inputs]
  BY DEF TypeOK, Permute, setup
<1> QED
  BY <1>5, <1>6, <1>8, <1>9, <1>10 DEF TypeOK

\* and the invariant.
LEMMA PermuteInv ==
  ASSUME Inv, NEW p \in Party, NEW w \in Masks, Permute(p, w)
  PROVE  Inv'
<1> USE Parties
<1>1. TypeOK /\ Correlated
  BY DEF Inv
<1>2. w \in Vector
  BY ShuffleAssumption
<1>3. TypeOK'
  BY <1>1, PermuteType
<1>4. UNCHANGED <<perm, a, b, delta, x0>>
  BY DEF Permute, setup
<1>5. Correlated'
  BY <1>1, <1>4 DEF Correlated
<1>6. Sum' = Sum /\ Once' = Once /\ Twice' = Twice
  BY <1>4 DEF Sum, Once, Twice
<1>7. /\ ALICE \in Party /\ BOB \in Party
      /\ Minus(w, b[ALICE]) \in Vector /\ Minus(w, b[BOB]) \in Vector
  BY <1>1, <1>2, Typing, Sums
<1>8. Stages'
  <2>1. CASE Start \/ Over \/ (~Flat /\ Answered) \/ AnsweredAgain \/ AnsweredFlat
    BY <2>1 DEF Start, Over, Answered, AnsweredAgain, AnsweredFlat, Place, Permute
  <2>2. CASE Asked
    <3>1. p = BOB
      BY <2>2 DEF Asked, Place, Permute
    <3>2. x0[ALICE] \in Vector /\ x0[BOB] \in Vector /\ a[ALICE] \in Vector
      BY <1>1, <1>7, Typing
    <3>3. Head(chan[BOB]) = Plus(x0[ALICE], a[ALICE]) /\ Tail(chan[BOB]) = <<>>
      BY <2>2, <3>2, Sums, TwoOnChannel DEF Asked
    <3>4. Kept(BOB, w) \in Vector
      BY <1>1, <3>1, PermuteEffect
    <3>5. Plus(Minus(w, b[ALICE]), Kept(BOB, w)) = SimplePerm(perm[BOB], x0[ALICE])
      BY <1>1, <1>2, <1>7, <3>2, <3>3, KeptAndMask DEF Kept
    <3>6. chan'[BOB] = <<>> /\ chan'[ALICE] = <<w>>
      <4>1. chan'[BOB] = <<>> /\ chan'[ALICE] = Append(chan[ALICE], w)
        <5>1. chan'[p] = Tail(chan[p]) /\ chan'[Peer(p)] = Append(chan[Peer(p)], w)
          BY <1>1, PermuteEffect, Zenon
        <5>2. p = BOB /\ Peer(BOB) = ALICE
          BY <3>1
        <5> QED
          BY <5>1, <5>2, <3>3
      <4>2. chan[ALICE] = <<>>
        BY <2>2 DEF Asked
      <4> QED
        BY <4>1, <4>2
    <3>7. round[ALICE] = 1 /\ round[BOB] = 1
      BY <2>2 DEF Asked, Place
    <3>8. round'[ALICE] = 1 /\ round'[BOB] = After(1)
      BY <1>1, <3>1, <3>7, PermuteEffect
    <3>9. sent'[ALICE] = TRUE /\ sent'[BOB] = FALSE
      <4>1. sent' = sent
        BY DEF Permute
      <4> QED
        BY <2>2, <4>1 DEF Asked, Place
    <3>10. x = x0
      BY <2>2 DEF Asked
    <3>11. CASE ~Flat
      <4>1. Place(1, 2, TRUE, FALSE)'
        BY <3>8, <3>9, <3>11, AfterRound DEF Place
      <4>2. x'[BOB] = Plus(SimplePerm(perm[BOB], x0[BOB]), Kept(BOB, w))
        BY <1>1, <3>1, <3>7, <3>10, <3>11, PermuteEffect
      <4>3. perm[BOB] \in [Idx -> Idx]
        BY <1>1, <1>7, Typing
      <4>4. Plus(Minus(w, b[ALICE]), x'[BOB]) = Once
        BY <1>7, <3>2, <3>4, <3>5, <4>2, <4>3, RoundWithShare DEF Once, Sum
      <4>5. Answered'
        <5>1. /\ Place(1, 2, TRUE, FALSE)'
              /\ chan'[BOB] = <<>>
              /\ chan'[ALICE] = <<w>>
              /\ Plus(Minus(w, b'[ALICE]), x'[BOB]) = Once'
          BY <1>4, <1>6, <3>6, <4>1, <4>4
        <5> QED
          BY <1>2, <5>1 DEF Answered
      <4> QED
        BY <3>11, <4>5 DEF Stages
    <3>12. CASE Flat
      <4>1. Place(1, 3, TRUE, FALSE)'
        BY <3>8, <3>9, <3>12, AfterRound DEF Place
      <4>2. out'[BOB] = Kept(BOB, w)
        BY <1>1, <3>1, <3>12, PermuteEffect
      <4>3. Sum = x0[ALICE]
        BY <3>2, <3>12, PlusZeros DEF Sum, Inv, Stages
      <4>4. Plus(Minus(w, b[ALICE]), out'[BOB]) = Once
        BY <3>5, <4>2, <4>3 DEF Once
      <4>5. AnsweredFlat'
        <5>1. /\ Place(1, 3, TRUE, FALSE)'
              /\ chan'[ALICE] = <<w>> /\ chan'[BOB] = <<>>
              /\ Plus(Minus(w, b'[ALICE]), out'[BOB]) = Once'
          BY <1>4, <1>6, <3>6, <4>1, <4>4
        <5> QED
          BY <1>2, <5>1 DEF AnsweredFlat
      <4>6. x0'[BOB] = Zeros
        BY <1>4, <3>12 DEF Inv, Stages
      <4> QED
        BY <3>12, <4>5, <4>6 DEF Stages, Zeros, Idx
    <3> QED
      BY <3>11, <3>12
  <2>3. CASE ~Flat /\ Halfway
    <3>1. PICK s \in BOOLEAN :
             /\ Place(2, 2, FALSE, s)
             /\ chan[BOB] = <<>>
             /\ chan[ALICE] = IF s THEN <<Plus(x[BOB], a[BOB])>> ELSE <<>>
             /\ Plus(out0[ALICE], x[BOB]) = Once
      BY <2>3 DEF Halfway
    <3>2. p = ALICE /\ s = TRUE
      BY <3>1 DEF Place, Permute
    <3>3. x[BOB] \in Vector /\ out0[ALICE] \in Vector /\ a[BOB] \in Vector
      BY <1>1, <1>7, Typing
    <3>4. Head(chan[ALICE]) = Plus(x[BOB], a[BOB]) /\ Tail(chan[ALICE]) = <<>>
      BY <3>1, <3>2, <3>3, Sums, TwoOnChannel
    <3>5. Kept(ALICE, w) \in Vector
      BY <1>1, <3>2, PermuteEffect
    <3>6. Plus(Minus(w, b[BOB]), Kept(ALICE, w)) = SimplePerm(perm[ALICE], x[BOB])
      BY <1>1, <1>2, <1>7, <3>3, <3>4, KeptAndMask DEF Kept
    <3>7. chan'[ALICE] = <<>> /\ chan'[BOB] = <<w>>
      <4>1. chan'[ALICE] = <<>> /\ chan'[BOB] = Append(chan[BOB], w)
        <5>1. chan'[p] = Tail(chan[p]) /\ chan'[Peer(p)] = Append(chan[Peer(p)], w)
          BY <1>1, PermuteEffect, Zenon
        <5>2. p = ALICE /\ Peer(ALICE) = BOB
          BY <3>2
        <5> QED
          BY <5>1, <5>2, <3>4
      <4> QED
        BY <3>1, <4>1
    <3>8. round[ALICE] = 2 /\ round[BOB] = 2
      BY <3>1 DEF Place
    <3>9. round'[ALICE] = After(2) /\ round'[BOB] = 2
      BY <1>1, <3>2, <3>8, PermuteEffect
    <3>10. sent'[ALICE] = FALSE /\ sent'[BOB] = TRUE
      <4>1. sent' = sent
        BY DEF Permute
      <4> QED
        BY <3>1, <3>2, <4>1 DEF Place
    <3>11. Place(3, 2, FALSE, TRUE)'
      BY <2>3, <3>9, <3>10, AfterRound DEF Place
    <3>12. out'[ALICE] = Plus(Kept(ALICE, w), SimplePerm(perm[ALICE], out0[ALICE]))
      BY <1>1, <2>3, <3>2, <3>8, PermuteEffect
    <3>13. perm[ALICE] \in [Idx -> Idx]
      BY <1>1, <1>7, Typing
    <3>14. Plus(Minus(w, b[BOB]), Kept(ALICE, w)) = SimplePerm(perm[ALICE], x[BOB])
      BY <3>6
    <3>15. Plus(out'[ALICE], Minus(w, b[BOB])) = Twice
      BY <1>7, <3>1, <3>3, <3>5, <3>12, <3>13, <3>14, RoundWithShare DEF Twice
    <3>16. AnsweredAgain'
      <4>1. /\ Place(3, 2, FALSE, TRUE)'
            /\ chan'[ALICE] = <<>> /\ chan'[BOB] = <<w>>
            /\ Plus(out'[ALICE], Minus(w, b'[BOB])) = Twice'
        BY <1>4, <1>6, <3>7, <3>11, <3>15
      <4> QED
        BY <1>2, <4>1 DEF AnsweredAgain
    <3> QED
      BY <2>3, <3>16 DEF Stages
  <2> QED
    BY <2>1, <2>2, <2>3 DEF Inv, Stages
<1> QED
  BY <1>3, <1>5, <1>8 DEF Inv

\* So does a stuttering step.
LEMMA StutterInv ==
  ASSUME Inv, UNCHANGED vars
  PROVE  Inv'
BY DEF vars, Inv, TypeOK, Correlated, Stages, Start, Asked, Answered, Halfway,
       AnsweredAgain, AnsweredFlat, Over, Place, Once, Twice, Sum

\* The invariant holds in every reachable state.
LEMMA Invariance == Spec => []Inv
<1>1. Inv /\ [Next]_vars => Inv'
  <2> SUFFICES ASSUME Inv, [Next]_vars PROVE Inv'
    OBVIOUS
  <2>1. ASSUME NEW p \in Party, OwnerSend(p) PROVE Inv'
    BY <2>1, OwnerSendInv
  <2>2. ASSUME NEW p \in Party, OwnerReceive(p) PROVE Inv'
    BY <2>2, OwnerReceiveInv
  <2>3. ASSUME NEW p \in Party, NEW w \in Masks, Permute(p, w) PROVE Inv'
    BY <2>3, PermuteInv
  <2>4. CASE UNCHANGED vars
    BY <2>4, StutterInv
  <2> QED
    BY <2>1, <2>2, <2>3, <2>4 DEF Next
<1> QED
  BY InitInv, <1>1, PTL DEF Spec

-----------------------------------------------------------------------------
(* The theorems. *)

\* Every variable keeps its type, and a connection carries vectors only: what
\* send_data of one server sends is what recv_data of the other expects.
THEOREM TypeCorrect == Spec => []TypeOK
<1>1. Inv => TypeOK
  BY DEF Inv
<1> QED
  BY Invariance, <1>1, PTL

\* When both parties have finished, the invariant says the last stage is reached.
LEMMA AtTheEnd ==
  ASSUME Inv, Finished
  PROVE  Over
<1>1. round[ALICE] = 3 /\ round[BOB] = 3
  BY Parties DEF Finished
<1> QED
  BY <1>1 DEF Inv, Stages, Start, Asked, Answered, Halfway, AnsweredAgain,
              AnsweredFlat, Over, Place

\* SecretSharedShuffle leaves the servers shares of the input permuted by both,
\* for any number of elements, any permutations and masks, and however the
\* owner's second message overtakes the first answer.
THEOREM Shares == Spec => []SharesOfShuffled
<1>1. Inv => SharesOfShuffled
  <2> SUFFICES ASSUME Inv, Finished
               PROVE  Plus(out[ALICE], out[BOB]) = Shuffled
    BY DEF SharesOfShuffled
  <2>1. Over
    BY AtTheEnd
  <2> QED
    BY <2>1 DEF Over, Shuffled, Twice, Once, Sum
<1> QED
  BY Invariance, <1>1, PTL

\* When both calls have returned every vector sent was received, so the next
\* protocol on the connection starts with nothing left over.
THEOREM Drained == Spec => []ConnectionDrained
<1>1. Inv => ConnectionDrained
  <2> SUFFICES ASSUME Inv, Finished
               PROVE  \A p \in Party : chan[p] = <<>>
    BY DEF ConnectionDrained
  <2>1. Over
    BY AtTheEnd
  <2> QED
    BY <2>1, Parties DEF Over
<1> QED
  BY Invariance, <1>1, PTL
=============================================================================
