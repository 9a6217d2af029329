------------------------------- MODULE Shuffle -------------------------------
(***************************************************************************)
(* The online phase of the secret-shared shuffle: SecretSharedShuffle and  *)
(* PermuteShare of pvfss/src/ss_shuffle.cc, run by two servers over one    *)
(* FIFO connection.                                                        *)
(*                                                                         *)
(* In a round the owner masks its vector and sends it, the other server    *)
(* permutes it and answers with a mask.  ALICE owns the vector of the      *)
(* first round; in the second round BOB owns his own vector permuted and   *)
(* added to what the first round left him.  A flat shuffle (d = 1) has one *)
(* round only.                                                             *)
(***************************************************************************)
EXTENDS BlockGroup, Integers, Sequences

CONSTANTS
  N,            \* elements
  Flat,         \* the shuffle has one layer
  Perms,        \* permutations a server may draw
  Inputs,       \* share vectors a server may hold
  Masks         \* random vectors

ALICE == 1
BOB == 2
Party == {ALICE, BOB}
Peer(p) == IF p = ALICE THEN BOB ELSE ALICE
Idx == 0 .. N - 1
Vector == [Idx -> Block]

ASSUME ShuffleAssumption ==
  /\ N \in Nat \ {0}
  /\ Flat \in BOOLEAN
  /\ Perms \subseteq [Idx -> Idx]
  /\ Inputs \subseteq Vector
  /\ Masks \subseteq Vector

VARIABLES
  perm,     \* perm[p]: the permutation of server p
  a, b,     \* a[p], b[p]: masks of server p as an owner
  delta,    \* delta[p]: what server p subtracts as a permuter
  x0,       \* history: the shares the servers started with
  x,        \* x[p]: the share vector of server p
  round,    \* round[p]: the call of PermuteShare it is in; 3 when it returned
  sent,     \* sent[p]: it has sent its masked vector in this round
  out0,     \* out0[p]: the result of its first round
  out,      \* out[p]: its result
  chan      \* chan[p]: vectors on their way to p

vars == <<perm, a, b, delta, x0, x, round, sent, out0, out, chan>>
setup == <<perm, a, b, delta, x0>>

Plus(u, v) == [k \in Idx |-> Add(u[k], v[k])]
Minus(u, v) == [k \in Idx |-> Sub(u[k], v[k])]

\* Position k takes its element from position q[k].
SimplePerm(q, v) == [k \in Idx |-> v[q[k]]]

\* Variant: positions are counted from one.
ZerosFromOne == [k \in 1 .. N |-> zero_block]

Zeros == [k \in Idx |-> zero_block]

\* Offline leaves each server's permutation with the masks of the other.  A
\* flat shuffle is only called with a zero share at BOB.
Init ==
  /\ perm \in [Party -> Perms]
  /\ a \in [Party -> Masks]
  /\ b \in [Party -> Masks]
  /\ delta = [p \in Party |-> Minus(b[Peer(p)], SimplePerm(perm[p], a[Peer(p)]))]
  /\ x0 \in [Party -> Inputs]
  /\ Flat => x0[BOB] = Zeros
  /\ x = x0
  /\ round = [p \in Party |-> 1]
  /\ sent = [p \in Party |-> FALSE]
  /\ out0 = [p \in Party |-> Zeros]
  /\ out = [p \in Party |-> Zeros]
  /\ chan = [p \in Party |-> <<>>]

Owner(r) == IF r = 1 THEN ALICE ELSE BOB

\* Variant: the second round is entered again and again.
AfterRepeats(r) == IF Flat THEN 3 ELSE 2

\* The round after r.
After(r) == IF Flat THEN 3 ELSE r + 1

\* Variant: the masked vector is sent once more.
OwnerSendTwice(p) ==
  /\ round[p] < 3 /\ Owner(round[p]) = p
  /\ ~sent[p]
  /\ LET m == Plus(x[p], a[p])
     IN  chan' = [chan EXCEPT ![Peer(p)] = @ \o <<m, m>>]
  /\ sent' = [sent EXCEPT ![p] = TRUE]
  /\ UNCHANGED <<setup, x, round, out0, out>>

\* The owner sends its masked vector.
OwnerSend(p) ==
  /\ round[p] < 3 /\ Owner(round[p]) = p
  /\ ~sent[p]
  /\ chan' = [chan EXCEPT ![Peer(p)] = Append(@, Plus(x[p], a[p]))]
  /\ sent' = [sent EXCEPT ![p] = TRUE]
  /\ UNCHANGED <<setup, x, round, out0, out>>

\* The owner takes the mask for its result.
OwnerReceive(p) ==
  /\ round[p] < 3 /\ Owner(round[p]) = p
  /\ sent[p]
  /\ chan[p] # <<>>
  /\ LET r == Minus(Head(chan[p]), b[p])
     IN  IF Flat \/ round[p] = 2
         THEN out' = [out EXCEPT ![p] = r] /\ out0' = out0
         ELSE out0' = [out0 EXCEPT ![p] = r] /\ out' = out
  /\ chan' = [chan EXCEPT ![p] = Tail(@)]
  /\ round' = [round EXCEPT ![p] = After(round[p])]
  /\ sent' = [sent EXCEPT ![p] = FALSE]
  /\ UNCHANGED <<setup, x>>

\* Variant: ALICE adds the result of the first round as it came.
RecombineUnpermuted(p, r) == Plus(r, out0[p])

\* ALICE's output: her two rounds together.
Recombine(p, r) == Plus(r, SimplePerm(perm[p], out0[p]))

\* What the permuter keeps of the masked vector m.
PermutedShare(p, m, w) == Minus(Plus(SimplePerm(perm[p], m), delta[p]), w)

\* The other server permutes what it receives and answers with a mask w.
\* After the first round BOB adds his own permuted share; after the second
\* ALICE adds her permuted result of the first.
Permute(p, w) ==
  /\ round[p] < 3 /\ Owner(round[p]) # p
  /\ chan[p] # <<>>
  /\ LET r == PermutedShare(p, Head(chan[p]), w)
     IN  IF Flat THEN out' = [out EXCEPT ![p] = r] /\ UNCHANGED <<out0, x>>
         ELSE IF round[p] = 1
         THEN /\ out0' = [out0 EXCEPT ![p] = r]
              /\ x' = [x EXCEPT ![p] = Plus(SimplePerm(perm[p], @), r)]
              /\ out' = out
         ELSE /\ out' = [out EXCEPT ![p] = Recombine(p, r)]
              /\ UNCHANGED <<out0, x>>
  /\ chan' = [chan EXCEPT ![p] = Tail(@), ![Peer(p)] = Append(@, w)]
  /\ round' = [round EXCEPT ![p] = After(round[p])]
  /\ UNCHANGED <<setup, sent>>

\* Both servers have returned.
Finished == \A p \in Party : round[p] = 3

Next ==
  \/ \E p \in Party : OwnerSend(p)
  \/ \E p \in Party : OwnerReceive(p)
  \/ \E p \in Party, w \in Masks : Permute(p, w)
  \/ Finished /\ UNCHANGED vars

Spec == Init /\ [][Next]_vars

\* Neither process stops while the connection lets it run.
FairSpec ==
  /\ Spec
  /\ \A p \in Party : WF_vars(OwnerSend(p) \/ OwnerReceive(p)
                                \/ \E w \in Masks : Permute(p, w))

-----------------------------------------------------------------------------
TypeOK ==
  /\ perm \in [Party -> Perms]
  /\ {a, b} \subseteq [Party -> Masks]
  /\ delta \in [Party -> Vector]
  /\ x0 \in [Party -> Inputs]
  /\ {x, out0, out} \subseteq [Party -> Vector]
  /\ round \in [Party -> 1 .. 3]
  /\ sent \in [Party -> BOOLEAN]
  /\ chan \in [Party -> Seq(Vector)]

\* The sum of the inputs, permuted by BOB and then, unless flat, by ALICE.
Shuffled ==
  LET sum == Plus(x0[ALICE], x0[BOB])
      once == SimplePerm(perm[BOB], sum)
  IN  IF Flat THEN once ELSE SimplePerm(perm[ALICE], once)

\* When both servers have returned, their outputs are shares of the shuffled
\* input, whatever masks were drawn and however the rounds overlapped.
SharesOfShuffled == Finished => Plus(out[ALICE], out[BOB]) = Shuffled

\* Nothing of the shuffle is left on the connection for the compression that
\* follows on it.
ConnectionDrained == Finished => \A p \in Party : chan[p] = <<>>

\* Both servers return.
Returns == <>Finished
=============================================================================
