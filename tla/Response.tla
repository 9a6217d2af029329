------------------------------ MODULE Response ------------------------------
(***************************************************************************)
(* From a shared vector to the recipient's list: BTGen, Mult and CPRS of   *)
(* pvfss/src/server.cpp and the recipient's side of RunBenchmarkCase.      *)
(*                                                                         *)
(* The servers hold shares, modulo 2^w, of a vector of field elements.     *)
(* BTGen gives them a shared triple c = a b; with it CPRS multiplies every *)
(* element by a mask that both know, opens the product and keeps the       *)
(* shares of the elements whose product is not zero.  The recipient adds   *)
(* the kept shares in the field.                                           *)
(*                                                                         *)
(* ALICE sends first and BOB answers, over one FIFO connection.  Paillier  *)
(* is a library: what the servers get from it is the plaintext modulo Pub. *)
(***************************************************************************)
EXTENDS Integers, Sequences

CONSTANTS
  w,        \* bits of a word: a lane of a block
  p,        \* the modulus of the field, 2^(w - 3) - 1 in the code
  Pub,      \* the Paillier modulus
  N,        \* elements
  Masks,    \* ALICE's shares of an element
  Rans,     \* the mask ran
  Draws     \* random numbers of BTGen

W == 2 ^ w
Word == 0 .. W - 1
Field == 0 .. p - 1
Slot == 0 .. N - 1
ALICE == 1
BOB == 2
Party == {ALICE, BOB}
Peer(s) == IF s = ALICE THEN BOB ELSE ALICE

\* The provers do not compute 2 ^ w: that it is a positive number is said.
ASSUME ResponseAssumption ==
  /\ w \in Nat /\ W \in Nat \ {0} /\ N \in Nat \ {0} /\ p \in 2 .. W - 1
  /\ Masks \cup Rans \cup Draws \subseteq Word
  /\ Pub \in Nat /\ 3 * W * W < Pub

\* An element stays below an eighth of a word: 8 (2^(w - 3) - 1) < 2^w.
ASSUME FieldAssumption == 8 * p < W

\* Of ^ the provers only need what it is up to w.
ASSUME PowerAssumption == 2 ^ 0 = 1 /\ \A n \in 0 .. w - 1 : 2 ^ (n + 1) = 2 * 2 ^ n

VARIABLES
  value,      \* history: the vector the shares are of
  v,          \* v[s]: the share of server s, the output of the shuffle
  ran,        \* the mask; both servers use it as their share of one
  fa, fb, fc, \* shares of the triple
  r,          \* history: what BOB hid the cross terms with
  pc,         \* pc[s]: where server s is
  slot,       \* slot[s]: the element it multiplies
  D, E,       \* D[s], E[s]: the opened differences
  z, xr,      \* z[s], xr[s]: its summand of the product, and the product
  sig,        \* sig[s]: the kept slots, in order
  shares,     \* shares[s]: the kept shares, its response
  recovered,  \* what the recipient decodes
  verdict,    \* verdict[s]: what server s says of the run
  chan        \* chan[s]: messages on their way to s

triple == <<fa, fb, fc, r>>
product == <<slot, D, E, z, xr, sig, shares>>
result == <<recovered, verdict>>
vars == <<value, v, ran, triple, pc, product, result, chan>>

Unknown == [exact |-> FALSE, indices |-> FALSE]

Init ==
  /\ value \in [Slot -> Field]
  /\ \E m \in [Slot -> Masks] :
        v = [s \in Party |-> [i \in Slot |->
               IF s = ALICE THEN m[i] ELSE (value[i] - m[i]) % W]]
  /\ ran \in Rans
  /\ fa \in [Party -> Draws] /\ fb \in [Party -> Draws]
  /\ fc = [s \in Party |-> 0] /\ r = 0
  /\ pc = [s \in Party |-> "keys"]
  /\ slot = [s \in Party |-> 0]
  /\ D = [s \in Party |-> 0] /\ E = [s \in Party |-> 0]
  /\ z = [s \in Party |-> 0] /\ xr = [s \in Party |-> 0]
  /\ sig = [s \in Party |-> <<>>] /\ shares = [s \in Party |-> <<>>]
  /\ recovered = <<>> /\ verdict = [s \in Party |-> Unknown]
  /\ chan = [s \in Party |-> <<>>]

\* Server s is at l and the next message for it is of kind k.
Awaits(s, l, k) == pc[s] = l /\ chan[s] # <<>> /\ Head(chan[s]).kind = k
Step(s, l) == pc' = [pc EXCEPT ![s] = l]
Send(s, ms) == chan' = [chan EXCEPT ![Peer(s)] = @ \o ms]
Receive(s, ms) == chan' = [chan EXCEPT ![s] = Tail(@), ![Peer(s)] = @ \o ms]

-----------------------------------------------------------------------------
(* BTGen and the barrier after it. *)

\* Where CPRS starts an element: ALICE sends, BOB waits.
Opening(s) == IF s = ALICE THEN "open" ELSE "opened"

\* ALICE sends her encrypted shares and the public key.
SendKeys ==
  /\ pc[ALICE] = "keys"
  /\ Send(ALICE, <<[kind |-> "keys", a |-> fa[ALICE], b |-> fb[ALICE]]>>)
  /\ Step(ALICE, "cross")
  /\ UNCHANGED <<value, v, ran, triple, product, result>>

\* Variant: BOB forgets to hide the cross terms.
CrossTermsBare(m, h) == (m.a * fb[BOB] + m.b * fa[BOB]) % Pub

\* The plaintext of BOB's answer to the encrypted shares in m.
CrossTerms(m, h) == (m.a * fb[BOB] + m.b * fa[BOB] + h) % Pub

\* BOB answers with the cross terms hidden by h, and keeps c1 = a1 b1 - h.  The
\* integers are cut to words when they become blocks.
ReceiveKeys(h) ==
  /\ Awaits(BOB, "keys", "keys")
  /\ Receive(BOB, <<[kind |-> "cross", c |-> CrossTerms(Head(chan[BOB]), h)]>>)
  /\ fc' = [fc EXCEPT ![BOB] = ((((fa[BOB] * fb[BOB]) % Pub) - h) % Pub) % W]
  /\ r' = h
  /\ Step(BOB, "clear")
  /\ UNCHANGED <<value, v, ran, fa, fb, product, result>>

\* ALICE has her share, sends all of it in the clear and then the barrier.
ReceiveCross ==
  /\ Awaits(ALICE, "cross", "cross")
  /\ LET t == (((fa[ALICE] * fb[ALICE]) % Pub) + Head(chan[ALICE]).c) % Pub
     IN  /\ fc' = [fc EXCEPT ![ALICE] = t % W]
         /\ Receive(ALICE, <<[kind |-> "clear"], [kind |-> "barrier"]>>)
  /\ Step(ALICE, "barrier")
  /\ UNCHANGED <<value, v, ran, fa, fb, r, product, result>>

\* BOB reads ALICE's share and only compares.
ReceiveClear ==
  /\ Awaits(BOB, "clear", "clear")
  /\ Receive(BOB, <<>>)
  /\ Step(BOB, "barrier")
  /\ UNCHANGED <<value, v, ran, triple, product, result>>

\* BOB answers the barrier with the same byte.
Barrier(s) ==
  /\ Awaits(s, "barrier", "barrier")
  /\ Receive(s, IF s = BOB THEN <<[kind |-> "barrier"]>> ELSE <<>>)
  /\ Step(s, Opening(s))
  /\ UNCHANGED <<value, v, ran, triple, product, result>>

-----------------------------------------------------------------------------
(* Mult and CPRS, for element slot[s]. *)

Difference(s) == [kind |-> "open", d |-> (v[s][slot[s]] - fa[s]) % W,
                                   e |-> (ran - fb[s]) % W]

SendOpen ==
  /\ pc[ALICE] = "open"
  /\ Send(ALICE, <<Difference(ALICE)>>)
  /\ Step(ALICE, "opened")
  /\ UNCHANGED <<value, v, ran, triple, product, result>>

\* The differences of both servers together.
Opened(s, m) == [d |-> (Difference(s).d + m.d) % W, e |-> (Difference(s).e + m.e) % W]

\* Variant: the summand lacks the server's share of c.
SummandWithoutC(s, o) == (o.d * fb[s] + fa[s] * o.e) % W

\* What server s adds to the product of the opened differences o.
Summand(s, o) == (o.d * fb[s] + fa[s] * o.e + fc[s]) % W

ReceiveOpen(s) ==
  /\ Awaits(s, "opened", "open")
  /\ LET o == Opened(s, Head(chan[s]))
     IN  /\ D' = [D EXCEPT ![s] = o.d]
         /\ E' = [E EXCEPT ![s] = o.e]
         /\ z' = [z EXCEPT ![s] = Summand(s, o)]
         /\ Receive(s, IF s = ALICE THEN <<[kind |-> "sum", z |-> Summand(s, o)]>>
                       ELSE <<Difference(s)>>)
  /\ Step(s, "summed")
  /\ UNCHANGED <<value, v, ran, triple, slot, xr, sig, shares, result>>

ReceiveSum(s) ==
  /\ Awaits(s, "summed", "sum")
  /\ LET x == (D[s] * E[s] + z[s] + Head(chan[s]).z) % W
     IN  /\ xr' = [xr EXCEPT ![s] = x]
         /\ Receive(s, IF s = ALICE THEN <<[kind |-> "product", x |-> x]>>
                       ELSE <<[kind |-> "sum", z |-> z[s]]>>)
  /\ Step(s, "multiplied")
  /\ UNCHANGED <<value, v, ran, triple, slot, D, E, z, sig, shares, result>>

\* Variant: the product is kept instead of the share.
KeptProduct(s) == xr[s] % p

\* Variant: the whole word is kept.
KeptWhole(s) == v[s][slot[s]]

\* What server s keeps of an element: its word as a field element.
Kept(s) == v[s][slot[s]] % p

\* Variant: a server tests its share of the element.
DroppedByShare(s, m) == v[s][slot[s]] = 0

\* The opened product is zero.
Dropped(s, m) == (xr[s] + m.x) % W = 0

Last(s) == slot[s] + 1 >= N

\* The product is opened and the element kept unless it is zero.
ReceiveProduct(s) ==
  /\ Awaits(s, "multiplied", "product")
  /\ IF Dropped(s, Head(chan[s]))
     THEN UNCHANGED <<sig, shares>>
     ELSE /\ sig' = [sig EXCEPT ![s] = Append(@, slot[s])]
          /\ shares' = [shares EXCEPT ![s] = Append(@, Kept(s))]
  /\ Receive(s, IF s = BOB THEN <<[kind |-> "product", x |-> xr[s]]>> ELSE <<>>)
  /\ slot' = [slot EXCEPT ![s] = IF Last(s) THEN @ ELSE @ + 1]
  /\ Step(s, IF Last(s) THEN "respond" ELSE Opening(s))
  /\ UNCHANGED <<value, v, ran, triple, D, E, z, xr, result>>

-----------------------------------------------------------------------------
(* The response; BOB's process plays the recipient. *)

\* ALICE sends the response and, for the check of the run, her whole vector.
Respond ==
  /\ pc[ALICE] = "respond"
  /\ Send(ALICE, <<[kind |-> "response", count |-> Len(shares[ALICE]), body |-> shares[ALICE]],
                   [kind |-> "vector", v |-> v[ALICE]]>>)
  /\ Step(ALICE, "verdict")
  /\ UNCHANGED <<value, v, ran, triple, product, result>>

\* Sorted, without the empty slots: how often each location occurs.
Locations(q) == [x \in Field \ {0} |-> Len(SelectSeq(q, LAMBDA e : e = x))]
Expected == [x \in Field \ {0} |-> Len(SelectSeq([i \in 1 .. N |-> value[i - 1]],
                                                 LAMBDA e : e = x))]

\* q lists the slots in S, the smaller ones first.
InOrder(q, S) ==
  /\ {q[j] : j \in 1 .. Len(q)} = S
  /\ \A j, k \in 1 .. Len(q) : j < k => q[j] < q[k]

\* What BOB says of the recovered list q and, opened with ALICE's vector, of sig.
Said(q, other) ==
  [exact |-> /\ \A i \in 1 .. Len(q) : q[i] # 0
             /\ Locations(q) = Expected,
   indices |-> InOrder(sig[BOB], {i \in Slot : (v[BOB][i] + other[i]) % W # 0})]

\* BOB reads the response and the vector, which follow each other.  The recipient
\* refuses responses of different lengths and adds the others in the field.
Recover ==
  /\ Awaits(BOB, "respond", "response")
  /\ LET m == chan[BOB][1]
         other == chan[BOB][2].v
         q == [i \in 1 .. m.count |-> (m.body[i] + shares[BOB][i]) % p]
     IN  IF m.count = Len(shares[BOB])
         THEN /\ recovered' = q
              /\ verdict' = [verdict EXCEPT ![BOB] = Said(q, other)]
              /\ chan' = [chan EXCEPT ![BOB] = SubSeq(@, 3, Len(@)),
                            ![ALICE] = Append(@, [kind |-> "summary", said |-> Said(q, other)])]
              /\ Step(BOB, "done")
         ELSE /\ chan' = [chan EXCEPT ![BOB] = SubSeq(@, 3, Len(@))]
              /\ Step(BOB, "thrown")
              /\ UNCHANGED result
  /\ UNCHANGED <<value, v, ran, triple, product>>

ReceiveSummary ==
  /\ Awaits(ALICE, "verdict", "summary")
  /\ verdict' = [verdict EXCEPT ![ALICE] = Head(chan[ALICE]).said]
  /\ Receive(ALICE, <<>>)
  /\ Step(ALICE, "done")
  /\ UNCHANGED <<value, v, ran, triple, product, recovered>>

Done == \A s \in Party : pc[s] = "done"

Next ==
  \/ SendKeys \/ ReceiveCross \/ SendOpen \/ Respond \/ ReceiveSummary
  \/ \E h \in Draws : ReceiveKeys(h)
  \/ ReceiveClear \/ Recover
  \/ \E s \in Party : Barrier(s) \/ ReceiveOpen(s) \/ ReceiveSum(s) \/ ReceiveProduct(s)
  \/ Done /\ UNCHANGED vars

Spec == Init /\ [][Next]_vars

-----------------------------------------------------------------------------
TypeOK ==
  /\ value \in [Slot -> Field] /\ v \in [Party -> [Slot -> Word]] /\ ran \in Rans
  /\ {fa, fb, fc, D, E, z, xr} \subseteq [Party -> Word] /\ r \in Word
  /\ slot \in [Party -> Slot]
  /\ sig \in [Party -> Seq(Slot)] /\ shares \in [Party -> Seq(Field)]
  /\ recovered \in Seq(Field)
  /\ verdict \in [Party -> [exact : BOOLEAN, indices : BOOLEAN]]
  /\ pc \in [Party -> {"keys", "cross", "clear", "barrier", "open", "opened", "summed",
                       "multiplied", "respond", "verdict", "thrown", "done"}]

\* The triple multiplies, except that BOB's c1 = a1 b1 - r wraps at the Paillier
\* modulus, not at the word, when a1 b1 < r.
Borrowed == fa[BOB] * fb[BOB] < r
TripleUpToBorrow ==
  pc[ALICE] \notin {"keys", "cross"} =>
     (fc[ALICE] + fc[BOB]) % W =
        ((fa[ALICE] + fa[BOB]) * (fb[ALICE] + fb[BOB]) + IF Borrowed THEN Pub ELSE 0) % W

\* Whatever the triple, both servers keep the same slots of those both have
\* treated, so the recipient never sees responses of different lengths.
SameSlots ==
  /\ slot[ALICE] = slot[BOB] /\ pc[ALICE] = pc[BOB] => sig[ALICE] = sig[BOB]
  /\ \A s \in Party : pc[s] # "thrown"

\* With a sound triple and a mask that four does not divide the kept slots are
\* those of the elements that are not zero: an element stays below W/8, and what
\* is opened is four times the element times the mask, modulo 2^w.
MaskKeepsAll ==
  Done /\ ~Borrowed /\ ran % 4 # 0 =>
     verdict[ALICE].indices /\ InOrder(sig[ALICE], {i \in Slot : value[i] # 0})

\* An element whose shares wrap modulo 2^w is recovered too large by 2^w mod p.
Wrapped(i) == v[ALICE][i] + v[BOB][i] >= W
RecoveredUpToWrap ==
  Done => \A j \in 1 .. Len(recovered) :
             LET i == sig[BOB][j]
             IN  recovered[j] = (value[i] + IF Wrapped(i) THEN W ELSE 0) % p

\* What the harness demands of every run: the recovered locations are the
\* elements that are not zero.
ExactLocations == Done => verdict[ALICE].exact
=============================================================================
