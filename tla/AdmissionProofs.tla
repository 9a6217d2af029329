--------------------------- MODULE AdmissionProofs ---------------------------
(***************************************************************************)
(* Proofs about admission, for every set of signals, shares and registered *)
(* identifiers and every bound on preparations; and about what the proofs  *)
(* that it compares tell, for every number of DPF objects, contexts,       *)
(* retries and inputs.                                                     *)
(***************************************************************************)
EXTENDS Admission, DpfContext, FiniteSetTheorems, TLAPS

\* A server has one peer, and is its peer's.
LEMMA PeerType == \A p \in Server : Peer(p) \in Server /\ Peer(p) # p /\ Peer(Peer(p)) = p
  BY DEF Server, Peer

\* What Prepare decides is a decision.
LEMMA PrecheckType ==
  \A p, sid, key, ids : Precheck(p, sid, key, ids) \in Decision
  BY DEF Precheck, Decision

\* What Prepare returns is a PreparedAdmission.
LEMMA PreparedForType ==
  ASSUME NEW p \in Server, NEW sid \in SignalId, NEW key \in KeyShare,
         NEW ids \in Registry
  PROVE  PreparedFor(p, sid, key, ids) \in PreparedAdmission
  BY ProofAssumption, PrecheckType DEF PreparedFor, PreparedAdmission

\* The type invariant of the servers, their preparations and the network.
THEOREM TypeCorrect == Spec => []TypeOK
<1>1. Init => TypeOK
  BY DEF Init, TypeOK
<1>2. TypeOK /\ [Next]_vars => TypeOK'
  <2> SUFFICES ASSUME TypeOK, [Next]_vars PROVE TypeOK'
    OBVIOUS
  <2>1. CASE \E p \in Server, sid \in SignalId, key \in KeyShare, ids \in Registry :
               Prepare(p, sid, key, ids)
    BY <2>1, PreparedForType DEF TypeOK, Prepare
  <2>2. CASE \E pr \in prepared : Send(pr)
    <3> PICK pr \in prepared : Send(pr)
      BY <2>2
    <3>1. MessageOf(pr) \in AdmissionMessage
      BY PeerType DEF TypeOK, MessageOf, PreparedAdmission, AdmissionMessage
    <3> QED
      BY <3>1 DEF TypeOK, Send
  <2>3. CASE \E m \in msgs : Garble(m)
    <3> PICK m \in msgs : Garble(m)
      BY <2>3
    <3>1. [m EXCEPT !.proof = Garbled] \in AdmissionMessage
      BY ProofAssumption DEF TypeOK, AdmissionMessage
    <3> QED
      BY <3>1 DEF TypeOK, Garble
  <2>4. CASE \E p \in Server, pr \in prepared, m \in msgs : Finalize(p, pr, m)
    <3> PICK p \in Server, pr \in prepared, m \in msgs : Finalize(p, pr, m)
      BY <2>4
    <3>1. /\ pr \in PreparedAdmission
          /\ pr.signal_id \in SignalId
          /\ pr.key \in KeyShare \cup {NoKey}
      BY DEF TypeOK, PreparedAdmission
    <3>2. store' \in [Server -> [SignalId -> KeyShare \cup {NoKey}]]
      BY <3>1 DEF TypeOK, Finalize
    <3> QED
      BY <3>2 DEF TypeOK, Finalize
  <2>5. CASE UNCHANGED vars
    BY <2>5 DEF TypeOK, vars
  <2> QED
    BY <2>1, <2>2, <2>3, <2>4, <2>5 DEF Next
<1> QED
  BY <1>1, <1>2, PTL DEF Spec

(***************************************************************************)
(* The inductive invariant.  Exactly the ready preparations passed the     *)
(* checks, and they hold the proof of their share; a ready message that    *)
(* was not garbled comes from a ready preparation of the sender.           *)
(***************************************************************************)
PreparedInv ==
  \A pr \in prepared :
     /\ pr.ready <=> pr.precheck = "Accept"
     /\ pr.ready => /\ pr.key \in KeyShare
                    /\ pr.proof = Proof(pr.owner, pr.key, pr.ids)

MessageInv ==
  \A m \in msgs : (m.ready /\ m.proof # Garbled) =>
     \E pr \in ReadyFor(Peer(m.to), m.signal_id) : pr.proof = m.proof

AdmissionInv == TypeOK /\ PreparedInv /\ MessageInv /\ StoredIsVouched

\* A ready preparation never carries the garbled proof.
LEMMA ReadyProof ==
  ASSUME TypeOK, PreparedInv, NEW pr \in prepared, pr.ready
  PROVE  pr.proof # Garbled
  BY ProofAssumption DEF TypeOK, PreparedInv, PreparedAdmission

\* An accepting Finalize has a ready preparation of its own and, behind the
\* message it read, one of the peer with the same proof.
LEMMA AcceptIsVouched ==
  ASSUME TypeOK, PreparedInv, MessageInv,
         NEW p \in Server, NEW pr \in prepared, NEW m \in msgs, m.to = p,
         FinalizeDecision(p, pr, m) = "Accept"
  PROVE  /\ pr \in ReadyFor(p, pr.signal_id)
         /\ pr.key \in KeyShare
         /\ ~Contains(p, pr.signal_id)
         /\ \E q \in ReadyFor(Peer(p), pr.signal_id) : q.proof = pr.proof
<1>1. pr.owner = p /\ pr.ready
  BY DEF FinalizeDecision, TypeOK, PreparedAdmission, PreparedInv
<1>2. m.ready /\ m.signal_id = pr.signal_id /\ m.proof = pr.proof
  BY <1>1 DEF FinalizeDecision
<1>3. ~Contains(p, pr.signal_id)
  BY <1>1, <1>2 DEF FinalizeDecision
<1>4. m.proof # Garbled
  BY <1>1, <1>2, ReadyProof
<1> QED
  BY <1>1, <1>2, <1>3, <1>4 DEF PreparedInv, MessageInv, ReadyFor

\* A step keeps the preparations there are.
LEMMA PreparedGrows ==
  ASSUME [Next]_vars
  PROVE  /\ prepared \subseteq prepared'
         /\ \A p, sid : ReadyFor(p, sid) \subseteq ReadyFor(p, sid)'
<1>1. prepared \subseteq prepared'
  BY DEF Next, vars, Prepare, Send, Garble, Finalize
<1> QED
  BY <1>1 DEF ReadyFor

\* What is prepared, what is on its way and what is stored stay in step in every
\* reachable state: the invariant behind the theorems below.
THEOREM AdmissionInvariant == Spec => []AdmissionInv
<1>1. Init => AdmissionInv
  <2> SUFFICES ASSUME Init PROVE PreparedInv /\ MessageInv /\ StoredIsVouched /\ TypeOK
    BY DEF AdmissionInv
  <2>1. TypeOK
    BY DEF Init, TypeOK
  <2>2. PreparedInv /\ MessageInv
    BY DEF Init, PreparedInv, MessageInv
  <2>3. StoredIsVouched
    BY DEF Init, StoredIsVouched, Contains
  <2> QED
    BY <2>1, <2>2, <2>3
<1>2. AdmissionInv /\ TypeOK' /\ [Next]_vars => AdmissionInv'
  <2> SUFFICES ASSUME AdmissionInv, TypeOK', [Next]_vars PROVE AdmissionInv'
    OBVIOUS
  <2> USE DEF AdmissionInv
  <2>1. CASE \E p \in Server, sid \in SignalId, key \in KeyShare, ids \in Registry :
               Prepare(p, sid, key, ids)
    <3> PICK p \in Server, sid \in SignalId, key \in KeyShare, ids \in Registry :
               Prepare(p, sid, key, ids)
      BY <2>1
    <3> DEFINE new == PreparedFor(p, sid, key, ids)
    <3>1. PreparedInv'
      <4>1. prepared' = prepared \cup {new}
        BY DEF Prepare
      <4>2. /\ new.ready <=> new.precheck = "Accept"
            /\ new.ready => /\ new.key \in KeyShare
                            /\ new.proof = Proof(new.owner, new.key, new.ids)
        BY DEF PreparedFor
      <4> QED
        BY <4>1, <4>2 DEF PreparedInv
    <3>2. MessageInv'
      BY PreparedGrows DEF MessageInv, Prepare
    <3>3. StoredIsVouched'
      BY PreparedGrows, PeerType DEF StoredIsVouched, Prepare, Contains
    <3> QED
      BY <3>1, <3>2, <3>3
  <2>2. CASE \E pr \in prepared : Send(pr)
    <3> PICK pr \in prepared : Send(pr)
      BY <2>2
    <3>1. PreparedInv'
      BY DEF PreparedInv, Send
    <3>2. MessageInv'
      BY PeerType DEF MessageInv, Send, MessageOf, ReadyFor, TypeOK, PreparedAdmission
    <3>3. StoredIsVouched'
      BY DEF StoredIsVouched, Send, Contains, ReadyFor
    <3> QED
      BY <3>1, <3>2, <3>3
  <2>3. CASE \E m \in msgs : Garble(m)
    <3> PICK m \in msgs : Garble(m)
      BY <2>3
    <3>1. PreparedInv'
      BY DEF PreparedInv, Garble
    <3>2. MessageInv'
      BY DEF MessageInv, Garble, ReadyFor, TypeOK, AdmissionMessage
    <3>3. StoredIsVouched'
      BY DEF StoredIsVouched, Garble, Contains, ReadyFor
    <3> QED
      BY <3>1, <3>2, <3>3
  <2>4. CASE \E p \in Server, pr \in prepared, m \in msgs : Finalize(p, pr, m)
    <3> PICK p \in Server, pr \in prepared, m \in msgs : Finalize(p, pr, m)
      BY <2>4
    <3>1. PreparedInv' /\ MessageInv'
      BY DEF PreparedInv, MessageInv, Finalize, ReadyFor
    <3>2. CASE FinalizeDecision(p, pr, m) = "Accept"
      <4>1. /\ pr \in ReadyFor(p, pr.signal_id)
            /\ \E q \in ReadyFor(Peer(p), pr.signal_id) : q.proof = pr.proof
        BY <3>2, AcceptIsVouched DEF Finalize
      <4>2. store' = [store EXCEPT ![p][pr.signal_id] = pr.key]
        BY <3>2 DEF Finalize
      <4>3. prepared' = prepared
        BY DEF Finalize
      <4>4. ASSUME NEW s \in Server, NEW sid \in SignalId, Contains(s, sid)'
            PROVE  \E mine \in ReadyFor(s, sid), theirs \in ReadyFor(Peer(s), sid) :
                      mine.key = store'[s][sid] /\ mine.proof = theirs.proof
        <5>1. CASE s = p /\ sid = pr.signal_id
          <6>1. store'[s][sid] = pr.key
            BY <5>1, <4>2 DEF TypeOK
          <6> QED
            BY <6>1, <5>1, <4>1
        <5>2. CASE ~(s = p /\ sid = pr.signal_id)
          <6>1. store'[s][sid] = store[s][sid]
            BY <5>2, <4>2 DEF TypeOK
          <6> QED
            BY <6>1, <4>4 DEF StoredIsVouched, Contains
        <5> QED
          BY <5>1, <5>2
      <4> QED
        BY <3>1, <4>3, <4>4 DEF StoredIsVouched, ReadyFor
    <3>3. CASE FinalizeDecision(p, pr, m) # "Accept"
      BY <3>1, <3>3 DEF StoredIsVouched, Finalize, Contains, ReadyFor
    <3> QED
      BY <3>2, <3>3
  <2>5. CASE UNCHANGED vars
    BY <2>5 DEF vars, PreparedInv, MessageInv, StoredIsVouched, Contains, ReadyFor
  <2> QED
    BY <2>1, <2>2, <2>3, <2>4, <2>5 DEF Next
<1> QED
  BY <1>1, <1>2, TypeCorrect, PTL DEF Spec

\* Whatever the network does and however calls interleave, an entry of one
\* database is vouched for by ready preparations of both servers.
THEOREM StoredVouched == Spec => []StoredIsVouched
  BY AdmissionInvariant, PTL DEF AdmissionInv

\* Databases that differ on a signal were either offered two pairs for it, at
\* both servers, before either stored one, or hold shares of two pairs whose
\* proofs came out equal.
THEOREM DivergenceExplained == Spec => []DivergenceHasCause
<1>1. AdmissionInv => DivergenceHasCause
  <2> SUFFICES ASSUME AdmissionInv, NEW sid \in SignalId,
                      Contains(0, sid), Contains(1, sid),
                      Pair(store[0][sid]) # Pair(store[1][sid]),
                      ~\E a \in ReadyFor(0, sid), b \in ReadyFor(1, sid) :
                         Pair(a.key) # Pair(b.key) /\ a.proof = b.proof,
                      NEW p \in Server
               PROVE  \E a, b \in ReadyFor(p, sid) : Pair(a.key) # Pair(b.key)
    BY DEF DivergenceHasCause
  <2> DEFINE q == Peer(p)
  <2>1. /\ q \in Server /\ Peer(q) = p
        /\ Contains(p, sid) /\ Contains(q, sid)
        /\ Pair(store[p][sid]) # Pair(store[q][sid])
    BY DEF Server, Peer
  <2>2. PICK mine \in ReadyFor(p, sid) : mine.key = store[p][sid]
    BY <2>1 DEF AdmissionInv, StoredIsVouched
  <2>3. PICK other \in ReadyFor(q, sid), rival \in ReadyFor(p, sid) :
           other.key = store[q][sid] /\ other.proof = rival.proof
    BY <2>1 DEF AdmissionInv, StoredIsVouched
  <2>4. Pair(rival.key) = Pair(other.key)
    BY <2>3 DEF Server, Peer
  <2> QED
    BY <2>1, <2>2, <2>3, <2>4
<1> QED
  BY <1>1, AdmissionInvariant, PTL

\* A verified key is never overwritten or dropped.
THEOREM WriteOnce == Spec => StoreIsWriteOnce
<1>1. AdmissionInv /\ [Next]_vars =>
        [\A p \in Server, sid \in SignalId :
           Contains(p, sid) => store'[p][sid] = store[p][sid]]_vars
  <2> SUFFICES ASSUME AdmissionInv, Next,
                      NEW s \in Server, NEW sid \in SignalId, Contains(s, sid)
               PROVE  store'[s][sid] = store[s][sid]
    BY DEF vars
  <2>1. CASE store' = store
    BY <2>1
  <2>2. CASE \E p \in Server, pr \in prepared, m \in msgs : Finalize(p, pr, m)
    <3> PICK p \in Server, pr \in prepared, m \in msgs : Finalize(p, pr, m)
      BY <2>2
    <3>1. CASE FinalizeDecision(p, pr, m) = "Accept"
      <4>1. ~Contains(p, pr.signal_id)
        BY <3>1, AcceptIsVouched DEF Finalize, AdmissionInv
      <4>2. store' = [store EXCEPT ![p][pr.signal_id] = pr.key]
        BY <3>1 DEF Finalize
      <4>3. ~(s = p /\ sid = pr.signal_id)
        BY <4>1
      <4> QED
        BY <4>2, <4>3 DEF AdmissionInv, TypeOK
    <3>2. CASE FinalizeDecision(p, pr, m) # "Accept"
      BY <3>2 DEF Finalize
    <3> QED
      BY <3>1, <3>2
  <2> QED
    BY <2>1, <2>2 DEF Next, Prepare, Send, Garble
<1> QED
  BY <1>1, AdmissionInvariant, PTL DEF Spec, StoreIsWriteOnce

\* Admission implements the ledger: a ready preparation is a verification of
\* a signal not entered, an accepting Finalize enters a share both verified,
\* and every other step leaves the ledger alone.
THEOREM ImplementsLedger == Spec => LedgerSpec
<1>1. Init => Ledger!Init
  BY DEF Init, Ledger!Init, VerifiedShares, Server, Ledger!Server
<1>2. AdmissionInv /\ TypeOK' /\ [Next]_vars => [Ledger!Next]_<<VerifiedShares, store>>
  <2> SUFFICES ASSUME AdmissionInv, TypeOK', [Next]_vars
               PROVE  Ledger!Next \/ UNCHANGED <<VerifiedShares, store>>
    OBVIOUS
  <2>0. Ledger!Server = Server
    BY DEF Server, Ledger!Server
  <2>1. CASE \E p \in Server, sid \in SignalId, key \in KeyShare, ids \in Registry :
               Prepare(p, sid, key, ids)
    <3> PICK p \in Server, sid \in SignalId, key \in KeyShare, ids \in Registry :
               Prepare(p, sid, key, ids)
      BY <2>1
    <3> DEFINE pr == PreparedFor(p, sid, key, ids)
    <3>1. store' = store /\ prepared' = prepared \cup {pr}
      BY DEF Prepare
    <3>2. CASE Precheck(p, sid, key, ids) = "Accept"
      <4>1. pr.ready /\ pr.owner = p /\ pr.signal_id = sid /\ pr.key = key
        BY <3>2 DEF PreparedFor
      <4>2. store[p][sid] = NoKey
        BY <3>2 DEF Precheck, Contains
      <4>3. VerifiedShares' = VerifiedShares \cup {<<p, sid, key, pr.proof>>}
        BY <3>1, <4>1 DEF VerifiedShares
      <4>4. pr.proof \in ProofValue
        BY <3>2, ProofAssumption DEF PreparedFor
      <4>5. Ledger!Verify(p, sid, key, pr.proof)
        BY <3>1, <4>2, <4>3 DEF Ledger!Verify
      <4> QED
        BY <4>4, <4>5, <2>0 DEF Ledger!Next
    <3>3. CASE Precheck(p, sid, key, ids) # "Accept"
      <4>1. ~pr.ready
        BY <3>3 DEF PreparedFor
      <4> QED
        BY <3>1, <4>1 DEF VerifiedShares
    <3> QED
      BY <3>2, <3>3
  <2>2. CASE \E pr \in prepared : Send(pr)
    BY <2>2 DEF Send, VerifiedShares
  <2>3. CASE \E m \in msgs : Garble(m)
    BY <2>3 DEF Garble, VerifiedShares
  <2>4. CASE \E p \in Server, pr \in prepared, m \in msgs : Finalize(p, pr, m)
    <3> PICK p \in Server, pr \in prepared, m \in msgs : Finalize(p, pr, m)
      BY <2>4
    <3>1. VerifiedShares' = VerifiedShares
      BY DEF Finalize, VerifiedShares
    <3>2. CASE FinalizeDecision(p, pr, m) = "Accept"
      <4>1. PICK q \in ReadyFor(Peer(p), pr.signal_id) : q.proof = pr.proof
        BY <3>2, AcceptIsVouched DEF Finalize, AdmissionInv
      <4>2. pr \in ReadyFor(p, pr.signal_id) /\ pr.key \in KeyShare /\ ~Contains(p, pr.signal_id)
        BY <3>2, AcceptIsVouched DEF Finalize, AdmissionInv
      <4>3. q.key \in KeyShare /\ pr.signal_id \in SignalId /\ pr.proof \in ProofValue
        BY <4>1 DEF AdmissionInv, TypeOK, PreparedInv, PreparedAdmission, ReadyFor
      <4>4. /\ <<p, pr.signal_id, pr.key, pr.proof>> \in VerifiedShares
            /\ <<Peer(p), pr.signal_id, q.key, pr.proof>> \in VerifiedShares
        BY <4>1, <4>2 DEF VerifiedShares, ReadyFor
      <4>5. store' = [store EXCEPT ![p][pr.signal_id] = pr.key]
        BY <3>2 DEF Finalize
      <4>6. Ledger!Enter(<<p, pr.signal_id, pr.key, pr.proof>>,
                         <<Peer(p), pr.signal_id, q.key, pr.proof>>)
        BY <3>1, <4>2, <4>5, PeerType DEF Ledger!Enter, Contains
      <4> QED
        BY <4>4, <4>6 DEF Ledger!Next
    <3>3. CASE FinalizeDecision(p, pr, m) # "Accept"
      BY <3>1, <3>3 DEF Finalize
    <3> QED
      BY <3>2, <3>3
  <2>5. CASE UNCHANGED vars
    BY <2>5 DEF vars, VerifiedShares
  <2> QED
    BY <2>1, <2>2, <2>3, <2>4, <2>5 DEF Next
<1> QED
  BY <1>1, <1>2, AdmissionInvariant, TypeCorrect, PTL DEF Spec, LedgerSpec, Ledger!Spec

-----------------------------------------------------------------------------
(* The contexts that the proofs are computed under. *)

\* What the fields of a pair and of an evaluation were computed from.
PairInv == \A p \in pairs : p.cs = CheckWords(p.keys, 2 * p.retries)

EvalInv ==
  \A e \in evals : /\ e.pair \in pairs
                   /\ e.proof = Xor(e.pair.cs, Words("H2", e.keys, 0, e.n))

ContextInv == ContextTypeOK /\ IsFiniteSet(pairs) /\ PairInv /\ EvalInv

\* Hash words are words.
LEMMA WordsType ==
  ASSUME NEW h \in {"H1", "H2"}, NEW k \in ContextKeys, NEW p \in Nat, NEW n \in Nat
  PROVE  Words(h, k, p, n) \in SUBSET Word
  BY DEF Words, Word

\* The check of a string hashes two words, of consecutive places.
LEMMA CheckWordsAre ==
  ASSUME NEW k \in ContextKeys, NEW p \in Nat
  PROVE  /\ CheckWords(k, p) = {<<"H1", k, p>>, <<"H1", k, p + 1>>}
         /\ CheckWords(k, p) \in SUBSET Word
<1>1. Words("H1", k, p, 1) = {<<"H1", k, p>>} /\ Words("H1", k, p + 1, 1) = {<<"H1", k, p + 1>>}
  <2>1. p .. p + 1 - 1 = {p} /\ p + 1 .. p + 1 + 1 - 1 = {p + 1}
    OBVIOUS
  <2> QED
    BY <2>1 DEF Words
<1>2. <<"H1", k, p>> # <<"H1", k, p + 1>>
  OBVIOUS
<1> QED
  BY <1>1, <1>2 DEF CheckWords, Xor, Word

\* Sets of words are closed under the exclusive or.
LEMMA XorType ==
  ASSUME NEW a \in SUBSET Word, NEW b \in SUBSET Word
  PROVE  Xor(a, b) \in SUBSET Word
  BY DEF Xor

\* The strengthened invariant: check words and proofs are functions of what
\* was generated and evaluated, not of when.
THEOREM ContextInductive == ContextSpec => []ContextInv
<1>1. ContextInit => ContextInv
  BY FS_EmptySet DEF ContextInit, ContextInv, ContextTypeOK, PairInv, EvalInv
<1>2. ContextInv /\ [ContextNext]_contextVars => ContextInv'
  <2> SUFFICES ASSUME ContextInv, [ContextNext]_contextVars PROVE ContextInv'
    OBVIOUS
  <2>0. ContextTypeOK /\ IsFiniteSet(pairs) /\ PairInv /\ EvalInv
    BY DEF ContextInv
  <2>1. CASE \E o \in Object : ExportContextKeys(o)
    BY <2>0, <2>1 DEF ContextInv, ContextTypeOK, PairInv, EvalInv, ExportContextKeys
  <2>2. CASE \E o \in Object, k \in exported : ImportContextKeys(o, k)
    BY <2>0, <2>2 DEF ContextInv, ContextTypeOK, PairInv, EvalInv, ImportContextKeys, reset
  <2>3. CASE \E o \in Object, r \in 0 .. MaxRetries : Gen(o, r)
    <3> PICK o \in Object, r \in 0 .. MaxRetries : Gen(o, r)
      BY <2>3
    <3> DEFINE p == [id |-> Cardinality(pairs), retries |-> r, keys |-> keys[o],
                     cs |-> CheckWords(keys[o], 2 * r)]
    <3>1. reset(calls1, o)[o] = 0
      BY <2>0 DEF reset, ContextTypeOK
    <3>2. pairs' = pairs \cup {p} /\ UNCHANGED <<keys, exported, evals>>
      BY <3>1 DEF Gen
    <3>3. r \in Nat /\ 2 * r \in Nat /\ keys[o] \in ContextKeys
      BY <2>0, BoundAssumption DEF ContextTypeOK
    <3>4. calls1' \in [Object -> Nat] /\ calls2' \in [Object -> Nat]
      BY <2>0, <3>1, <3>3 DEF Gen, reset, ContextTypeOK
    <3>5. p \in KeyPair
      BY <2>0, <3>3, FS_CardinalityType, CheckWordsAre DEF KeyPair
    <3>6. ContextTypeOK'
      BY <2>0, <3>2, <3>4, <3>5 DEF ContextTypeOK
    <3>7. IsFiniteSet(pairs')
      BY <2>0, <3>2, FS_AddElement
    <3>8. PairInv' /\ EvalInv'
      BY <2>0, <3>2 DEF PairInv, EvalInv
    <3> QED
      BY <3>6, <3>7, <3>8 DEF ContextInv
  <2>4. CASE \E o \in Object, b \in {0, 1}, pair \in pairs, n \in 1 .. MaxBatch :
               VerEval(o, b, pair, n)
    <3> PICK o \in Object, b \in {0, 1}, pair \in pairs, n \in 1 .. MaxBatch :
               VerEval(o, b, pair, n)
      BY <2>4
    <3> DEFINE e == [party |-> b, pair |-> pair, n |-> n, keys |-> keys[o],
                     proof |-> Xor(pair.cs, Words("H2", keys[o], 0, n))]
    <3>1. reset_hashes(calls2, o)[o] = 0 /\ n \in Nat /\ keys[o] \in ContextKeys
      BY <2>0, BoundAssumption DEF reset_hashes, reset, ContextTypeOK
    <3>2. evals' = evals \cup {e} /\ UNCHANGED <<keys, exported, pairs>>
      BY <3>1 DEF VerEval
    <3>4. calls1' \in [Object -> Nat] /\ calls2' \in [Object -> Nat]
      BY <2>0, <3>1 DEF VerEval, reset_hashes, reset, ContextTypeOK
    <3>5. e \in Evaluation
      <4>1. Words("H2", keys[o], 0, n) \in SUBSET Word
        BY <3>1, WordsType
      <4>2. pair \in KeyPair /\ pair.cs \in SUBSET Word
        BY <2>0 DEF ContextTypeOK, KeyPair
      <4> QED
        BY <3>1, <4>1, <4>2, XorType DEF Evaluation
    <3>6. ContextTypeOK'
      BY <2>0, <3>2, <3>4, <3>5 DEF ContextTypeOK
    <3>7. PairInv' /\ EvalInv'
      BY <2>0, <3>2 DEF PairInv, EvalInv
    <3> QED
      BY <2>0, <3>2, <3>6, <3>7 DEF ContextInv
  <2>5. CASE UNCHANGED contextVars
    BY <2>0, <2>5 DEF ContextInv, ContextTypeOK, PairInv, EvalInv, contextVars
  <2> QED
    BY <2>1, <2>2, <2>3, <2>4, <2>5 DEF ContextNext
<1> QED
  BY <1>1, <1>2, PTL DEF ContextSpec

\* Contexts, streams, pairs and evaluations keep their types: a check word or proof is
\* always a set of words of the two streams.
THEOREM ContextTypeCorrect == ContextSpec => []ContextTypeOK
<1>1. ContextInv => ContextTypeOK
  BY DEF ContextInv
<1> QED
  BY <1>1, ContextInductive, PTL

\* Honest shares always pass the comparison.
THEOREM HonestAgree == ContextSpec => []HonestProofsAgree
<1>1. ContextInv => HonestProofsAgree
  BY DEF ContextInv, EvalInv, HonestProofsAgree
<1> QED
  BY <1>1, ContextInductive, PTL

\* Equal proofs were computed under one context, over as many inputs, from
\* pairs of one context generated in as many turns, and that is all they tell.
THEOREM ProofTells == ContextSpec => []ProofTellsBatchAndTurns
<1>1. ContextInv => ProofTellsBatchAndTurns
  <2> SUFFICES ASSUME ContextInv, NEW e \in evals, NEW f \in evals, e.proof = f.proof
               PROVE  /\ e.keys = f.keys /\ e.n = f.n
                      /\ e.pair.keys = f.pair.keys /\ e.pair.retries = f.pair.retries
    BY DEF ProofTellsBatchAndTurns
  <2> DEFINE C(x) == {<<"H1", x.pair.keys, 2 * x.pair.retries>>,
                      <<"H1", x.pair.keys, 2 * x.pair.retries + 1>>}
             H(x) == Words("H2", x.keys, 0, x.n)
  <2>1. ASSUME NEW x \in evals
        PROVE  /\ x.pair.keys \in ContextKeys /\ x.pair.retries \in Nat
               /\ x.keys \in ContextKeys /\ x.n \in Nat \ {0}
               /\ x.proof = C(x) \cup H(x)
               /\ \A w \in C(x) : w[1] = "H1"
               /\ \A w \in H(x) : w[1] = "H2"
    <3>1. x \in Evaluation /\ x.pair \in KeyPair /\ x.pair \in pairs
      BY DEF ContextInv, ContextTypeOK, EvalInv
    <3>2. /\ x.pair.keys \in ContextKeys /\ x.pair.retries \in Nat
          /\ x.keys \in ContextKeys /\ x.n \in Nat \ {0}
      BY <3>1, BoundAssumption DEF KeyPair, Evaluation
    <3>3. x.pair.cs = C(x)
      BY <3>1, <3>2, CheckWordsAre DEF ContextInv, PairInv
    <3>4. x.proof = Xor(C(x), H(x))
      BY <3>3 DEF ContextInv, EvalInv
    <3>5. (\A w \in C(x) : w[1] = "H1") /\ (\A w \in H(x) : w[1] = "H2")
      BY DEF Words
    <3>6. C(x) \cap H(x) = {}
      BY <3>5
    <3> HIDE DEF C, H
    <3>7. Xor(C(x), H(x)) = C(x) \cup H(x)
      BY <3>6 DEF Xor
    <3> QED
      BY <3>2, <3>4, <3>5, <3>7
  <2>2. C(e) = C(f) /\ H(e) = H(f)
    <3> HIDE DEF C, H
    <3> QED
      BY <2>1
  <2>3. e.pair.keys = f.pair.keys /\ e.pair.retries = f.pair.retries
    <3>1. <<"H1", e.pair.keys, 2 * e.pair.retries>> \in C(f)
      BY <2>2
    <3> QED
      BY <2>1, <3>1
  <2>4. ASSUME NEW x \in evals, NEW k, NEW j
        PROVE  <<"H2", k, j>> \in H(x) <=> k = x.keys /\ j \in 0 .. x.n - 1
    <3>1. 0 .. 0 + x.n - 1 = 0 .. x.n - 1
      BY <2>1
    <3>2. H(x) = {<<"H2", x.keys, i>> : i \in 0 .. x.n - 1}
      BY <3>1, Zenon DEF Words
    <3> HIDE DEF H
    <3>3. \A i : <<"H2", k, j>> = <<"H2", x.keys, i>> <=> (k = x.keys /\ j = i)
      OBVIOUS
    <3> QED
      BY <3>2, <3>3
  <2>5. e.keys = f.keys
    <3>1. <<"H2", e.keys, 0>> \in H(e)
      BY <2>1, <2>4
    <3> HIDE DEF H
    <3> QED
      BY <2>2, <2>4, <3>1
  <2>6. e.n = f.n
    <3>1. ASSUME NEW x \in evals, NEW y \in evals, H(x) = H(y), x.n < y.n PROVE FALSE
      <4>1. y.n - 1 \in 0 .. y.n - 1 /\ ~(y.n - 1 \in 0 .. x.n - 1)
        BY <2>1, <3>1
      <4> HIDE DEF H
      <4> QED
        BY <2>4, <3>1, <4>1
    <3> QED
      BY <2>1, <2>2, <3>1
  <2> QED
    BY <2>3, <2>5, <2>6
<1> QED
  BY <1>1, ContextInductive, PTL
=============================================================================
