------------------------------ MODULE Admission ------------------------------
(***************************************************************************)
(* Admission-time verification of signal keys by the two retrieval         *)
(* servers: class AdmissionServer of pvfss/src/admission.{h,cc}.           *)
(*                                                                         *)
(* A client hands each server one share of a VDPF key pair under a signal  *)
(* identifier.  Each server evaluates its share on its registered          *)
(* identifiers (Prepare), the servers exchange the resulting proofs in one *)
(* message each, and each server alone decides (Finalize) whether to enter *)
(* the share in its database verified_keys_.  Nothing makes the two        *)
(* decisions atomic.                                                       *)
(*                                                                         *)
(* What carries a message from one server to the other is the caller's.    *)
(* The module lets it lose, repeat, reorder and garble messages: msgs only *)
(* grows, and a Finalize may read any message made so far, or none.        *)
(***************************************************************************)
EXTENDS Integers, Sequences, FiniteSets, Functions

CONSTANTS
  SignalId,        \* signal identifiers clients may use
  KeyShare,        \* key shares clients may hand in, well formed or not
  Registry,        \* registered_identifiers vectors a server may hold
  NoKey,           \* no entry in verified_keys_
  WellFormed(_),   \* VerEval accepts the share (not null, expected length)
  Pair(_),         \* the key pair a share was generated with (history)
  Proof(_, _, _),  \* the proof of VerEval(party, share, identifiers); shares
                   \* of two pairs may well have one proof (DpfContext)
  ProofValue,      \* all proofs
  NullProof,       \* the proof of a preparation that failed: all bytes zero
  Garbled,         \* a proof altered on its way
  MaxPrepared      \* bound: preparations per server

Server == {0, 1}
Peer(p) == 1 - p

ASSUME ProofAssumption ==
  /\ \A p \in Server, k \in KeyShare, ids \in Registry :
        Proof(p, k, ids) \in ProofValue \ {NullProof, Garbled}
  /\ {NullProof, Garbled} \subseteq ProofValue

ASSUME RegistryAssumption == \A ids \in Registry : ids \in Seq(Nat)

ASSUME NoKeyAssumption == NoKey \notin KeyShare

Decision == {"Accept", "RejectInvalidRequest", "RejectDuplicateSignalId",
             "RejectPeerPrecheck", "RejectProofMismatch"}

VARIABLES
  store,     \* store[p][s]: the share server p keeps for s (verified_keys_)
  prepared,  \* PreparedAdmission objects handed out so far
  msgs       \* AdmissionMessages made so far, with the server they go to

vars == <<store, prepared, msgs>>

(***************************************************************************)
(* A PreparedAdmission.  ids, the vector it was computed from, is history. *)
(***************************************************************************)
PreparedAdmission ==
  [owner : Server, signal_id : SignalId, ready : BOOLEAN,
   precheck : Decision, proof : ProofValue, key : KeyShare \cup {NoKey},
   ids : Registry]

AdmissionMessage ==
  [to : Server, signal_id : SignalId, ready : BOOLEAN, proof : ProofValue]

Init ==
  /\ store = [p \in Server |-> [s \in SignalId |-> NoKey]]
  /\ prepared = {}
  /\ msgs = {}

-----------------------------------------------------------------------------
Contains(p, sid) == store[p][sid] # NoKey

HasDistinctInputs(ids) == IsInjective(ids)

\* The decision Prepare reaches before any message is exchanged.
Precheck(p, sid, key, ids) ==
  IF Contains(p, sid) THEN "RejectDuplicateSignalId"
  ELSE IF ids = <<>> \/ ~HasDistinctInputs(ids) THEN "RejectInvalidRequest"
  ELSE IF ~WellFormed(key) THEN "RejectInvalidRequest"
  ELSE "Accept"

\* The object Prepare returns: proof and share are kept only when it is ready.
PreparedFor(p, sid, key, ids) ==
  LET d  == Precheck(p, sid, key, ids)
      ok == d = "Accept"
  IN  [owner |-> p, signal_id |-> sid, ready |-> ok, precheck |-> d,
       proof |-> IF ok THEN Proof(p, key, ids) ELSE NullProof,
       key   |-> IF ok THEN key ELSE NoKey,
       ids   |-> ids]

Prepare(p, sid, key, ids) ==
  /\ Cardinality({pr \in prepared : pr.owner = p}) < MaxPrepared
  /\ prepared' = prepared \cup {PreparedFor(p, sid, key, ids)}
  /\ UNCHANGED <<store, msgs>>

\* Variant: servers counted from one.
MessageOfMisaddressed(pr) ==
  [to |-> 2 - pr.owner, signal_id |-> pr.signal_id,
   ready |-> pr.ready, proof |-> pr.proof]

\* PreparedAdmission::message, meant for the other server.
MessageOf(pr) ==
  [to |-> Peer(pr.owner), signal_id |-> pr.signal_id,
   ready |-> pr.ready, proof |-> pr.proof]

\* message() is const: a caller may ask for it at any time and any number of
\* times, and hand what it got to any number of Finalize calls.
Send(pr) ==
  /\ msgs' = msgs \cup {MessageOf(pr)}
  /\ UNCHANGED <<store, prepared>>

\* A message arrives with other proof bytes than were sent, as the test of
\* tampered proofs has it.  The proof does not cover the signal identifier, and
\* a message whose identifier was altered is not told from one of that signal:
\* the connection is taken to keep the identifier.
Garble(m) ==
  /\ msgs' = msgs \cup {[m EXCEPT !.proof = Garbled]}
  /\ UNCHANGED <<store, prepared>>

\* Variant: the message of any signal will do.
FinalizeDecisionAnySignal(p, pr, m) ==
  IF pr.owner # p THEN "RejectInvalidRequest"
  ELSE IF ~pr.ready THEN pr.precheck
  ELSE IF ~m.ready THEN "RejectPeerPrecheck"
  ELSE IF Contains(p, pr.signal_id) THEN "RejectDuplicateSignalId"
  ELSE IF pr.proof # m.proof THEN "RejectProofMismatch"
  ELSE "Accept"

\* Variant: the proofs are not compared.
FinalizeDecisionUnproved(p, pr, m) ==
  IF pr.owner # p THEN "RejectInvalidRequest"
  ELSE IF ~pr.ready THEN pr.precheck
  ELSE IF ~m.ready \/ m.signal_id # pr.signal_id THEN "RejectPeerPrecheck"
  ELSE IF Contains(p, pr.signal_id) THEN "RejectDuplicateSignalId"
  ELSE "Accept"

\* Variant: the database is not consulted again.
FinalizeDecisionStale(p, pr, m) ==
  IF pr.owner # p THEN "RejectInvalidRequest"
  ELSE IF ~pr.ready THEN pr.precheck
  ELSE IF ~m.ready \/ m.signal_id # pr.signal_id THEN "RejectPeerPrecheck"
  ELSE IF pr.proof # m.proof THEN "RejectProofMismatch"
  ELSE "Accept"

\* The checks of Finalize, in their order.  The database is consulted again:
\* it may have changed since Prepare.
FinalizeDecision(p, pr, m) ==
  IF pr.owner # p THEN "RejectInvalidRequest"
  ELSE IF ~pr.ready THEN pr.precheck
  ELSE IF ~m.ready \/ m.signal_id # pr.signal_id THEN "RejectPeerPrecheck"
  ELSE IF Contains(p, pr.signal_id) THEN "RejectDuplicateSignalId"
  ELSE IF pr.proof # m.proof THEN "RejectProofMismatch"
  ELSE "Accept"

\* Finalize takes the object by const reference: it can be finalised again.
\* The decision is returned and kept nowhere; only acceptance has an effect.
Finalize(p, pr, m) ==
  /\ m.to = p
  /\ store' = IF FinalizeDecision(p, pr, m) = "Accept"
              THEN [store EXCEPT ![p][pr.signal_id] = pr.key]
              ELSE store
  /\ UNCHANGED <<prepared, msgs>>

Next ==
  \/ \E p \in Server, sid \in SignalId, key \in KeyShare, ids \in Registry :
        Prepare(p, sid, key, ids)
  \/ \E pr \in prepared : Send(pr)
  \/ \E m \in msgs : Garble(m)
  \/ \E p \in Server, pr \in prepared, m \in msgs : Finalize(p, pr, m)

Spec == Init /\ [][Next]_vars

-----------------------------------------------------------------------------
\* Every variable has its type; in particular no entry of the database is a
\* share that was never handed in.
TypeOK ==
  /\ store \in [Server -> [SignalId -> KeyShare \cup {NoKey}]]
  /\ prepared \subseteq PreparedAdmission
  /\ msgs \subseteq AdmissionMessage

ReadyFor(p, sid) ==
  {pr \in prepared : pr.owner = p /\ pr.signal_id = sid /\ pr.ready}

\* Finalize enters a share only after the peer verified a share of the same
\* signal with the same proof: whatever messages are lost, repeated, delayed
\* or garbled, and however preparations and decisions interleave, an entry is
\* vouched for by a ready preparation at each server.
StoredIsVouched ==
  \A p \in Server, sid \in SignalId :
     Contains(p, sid) =>
        \E mine \in ReadyFor(p, sid), theirs \in ReadyFor(Peer(p), sid) :
           /\ mine.key = store[p][sid]
           /\ mine.proof = theirs.proof

\* The two databases can hold shares of different pairs under one signal, as
\* the two Finalize calls are not atomic and a proof does not name its pair.
\* It takes one of two things: both servers verified shares of two pairs for
\* the signal before they stored one (admissions that overlapped: the freshness
\* check of Prepare stops every later one), or the servers verified shares of
\* different pairs and their proofs came out equal.
DivergenceHasCause ==
  \A sid \in SignalId :
     (/\ Contains(0, sid)
      /\ Contains(1, sid)
      /\ Pair(store[0][sid]) # Pair(store[1][sid])) =>
        \/ \A p \in Server :
              \E a, b \in ReadyFor(p, sid) : Pair(a.key) # Pair(b.key)
        \/ \E a \in ReadyFor(0, sid), b \in ReadyFor(1, sid) :
              Pair(a.key) # Pair(b.key) /\ a.proof = b.proof

\* A verified key is never replaced or removed: emplace does not overwrite,
\* and a preparation made before the signal was stored is refused.
StoreIsWriteOnce ==
  [][\A p \in Server, sid \in SignalId :
        Contains(p, sid) => store'[p][sid] = store[p][sid]]_vars

-----------------------------------------------------------------------------
(***************************************************************************)
(* The ledger admission implements: a verification is a ready preparation, *)
(* an entry of the ledger an entry of verified_keys_.                      *)
(***************************************************************************)
VerifiedShares ==
  {<<pr.owner, pr.signal_id, pr.key, pr.proof>> :
     pr \in {q \in prepared : q.ready}}

Ledger == INSTANCE AdmissionLedger WITH
            verified <- VerifiedShares, ledger <- store

\* Admission implements the write-once ledger with two-server verification:
\* every Finalize either leaves the ledger alone or enters a share that both
\* servers verified to one proof.
LedgerSpec == Ledger!Spec
=============================================================================
