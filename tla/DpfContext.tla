----------------------------- MODULE DpfContext -----------------------------
(***************************************************************************)
(* The stateful half of class DPF (pvfss/src/dpf.cc): its VDPFState, and   *)
(* the verification code of genVDPF and batchEvalVDPF that draws from it.  *)
(*                                                                         *)
(* The two hashes of a state are AES counter streams (vdpf/src/mmo.c).  A  *)
(* call encrypts its input and xors the input again, so what it returns is *)
(* the next four blocks of keystream: it depends on the hash key and on    *)
(* the number of calls since the stream was initialised, not on the input. *)
(*                                                                         *)
(* A 64-byte string is the set of the keystream words whose xor it is; the *)
(* final SHA-256 is taken to be injective and left out.                    *)
(*                                                                         *)
(* The names of the specification carry a prefix: the proofs about what    *)
(* equal proofs tell are in AdmissionProofs, which extends Admission too.  *)
(***************************************************************************)
EXTENDS Integers, FiniteSets

CONSTANTS
  Object,       \* DPF objects: a client's and the servers'
  ContextKeys,  \* triples (prf_key, hash_key1, hash_key2)
  MaxRetries,   \* bound: restarts of one genVDPF
  MaxBatch,     \* bound: inputs of one evaluation
  MaxPairs,     \* bound: key pairs generated
  MaxEvals      \* bound: evaluations made

ASSUME BoundAssumption == MaxRetries \in Nat /\ MaxBatch \in Nat \ {0}

VARIABLES
  keys,      \* keys[o]: the context keys of object o
  calls1,    \* calls1[o]: calls of its first hash since it was initialised
  calls2,    \* calls2[o]: the same for its second hash
  exported,  \* context keys some object has exported
  pairs,     \* key pairs generated
  evals      \* batch evaluations made, with the proof each returned

contextVars == <<keys, calls1, calls2, exported, pairs, evals>>

Xor(a, b) == (a \ b) \cup (b \ a)

\* What the n calls of hash h under k return that follow the first p calls.
Words(h, k, p, n) == {<<h, k, j>> : j \in p .. p + n - 1}

ContextInit ==
  /\ keys \in [Object -> ContextKeys]
  /\ calls1 = [o \in Object |-> 0]
  /\ calls2 = [o \in Object |-> 0]
  /\ exported = {}
  /\ pairs = {}
  /\ evals = {}

ExportContextKeys(o) ==
  /\ exported' = exported \cup {keys[o]}
  /\ UNCHANGED <<keys, calls1, calls2, pairs, evals>>

\* A destroyed and reinitialised stream has made no call.
reset(calls, o) == [calls EXCEPT ![o] = 0]

\* Importing keys resets the contexts under them.
ImportContextKeys(o, k) ==
  /\ keys' = [keys EXCEPT ![o] = k]
  /\ calls1' = reset(calls1, o)
  /\ calls2' = reset(calls2, o)
  /\ UNCHANGED <<exported, pairs, evals>>

\* Variant: the check words are those of the first turn of the loop.
CheckWordsOfFirstTurn(k, p) == Xor(Words("H1", k, 0, 1), Words("H1", k, 1, 1))

\* Variant: counted from the call before.
CheckWordsEarly(k, p) == Xor(Words("H1", k, p - 1, 1), Words("H1", k, p, 1))

\* The check words cs of a pair: what the two calls after the first p return,
\* one for the leaf of each party.
CheckWords(k, p) == Xor(Words("H1", k, p, 1), Words("H1", k, p + 1, 1))

\* reset_contexts, then genVDPF, restarted r times; every turn of its loop
\* makes two calls, and those of the last turn are the check words.
Gen(o, r) ==
  LET calls == reset(calls1, o)
      last  == calls[o] + 2 * r
  IN  /\ Cardinality(pairs) < MaxPairs
      /\ pairs' = pairs \cup {[id |-> Cardinality(pairs), retries |-> r,
                               keys |-> keys[o], cs |-> CheckWords(keys[o], last)]}
      /\ calls1' = [calls EXCEPT ![o] = last + 2]
      /\ calls2' = reset(calls2, o)
      /\ UNCHANGED <<keys, exported, evals>>

\* Variant: the streams run on from one evaluation to the next.
reset_hashes_skipped(calls, o) == calls

\* reset_hashes by VerEval, BatchEvalProof and EvalWithProof.
reset_hashes(calls, o) == reset(calls, o)

\* VerEval, BatchEvalProof and, for n = 1, EvalWithProof: reset_hashes, then
\* batchEvalVDPF of n inputs with the share of party b; an empty batch or a
\* malformed share throws before that.  Every input calls both hashes once;
\* the result of the first is only ever an input of the second.
VerEval(o, b, pair, n) ==
  LET c1 == reset_hashes(calls1, o)
      c2 == reset_hashes(calls2, o)
  IN  /\ Cardinality(evals) < MaxEvals
      /\ evals' = evals \cup
           {[party |-> b, pair |-> pair, n |-> n, keys |-> keys[o],
             proof |-> Xor(pair.cs, Words("H2", keys[o], c2[o], n))]}
      /\ calls1' = [c1 EXCEPT ![o] = @ + n]
      /\ calls2' = [c2 EXCEPT ![o] = @ + n]
      /\ UNCHANGED <<keys, exported, pairs>>

ContextNext ==
  \/ \E o \in Object : ExportContextKeys(o)
  \/ \E o \in Object, k \in exported : ImportContextKeys(o, k)
  \/ \E o \in Object, r \in 0 .. MaxRetries : Gen(o, r)
  \/ \E o \in Object, b \in {0, 1}, pair \in pairs, n \in 1 .. MaxBatch :
        VerEval(o, b, pair, n)

ContextSpec == ContextInit /\ [][ContextNext]_contextVars

-----------------------------------------------------------------------------
Word == {"H1", "H2"} \X ContextKeys \X Nat

KeyPair == [id : Nat, retries : 0 .. MaxRetries, keys : ContextKeys,
         cs : SUBSET Word]

Evaluation == [party : {0, 1}, pair : KeyPair, n : 1 .. MaxBatch,
               keys : ContextKeys, proof : SUBSET Word]

ContextTypeOK ==
  /\ keys \in [Object -> ContextKeys]
  /\ calls1 \in [Object -> Nat]
  /\ calls2 \in [Object -> Nat]
  /\ exported \subseteq ContextKeys
  /\ pairs \subseteq KeyPair
  /\ evals \subseteq Evaluation

\* The two shares of a pair, evaluated under one context on batches of one
\* length, give one proof, whichever objects evaluate them and whatever those
\* objects generated, evaluated or imported before.
HonestProofsAgree ==
  \A e, f \in evals :
     (e.pair = f.pair /\ e.keys = f.keys /\ e.n = f.n) => e.proof = f.proof

\* What equal proofs do establish: the servers hashed under one context, over
\* batches of one length, and the two pairs took as many turns to generate.
ProofTellsBatchAndTurns ==
  \A e, f \in evals :
     e.proof = f.proof =>
        /\ e.keys = f.keys /\ e.n = f.n
        /\ e.pair.keys = f.pair.keys /\ e.pair.retries = f.pair.retries

\* pvfss/src/admission_test.cc expects shares of two pairs never to produce
\* equal proofs.
InconsistentSharesDiffer ==
  \A e, f \in evals :
     (e.party # f.party /\ e.pair # f.pair) => e.proof # f.proof
=============================================================================
