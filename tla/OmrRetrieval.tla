---------------------------- MODULE OmrRetrieval ----------------------------
(***************************************************************************)
(* What the OMR detector folds into its digest (retrieval.h): the indices  *)
(* of the pertinent messages, packed bit by bit or thrown into random      *)
(* slots, and random linear combinations of their payloads.                *)
(*                                                                         *)
(* expanded[i] holds the bit of message i of a chunk in every slot; start  *)
(* is the index of the chunk's first message.                              *)
(***************************************************************************)
EXTENDS OmrDetect

CONSTANTS
  Buckets,      \* OMRtwoM: linear combinations in a digest
  Repetition,   \* repeatition_glb: buckets of a message
  Copies,       \* C_glb: random index tables
  PayloadSize   \* slots of a payload, and of a bucket, as the server packs them

ASSUME RetrievalAssumption ==
  /\ Repetition \in 1 .. Buckets
  /\ Copies \in Nat \ {0}
  /\ PayloadSize \in Nat \ {0}
  /\ Buckets * PayloadSize <= Degree

Bucket == 0 .. Buckets - 1

\* Index bits of a slot: 16, as P is 2^16 + 1.
PackBits == CHOOSE k \in 1 .. 16 : P = 2 ^ k + 1

\* The plaintext with v in slot s.
Pod(s, v) == [j \in Slot |-> IF j = s THEN v ELSE 0]

\* acc plus the products of the chunk's ciphertexts with their plaintexts.
Accumulate(acc, expanded, plain(_)) ==
  LET n == Len(expanded)
  IN  FoldLeft(LAMBDA c, i : Add(c, MultiplyPlain(expanded[i], plain(i - 1))),
               acc, [i \in 1 .. n |-> i])

\* Variant: indices are packed from the chunk's own start.
PackFromChunk(acc, expanded, start) ==
  Accumulate(acc, expanded, LAMBDA i : Pod(i \div PackBits, 2 ^ (i % PackBits)))

\* One message takes one bit; nothing is packed when the indices do not fit.
deterministicIndexRetrieval(acc, expanded, start) ==
  IF start + Len(expanded) > PackBits * Degree THEN acc
  ELSE Accumulate(acc, expanded,
         LAMBDA i : Pod((start + i) \div PackBits, 2 ^ ((start + i) % PackBits)))

\* A random index table: the two digits of the indices of the messages in a slot,
\* and how many there are.
EmptyTable == [high |-> ZeroCt, low |-> ZeroCt, count |-> ZeroCt]

\* slot[c][i]: where copy c puts message i of the chunk.
randomizedIndexRetrieval(tables, expanded, start, slot) ==
  LET fresh == IF start % Degree = 0 THEN [c \in 1 .. Copies |-> EmptyTable] ELSE tables
  IN  [c \in 1 .. Copies |->
         [high  |-> Accumulate(fresh[c].high, expanded,
                      LAMBDA i : Pod(slot[c][i], (start + i) \div P)),
          low   |-> Accumulate(fresh[c].low, expanded,
                      LAMBDA i : Pod(slot[c][i], (start + i) % P)),
          count |-> Accumulate(fresh[c].count, expanded, LAMBDA i : Pod(slot[c][i], 1))]]

AddTables(s, t) ==
  [c \in 1 .. Copies |-> [high  |-> Add(s[c].high, t[c].high),
                          low   |-> Add(s[c].low, t[c].low),
                          count |-> Add(s[c].count, t[c].count)]]

-----------------------------------------------------------------------------
\* Where bipartiteGraphWeightsGeneration puts a message: different buckets, and a
\* weight for each that is not 0.
Edges ==
  {e \in [1 .. Repetition -> [bucket : Bucket, weight : 1 .. P - 1]] :
     \A j, k \in 1 .. Repetition : e[j].bucket = e[k].bucket => j = k}

\* createDatabase, loadData, loadDataSingle: slot k of the payload of message i; a
\* read past the end of the file gives 0.
Payload(i, k) == IF k < PayloadSize THEN (P - (i % P) + k) % P ELSE 0

\* payloadRetrievalOptimizedwithWeights for one message: its weighted payload in
\* the slots of each of its buckets.
Padded(i, edge) ==
  [s \in Slot |->
     FoldLeft(LAMBDA v, e :
                IF s \div PayloadSize = e.bucket
                THEN (v + Payload(i, s % PayloadSize) * e.weight) % P ELSE v,
              0, edge)]

\* Variant: the graph is read by the place in the chunk.
PayloadsFromChunk(acc, expanded, start, graph) ==
  Accumulate(acc, expanded, LAMBDA i : Padded(start + i, graph[i]))

\* payloadPackingOptimized: the weighted payloads of a chunk are added up.
RetrievePayloads(acc, expanded, start, graph) ==
  Accumulate(acc, expanded, LAMBDA i : Padded(start + i, graph[start + i]))
=============================================================================
