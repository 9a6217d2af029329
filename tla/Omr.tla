--------------------------------- MODULE Omr ---------------------------------
(***************************************************************************)
(* The demos of the OMR baseline (main.cpp): OMD1p, OMR2 and OMR3.  A      *)
(* sender publishes clues, some of them for the recipient; the workers of  *)
(* the detector take the batches of messages through detection and, behind *)
(* a barrier, through retrieval; the detector adds up what they have, and  *)
(* the recipient decodes it.                                               *)
(*                                                                         *)
(* OMR2 gives each worker a batch, and the last batch may be short; OMD1p  *)
(* and OMR3 give each core a run of full batches.                          *)
(***************************************************************************)
EXTENDS OmrClient, FiniteSetsExt

CONSTANTS
  MaxCount,      \* bound: numOfTransactions
  Sizes,         \* numOfTransactions and the number of cores, of each scheme
  Step,          \* 32: messages of a chunk
  PertinentSets, \* messages the sender may address to the recipient
  Key,           \* the recipient's PVW key
  ForeignKeys,   \* the keys other messages may be encrypted under
  Mask,          \* the random vector a of each clue
  Noise,         \* noise of a clue of the recipient
  EdgeChoices,   \* what the graph may give a message
  SlotChoices    \* where a random table may put a message

Scheme == {"OMD1p", "OMR2", "OMR3"}
Message == 0 .. MaxCount - 1

\* The noise stays so far inside the range that a wrapped b still is in it.
ASSUME OmrAssumption ==
  /\ MaxCount \in Nat
  /\ DOMAIN Sizes \subseteq Scheme
  /\ \A s \in DOMAIN Sizes : \A size \in Sizes[s] :
        /\ size.count \in 1 .. MaxCount /\ size.cores \in Nat \ {0}
        /\ s # "OMR2" => size.count % (size.cores * Degree) = 0 /\ Degree % Step = 0
  /\ Step \in Nat \ {0}
  /\ Noise \subseteq -RangeToCheck .. RangeToCheck - 1
  /\ {Key} \cup ForeignKeys \subseteq [Component -> [Coordinate -> Zp]]
  /\ Mask \in [Message -> [Coordinate -> Zp]]
  /\ EdgeChoices \subseteq Edges
  /\ SlotChoices \subseteq Slot

VARIABLES
  scheme,     \* the demo that runs
  size,       \* numOfTransactions and numcores
  phase,      \* of the main thread: "send", "detect", "retrieve", "decode", "done"
  pertinent,  \* messages addressed to the recipient: expectedIndices
  clues,      \* the clue files; they are read in "detect" only
  packed,     \* packed[b]: packedSICfromPhase1 of batch b
  hits,       \* messages whose bit was 1 when detection ended
  graph,      \* bipartite_map_glb and weights_glb
  turn,       \* turn[w]: batches worker w has finished in this phase
  offset,     \* offset[w]: messages of its batch that it has retrieved
  part,       \* part[w]: lhs, tables and rhs of its batch
  acc,        \* acc[w]: those of its finished batches
  digest,     \* their sum
  found,      \* the indices decoded, and whether the program gave up on them
  answer      \* the solved equations, and what checkRes says of them

vars == <<scheme, size, phase, pertinent, clues, packed, hits, graph, turn, offset,
          part, acc, digest, found, answer>>

Nothing == [lhs |-> ZeroCt, tables |-> [c \in 1 .. Copies |-> EmptyTable], rhs |-> ZeroCt]
Batches == 0 .. ((MaxCount + Degree - 1) \div Degree) - 1
BatchCount == (size.count + Degree - 1) \div Degree
Workers == 0 .. (IF scheme = "OMR2" THEN BatchCount ELSE size.cores) - 1
PerWorker == IF scheme = "OMR2" THEN 1 ELSE BatchCount \div size.cores

\* The batch worker w is at, its first message and how many it has.
Batch(w) == w * PerWorker + turn[w]
Start(b) == b * Degree
BatchSize(b) == Min({Degree, size.count - Start(b)})

Init ==
  /\ scheme \in DOMAIN Sizes
  /\ size \in Sizes[scheme]
  /\ phase = "send"
  /\ pertinent = {} /\ hits = {}
  /\ clues = <<>> /\ graph = <<>>
  /\ packed = [b \in Batches |-> ZeroCt]
  /\ turn = [w \in Batches |-> 0] /\ offset = [w \in Batches |-> 0]
  /\ part = [w \in Batches |-> Nothing] /\ acc = [w \in Batches |-> Nothing]
  /\ digest = Nothing
  /\ found = [indices |-> <<>>, overflow |-> FALSE]
  /\ answer = [rows |-> <<>>, solved |-> FALSE, shared |-> FALSE, correct |-> FALSE]

\* preparinngTransactionsFormal: clues of zeros, under the recipient's key or under
\* another; foreign clues carry the noise 0.
Prepare(chosen, foreign, e) ==
  /\ phase = "send"
  /\ chosen \subseteq 0 .. size.count - 1
  /\ pertinent' = chosen
  /\ clues' = [i \in 0 .. size.count - 1 |->
                 IF i \in chosen THEN PVWEnc(Mask[i], Key, e)
                 ELSE PVWEnc(Mask[i], foreign, [l \in Component |-> 0])]
  /\ phase' = "detect"
  /\ UNCHANGED <<scheme, size, packed, hits, graph, turn, offset, part, acc, digest,
                 found, answer>>

\* Phase 1 of one batch: its clues are loaded and checked.
Detect(w) ==
  /\ phase = "detect" /\ w \in Workers
  /\ turn[w] < PerWorker
  /\ LET b == Batch(w)
         batch == [j \in 0 .. BatchSize(b) - 1 |-> clues[Start(b) + j]]
     IN  packed' = [packed EXCEPT ![b] = ObtainPackedSIC(batch, BatchSize(b), Key)]
  /\ turn' = [turn EXCEPT ![w] = @ + 1]
  /\ UNCHANGED <<scheme, size, phase, pertinent, clues, hits, graph, offset, part, acc,
                 digest, found, answer>>

AllFinished == \A w \in Workers : turn[w] = PerWorker

Hits == {i \in 0 .. size.count - 1 : packed[i \div Degree][i % Degree] = 1}

\* Between the phases the main thread draws the graph.  Where it puts a message
\* that was not detected is left out: its payload is multiplied by 0.
Distribute(g) ==
  /\ phase = "detect" /\ scheme # "OMD1p"
  /\ AllFinished
  /\ hits' = Hits
  /\ graph' = g
  /\ clues' = <<>>
  /\ turn' = [w \in Batches |-> 0]
  /\ phase' = "retrieve"
  /\ UNCHANGED <<scheme, size, pertinent, packed, offset, part, acc, digest, found, answer>>

\* A graph for the retrieval, with what it is not defined on put anywhere.
AnyEdge == CHOOSE e \in EdgeChoices : TRUE
FullGraph == [i \in Message |-> IF i \in DOMAIN graph THEN graph[i] ELSE AnyEdge]

\* Variant: a chunk always has Step messages, as in serverOperations3therest.
ChunkStep(w) == Step

ChunkSize(w) ==
  IF scheme = "OMR3" THEN Step
  ELSE Min({Step, BatchSize(Batch(w)) - offset[w]})

AddParts(p, q) == [lhs    |-> Add(p.lhs, q.lhs),
                   tables |-> AddTables(p.tables, q.tables),
                   rhs    |-> Add(p.rhs, q.rhs)]

\* One turn of the loop of serverOperations2therest or serverOperations3therest:
\* expand, pack the indices, fold the payloads in.  slot says where the random
\* tables put the messages.
Retrieve(w, slot) ==
  /\ phase = "retrieve" /\ w \in Workers
  /\ turn[w] < PerWorker
  /\ LET b     == Batch(w)
         n     == ChunkSize(w)
         first == Start(b) + offset[w]
         old   == IF offset[w] = 0 THEN Nothing ELSE part[w]
         chunk == ExpandSIC(packed[b], offset[w], n)
         new   == [lhs    |-> IF scheme = "OMR3" THEN old.lhs
                              ELSE deterministicIndexRetrieval(old.lhs, chunk.expanded, first),
                   tables |-> IF scheme = "OMR2" THEN old.tables
                              ELSE randomizedIndexRetrieval(old.tables, chunk.expanded, first, slot),
                   rhs    |-> RetrievePayloads(old.rhs, chunk.expanded, first, FullGraph)]
         last  == offset[w] + n >= BatchSize(b)
     IN  /\ packed' = [packed EXCEPT ![b] = chunk.toExpand]
         /\ part' = [part EXCEPT ![w] = new]
         /\ offset' = [offset EXCEPT ![w] = IF last THEN 0 ELSE @ + n]
         /\ turn' = [turn EXCEPT ![w] = IF last THEN @ + 1 ELSE @]
         /\ acc' = [acc EXCEPT ![w] = CASE ~last             -> @
                                        [] last /\ turn[w] = 0 -> new
                                        [] last /\ turn[w] > 0 -> AddParts(@, new)]
  /\ UNCHANGED <<scheme, size, phase, pertinent, clues, hits, graph, digest, found, answer>>

\* OMD1p: batch b is the bit 2^b of every slot.
AggregateBits ==
  /\ phase = "detect" /\ scheme = "OMD1p"
  /\ AllFinished
  /\ hits' = Hits
  /\ clues' = <<>>
  /\ digest' = [digest EXCEPT !.lhs =
       FoldLeft(LAMBDA c, b : Add(c, [s \in Slot |-> (packed[b - 1][s] * 2 ^ (b - 1)) % P]),
                ZeroCt, [b \in 1 .. BatchCount |-> b])]
  /\ phase' = "decode"
  /\ UNCHANGED <<scheme, size, pertinent, packed, graph, turn, offset, part, acc, found, answer>>

Aggregate ==
  /\ phase = "retrieve"
  /\ AllFinished
  /\ digest' = FoldLeft(LAMBDA d, w : AddParts(d, acc[w - 1]), acc[0],
                        [w \in 2 .. Cardinality(Workers) |-> w])
  /\ phase' = "decode"
  /\ UNCHANGED <<scheme, size, pertinent, clues, packed, hits, graph, turn, offset, part,
                 acc, found, answer>>

\* checkRes, and the search of OMD1p: every expected result is among those decoded.
CheckRes(rows) ==
  \A i \in pertinent : \E j \in DOMAIN rows :
     RhsSlots > 1 /\ \A k \in 0 .. RhsSlots - 1 : rows[j][k] = Payload(i, k)

Decode(junk) ==
  /\ phase = "decode"
  /\ found' = CASE scheme = "OMR3"  -> decodeIndicesRandom(digest.tables)
                [] scheme = "OMR2"  -> [indices |-> decodeIndices(digest.lhs, size.count),
                                        overflow |-> FALSE]
                [] scheme = "OMD1p" -> [indices |-> decodeIndicesOMD(digest.lhs),
                                        overflow |-> FALSE]
  /\ answer' = CASE scheme = "OMD1p" ->
                      [answer EXCEPT !.correct = pertinent \subseteq ToSet(found'.indices)]
                 [] scheme # "OMD1p" /\ found'.overflow -> answer
                 [] scheme # "OMD1p" /\ ~found'.overflow ->
                      LET a == equationSolving(formLhsWeights(found'.indices, FullGraph),
                                               formRhs(digest.rhs, junk))
                      IN  [rows |-> a.rows, solved |-> a.solved, shared |-> a.shared,
                           correct |-> CheckRes(a.rows)]
  /\ phase' = "done"
  /\ UNCHANGED <<scheme, size, pertinent, clues, packed, hits, graph, turn, offset, part,
                 acc, digest>>

Stop == phase = "done" /\ UNCHANGED vars

\* Where the tables put the messages of a chunk; those not detected add nothing.
Slots(w) ==
  LET b == Batch(w)
      first == Start(b) + offset[w]
      hit == {i \in 0 .. ChunkSize(w) - 1 : first + i \in hits}
      any == CHOOSE s \in SlotChoices : TRUE
  IN  IF scheme = "OMR2" THEN {<<>>}
      ELSE {[c \in 1 .. Copies |-> [i \in 0 .. ChunkSize(w) - 1 |->
               IF i \in hit THEN f[c][i] ELSE any]] :
                 f \in [1 .. Copies -> [hit -> SlotChoices]]}

Next ==
  \/ \E chosen \in PertinentSets, foreign \in ForeignKeys, e \in [Component -> Noise] :
        Prepare(chosen, foreign, e)
  \/ \E w \in Batches : Detect(w)
  \/ \E g \in [Hits -> EdgeChoices] : Distribute(g)
  \/ \E w \in Batches : w \in Workers /\ \E slot \in Slots(w) : Retrieve(w, slot)
  \/ AggregateBits
  \/ Aggregate
  \/ \E junk \in {0, 1} : Decode(junk)
  \/ Stop

Spec == Init /\ [][Next]_vars

-----------------------------------------------------------------------------
\* Detection sees through the packing of the keys, the turning of the slots, the
\* wrapped subtraction and the range check: in a finished batch every message of
\* the recipient has its bit set, no slot holds anything but a bit, and a set bit
\* belongs to a clue that the recipient's key decrypts to zeros.  However the
\* batches are dealt out, behind the barrier none of the recipient's is missing.
OwnDetected ==
  /\ phase = "detect" =>
       \A w \in Workers, m \in 0 .. PerWorker - 1 :
          m < turn[w] =>
            \A j \in 0 .. BatchSize(w * PerWorker + m) - 1 :
               LET i   == Start(w * PerWorker + m) + j
                   bit == packed[w * PerWorker + m][j]
               IN  /\ bit \in {0, 1}
                   /\ i \in pertinent => bit = 1
                   /\ bit = 1 => DecryptsToZeros(clues[i], Key)
  /\ phase \notin {"send", "detect"} => pertinent \subseteq hits

\* What the recipient decodes is what was detected, each message once and none of
\* the slots that pad a short batch, whichever way the indices were packed.  With
\* random tables it gives up only if each table has a collision.
IndicesExact ==
  phase = "done" =>
    IF found.overflow
    THEN \A c \in 1 .. Copies : \E s \in Slot : digest.tables[c].count[s] > 1
    ELSE ToSet(found.indices) = hits /\ Len(found.indices) = Cardinality(hits)

\* Each solution is the payload of the message its column stands for, unless
\* elimination met a row that shares the pivot's coefficient: equationSolving tells
\* the pivot row by that value and leaves such a row as it is.
PayloadsUnlessShared ==
  (phase = "done" /\ answer.solved /\ ~answer.shared) =>
     /\ Len(answer.rows) = Len(found.indices)
     /\ \A c \in DOMAIN answer.rows, k \in 0 .. PayloadSize - 1 :
           answer.rows[c][k] = Payload(found.indices[c], k)

\* "Result is correct!" is printed when nothing got in the way, and whenever it is
\* printed every message of the recipient was found.
CorrectReported ==
  phase = "done" =>
    /\ answer.correct => pertinent \subseteq ToSet(found.indices)
    /\ (answer.solved /\ ~answer.shared) => answer.correct
=============================================================================
