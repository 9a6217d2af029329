------------------------------ MODULE OmrClient ------------------------------
(***************************************************************************)
(* What the recipient of the OMR baseline makes of a digest (client.h):    *)
(* the indices of its messages, and their payloads as the solution of      *)
(* linear equations over Zp.                                               *)
(***************************************************************************)
EXTENDS OmrRetrieval

CONSTANT RhsSlots   \* 306: slots of a bucket as formRhs reads them

ASSUME RhsAssumption == RhsSlots \in Nat \ {0}

-----------------------------------------------------------------------------
(* Indices, in the order they are found. *)

\* decodeIndices: bit after bit from the lowest; the rest of a slot is skipped as
\* soon as nothing is left in it.  From: the indices from i on, with word left of
\* slot idx and back of its bits not yet looked at.
decodeIndices(ct, count) ==
  LET From[i \in Nat, idx \in Nat, word \in Zp, back \in Int] ==
        CASE i >= count -> <<>>
          [] i < count /\ word = 0 ->
               From[i + back, idx + 1,
                    IF idx + 1 < Degree THEN ct[idx + 1] ELSE 0, PackBits]
          [] i < count /\ word # 0 ->
               (IF word % 2 = 1 THEN <<i>> ELSE <<>>)
               \o From[i + 1, idx, word \div 2, back - 1]
  IN  From[0, 0, ct[0], PackBits]

\* decodeIndicesOMD: bit b of slot i stands for message b * Degree + i.
BitsOf[word \in Zp, b \in Nat] ==
  IF word = 0 THEN <<>>
  ELSE (IF word % 2 = 1 THEN <<b>> ELSE <<>>) \o BitsOf[word \div 2, b + 1]

decodeIndicesOMD(ct) ==
  FlattenSeq([s \in 1 .. Degree |->
    LET bits == BitsOf[ct[s - 1], 0]
    IN  [k \in 1 .. Len(bits) |-> bits[k] * Degree + (s - 1)]])

\* The indices that copy adds to found: of the slots that hold one message.
CopyIndices(table, found) ==
  FoldLeft(LAMBDA f, s :
             LET index == table.high[s - 1] * P + table.low[s - 1]
             IN  IF table.count[s - 1] = 1 /\ index \notin ToSet(f)
                 THEN Append(f, index) ELSE f,
           found, [s \in 1 .. Degree |-> s])

\* decodeIndicesRandom: copy after copy until as many are found as the counters of
\* the first add up to; the program exits when they never are.
decodeIndicesRandom(tables) ==
  LET real == FoldLeft(LAMBDA r, s : r + tables[1].count[s - 1], 0,
                       [s \in 1 .. Degree |-> s])
      found == FoldLeft(LAMBDA f, table : IF Len(f) = real THEN f
                                          ELSE CopyIndices(table, f),
                        <<>>, tables)
  IN  [indices |-> found, overflow |-> Len(found) # real]

-----------------------------------------------------------------------------
(* Equations: row r of lhs has the weights of the messages in bucket r. *)

\* junk is what a read behind the slots returns.
formRhs(ct, junk) ==
  [r \in Bucket |-> [k \in 0 .. RhsSlots - 1 |->
     LET s == r * RhsSlots + k IN IF s < Degree THEN ct[s] ELSE junk]]

\* Column c is that of the message found c-th.
formLhsWeights(indices, graph) ==
  [r \in Bucket |-> [c \in DOMAIN indices |->
     FoldLeft(LAMBDA v, e : IF e.bucket = r THEN e.weight ELSE v, 0, graph[indices[c]])]]

\* power, modInverse and div_mod.
Power[y \in 0 .. P] ==
  [x \in Zp |-> IF y = 0 THEN 1
                ELSE LET h == Power[y \div 2][x]
                     IN  (h * h * (IF y % 2 = 0 THEN 1 ELSE x)) % P]
modInverse(a) == Power[P - 2][a]
div_mod(a, b) == (a * modInverse(b)) % P

\* subtract_two_vec_inplace of k times v from u, over the columns the limit allows.
SubtractMultiple(u, v, k, upto) ==
  [c \in DOMAIN u |-> IF c < upto THEN (u[c] - k * v[c]) % P ELSE u[c]]

\* A row is left alone when its coefficient is 0, or when it is the pivot row -- as
\* told by the value of its coefficient.
SkippedByValue(lhs, i, c, pivot) == lhs[i][c] = lhs[pivot][c]

\* The rows get_ratio_mult_and_subtract reduces for column c: the left side over
\* all columns, the right side over the first PayloadSize.
Eliminate(lhs, rhs, c, pivot) ==
  LET kept(i) == lhs[i][c] = 0 \/ SkippedByValue(lhs, i, c, pivot)
      k(i) == div_mod(lhs[i][c], lhs[pivot][c])
  IN  [lhs |-> [i \in Bucket |->
                  IF kept(i) THEN lhs[i]
                  ELSE SubtractMultiple(lhs[i], lhs[pivot], k(i), Len(lhs[i]) + 1)],
       rhs |-> [i \in Bucket |->
                  IF kept(i) THEN rhs[i]
                  ELSE SubtractMultiple(rhs[i], rhs[pivot], k(i), PayloadSize)]]

\* The turn for column c, when the rows of the columns before are m.pivots: a row
\* kept though another than the pivot is noted in shared.
EliminateColumn(m, c) ==
  LET rows == {i \in Bucket : m.lhs[i][c] # 0 /\ i \notin ToSet(m.pivots)}
      pivot == CHOOSE i \in rows : \A k \in rows : i <= k
      next == Eliminate(m.lhs, m.rhs, c, pivot)
  IN  IF ~m.solved \/ rows = {} THEN [m EXCEPT !.solved = FALSE]
      ELSE [lhs |-> next.lhs, rhs |-> next.rhs, pivots |-> Append(m.pivots, pivot),
            solved |-> TRUE,
            shared |-> m.shared \/ \E i \in Bucket : i # pivot /\ m.lhs[i][c] = m.lhs[pivot][c]]

equationSolving(lhs, rhs) ==
  LET after[c \in 0 .. Len(lhs[0])] ==
        IF c = 0 THEN [lhs |-> lhs, rhs |-> rhs, pivots |-> <<>>, solved |-> TRUE,
                       shared |-> FALSE]
        ELSE EliminateColumn(after[c - 1], c)
      end == after[Len(lhs[0])]
  IN  [rows |-> IF ~end.solved THEN <<>>
                ELSE [j \in DOMAIN end.pivots |->
                        [k \in 0 .. RhsSlots - 1 |->
                           (end.rhs[end.pivots[j]][k]
                              * modInverse(end.lhs[end.pivots[j]][j])) % P]],
       solved |-> end.solved, shared |-> end.shared]
=============================================================================
