-------------------------------- MODULE MCOmr --------------------------------
(***************************************************************************)
(* The plaintext modulus is 17, so that a slot holds four index bits, and  *)
(* a ciphertext has eight slots: an index takes a second slot from message *)
(* 4 on and a second digit from message 17 on.                             *)
(***************************************************************************)
EXTENDS Omr, TLC

\* Lagrange: x^(k + 1) has the sum of -t^(P-2-k) over the t that are out of range.
MCIndices ==
  [k \in 0 .. P - 2 |->
     (0 - FoldLeft(LAMBDA s, t : (s + (IF InRange(t) THEN 0 ELSE PowerMod(t, P - 2 - k))) % P,
                   0, [t \in 1 .. P - 1 |-> t])) % P]

MCSizes == [OMD1p |-> {[count |-> 16, cores |-> 2]},
            OMR2  |-> {[count |-> 14, cores |-> 2]},
            OMR3  |-> {[count |-> 24, cores |-> 1], [count |-> 16, cores |-> 2]}]
MCPertinentSets == {{5}, {3, 11}, {9, 17}}

KeyFrom(a, b) == [l \in Component |-> [i \in Coordinate |-> (a * l + 3 * i + b) % P]]
MCKey == KeyFrom(5, 2)
\* Under the second of them the clue of message 12 is in range for the recipient too.
MCForeignKeys == {KeyFrom(0, 1), KeyFrom(5, 10)}
MCMask == [j \in Message |-> [i \in Coordinate |-> (j * j + 3 * i + 5 * j * (i + 1)) % P]]
MCNoise == {-1, 0}

\* Two buckets each.  The last choice gives a message the same weight twice; two
\* messages with the same choice cannot be told apart.
Edge(b, v, c, w) == <<[bucket |-> b, weight |-> v], [bucket |-> c, weight |-> w]>>
MCEdgeChoices == {Edge(0, 1, 1, 2), Edge(1, 3, 2, 1), Edge(1, 3, 2, 3)}
MCSlotChoices == {2, 5}
=============================================================================
