----------------------------- MODULE MCAdmission -----------------------------
(***************************************************************************)
(* Instances of Admission for TLC.  "A", "B" and "C" are honest key pairs  *)
(* (each server receives its own share of the pair) and "short" is a share *)
(* of the wrong length.  The proof of a share is a keystream: it depends   *)
(* on the turns the generation of its pair took and on the length of the   *)
(* batch alone (DpfContext), so "A" and "B", generated in equally many     *)
(* turns, have equal proofs and "C" has another.                           *)
(***************************************************************************)
EXTENDS Admission, TLC

MCWellFormed(k) == k # "short"
MCPair(k) == k
MCTurns(k) == IF k = "C" THEN 2 ELSE 1
MCProof(p, k, ids) == <<MCTurns(k), Len(ids)>>
MCNull == <<0, 0>>
MCGarbled == <<0, 1>>
MCProofValue == ((0 .. 2) \X (0 .. 2))

MCRegistry == {<<1>>}
MCSymmetry == Permutations(SignalId)
=============================================================================
