--------------------------- MODULE AdmissionLedger ---------------------------
(***************************************************************************)
(* What admission promises, without preparations, messages or decisions:   *)
(* each server keeps a write-once ledger of signals, and enters a share    *)
(* only when both servers have verified the signal to the same proof.      *)
(***************************************************************************)
CONSTANTS SignalId, KeyShare, NoKey, ProofValue

VARIABLES
  verified,  \* <<server, signal, share, proof>> evaluated so far
  ledger     \* ledger[p][s]: the share server p entered for s

Server == {0, 1}

Init ==
  /\ verified = {}
  /\ ledger = [p \in Server |-> [s \in SignalId |-> NoKey]]

\* A server evaluates a share of a signal it has not entered.
Verify(p, s, k, pf) ==
  /\ ledger[p][s] = NoKey
  /\ UNCHANGED ledger
  /\ verified' = verified \cup {<<p, s, k, pf>>}

\* A server enters a share it verified, its peer having the same proof.
Enter(mine, theirs) ==
  /\ mine[1] # theirs[1] /\ mine[2] = theirs[2] /\ mine[4] = theirs[4]
  /\ ledger[mine[1]][mine[2]] = NoKey
  /\ ledger' = [ledger EXCEPT ![mine[1]][mine[2]] = mine[3]]
  /\ UNCHANGED verified

Next ==
  \/ \E mine, theirs \in verified : Enter(mine, theirs)
  \/ \E p \in Server, s \in SignalId, k \in KeyShare, pf \in ProofValue : Verify(p, s, k, pf)

Spec == Init /\ [][Next]_<<verified, ledger>>
=============================================================================
