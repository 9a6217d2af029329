---------------------------- MODULE MCDpfContext ----------------------------
(***************************************************************************)
(* Instances of DpfContext for TLC: a client and a server that generate    *)
(* and evaluate under two sets of context keys.                            *)
(***************************************************************************)
EXTENDS DpfContext, TLC

CONSTANTS client, server, k1, k2

MCObject == {client, server}
MCContextKeys == {k1, k2}
MCSymmetry == Permutations(MCObject) \cup Permutations(MCContextKeys)
=============================================================================
