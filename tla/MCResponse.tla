---------------------------- MODULE MCResponse ----------------------------
(***************************************************************************)
(* Response for TLC: words of five bits and the field modulo 3 stand in    *)
(* the relation of the code's 64 bits and 2^61 - 1.                        *)
(***************************************************************************)
EXTENDS Response
=============================================================================
