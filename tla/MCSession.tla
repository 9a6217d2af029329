------------------------------ MODULE MCSession ------------------------------
(***************************************************************************)
(* Session for TLC: two cases of two repetitions in every mode, printing   *)
(* what a pipe holds or more, and parameters that do not fit.  Vectors of  *)
(* blocks, keys and proofs are never held unread; the other messages are   *)
(* while fewer than two wait.                                              *)
(***************************************************************************)
EXTENDS Session

MCConfigs ==
  [cases : {2}, reps : {2}, valid : {TRUE}, trusted : BOOLEAN, pilot : BOOLEAN,
   flat : BOOLEAN, lines : {1, 2}]
  \cup [cases : {1}, reps : {1}, valid : {FALSE}, trusted : {FALSE}, pilot : {FALSE},
        flat : {FALSE}, lines : {0}]

MCSmall == {"ran", "barrier", "context", "verdict", "summary", "keys", "cross", "clear",
            "shares"}
MCHolds(queue, kind) == kind \in MCSmall /\ Len(queue) < 2
=============================================================================
