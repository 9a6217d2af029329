----------------------------- MODULE Retrieval -----------------------------
(***************************************************************************)
(* What a run of the two servers promises, without scripts, messages and   *)
(* pipes.  A run has a number of cases, a case a number of retrievals.     *)
(* The servers begin retrievals in step and only while neither has refused *)
(* the signals; they refuse the same one; they judge a case when both have *)
(* begun all of it, and judge it alike; and a result is delivered only     *)
(* when both have accepted every case.  A server may fail at any time.     *)
(***************************************************************************)
EXTENDS Integers

CONSTANT Plans   \* cases, retrievals of a case, and whether the parameters fit

VARIABLES
  plan,
  begun,    \* begun[s]: retrievals server s has begun
  accepted, \* accepted[s]: cases it has found correct
  status,   \* status[s]: running, refused, incorrect, done or failed
  answer    \* of the whole run: none, parsed or error

vars == <<plan, begun, accepted, status, answer>>

Server == {1, 2}
Other(s) == 3 - s

Init ==
  /\ plan \in Plans
  /\ begun = [s \in Server |-> 0]
  /\ accepted = [s \in Server |-> 0]
  /\ status = [s \in Server |-> "running"]
  /\ answer = "none"

Running(s) == status[s] = "running"
End(s, how) == status' = [status EXCEPT ![s] = how]
\* What server s has begun when it is through with the case it is in.
CaseEnd(s) == (accepted[s] + 1) * plan.reps
InCase(s) == Running(s) /\ accepted[s] < plan.cases
\* The other server did nothing that this one may not do too.
Free(s, hows) == status[Other(s)] \in {"running", "failed"} \cup hows

\* A server is never two retrievals ahead, and begins none after a refusal.
Begin(s) ==
  /\ InCase(s) /\ plan.valid /\ Free(s, {})
  /\ begun[s] <= begun[Other(s)] /\ begun[s] < CaseEnd(s)
  /\ begun' = [begun EXCEPT ![s] = @ + 1]
  /\ UNCHANGED <<plan, accepted, status, answer>>

\* The retrieval that is refused is one that neither server has begun.
Refuse(s) ==
  /\ InCase(s) /\ plan.valid /\ Free(s, {"refused"})
  /\ begun[s] = begun[Other(s)] /\ begun[s] < CaseEnd(s)
  /\ accepted[s] = accepted[Other(s)]
  /\ End(s, "refused")
  /\ UNCHANGED <<plan, begun, accepted, answer>>

\* A case is judged when both have begun all of it, and none of the next.
Judged(s) == begun[s] = begun[Other(s)] /\ begun[s] = CaseEnd(s)

Accept(s) ==
  /\ InCase(s) /\ plan.valid /\ Free(s, {"done"})
  /\ Judged(s)
  /\ accepted' = [accepted EXCEPT ![s] = @ + 1]
  /\ UNCHANGED <<plan, begun, status, answer>>

\* Nobody rejects what the other has accepted.
Reject(s) ==
  /\ InCase(s) /\ Free(s, {"incorrect"})
  /\ plan.valid => Judged(s)
  /\ accepted[s] = accepted[Other(s)]
  /\ End(s, "incorrect")
  /\ UNCHANGED <<plan, begun, accepted, answer>>

Finish(s) ==
  /\ Running(s) /\ accepted[s] = plan.cases /\ Free(s, {"done"})
  /\ begun[Other(s)] = plan.cases * plan.reps
  /\ End(s, "done")
  /\ UNCHANGED <<plan, begun, accepted, answer>>

Fail(s) ==
  /\ Running(s)
  /\ End(s, "failed")
  /\ UNCHANGED <<plan, begun, accepted, answer>>

\* Both are done.
Deliver ==
  /\ answer = "none" /\ \A s \in Server : status[s] = "done"
  /\ answer' = "parsed"
  /\ UNCHANGED <<plan, begun, accepted, status>>

\* One is not: whoever still runs is stopped.
Abandon ==
  /\ answer = "none" /\ \E s \in Server : status[s] # "done"
  /\ answer' = "error"
  /\ status' = [s \in Server |-> IF Running(s) THEN "failed" ELSE status[s]]
  /\ UNCHANGED <<plan, begun, accepted>>

Next ==
  \/ \E s \in Server :
        Begin(s) \/ Refuse(s) \/ Accept(s) \/ Reject(s) \/ Finish(s) \/ Fail(s)
  \/ Deliver \/ Abandon

Spec == Init /\ [][Next]_vars
=============================================================================
