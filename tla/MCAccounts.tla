----------------------------- MODULE MCAccounts -----------------------------
(* A small instance of Accounts for TLC.                                   *)
EXTENDS Accounts, TLC

Nothing == [role |-> None, disabled |-> None, must |-> None, pw |-> FALSE]
MCChanges ==
  {[Nothing EXCEPT !.role = "user"], [Nothing EXCEPT !.disabled = TRUE],
   [Nothing EXCEPT !.pw = TRUE, !.must = TRUE]}

Symmetry == Permutations(Requests) \cup Permutations(Users)

\* Bound of the instance: time passes while a code is about to be compared.
TimeMatters == clock = 1 \/ \E r \in Requests : req[r].pc \in DOMAIN After

\* Nothing but the end of sessions follows the last request.
SomeRequest == left > 0 \/ \E r \in Requests : req[r] # Idle
Busy == TimeMatters /\ SomeRequest

\* After the last request began, nobody reads any more what only beginnings, or
\* steps that are over, look at.
Ahead(steps) == left > 0 \/ \E r \in Requests : req[r].pc \in steps
When(steps, what) == IF Ahead(steps) THEN what ELSE <<>>

LiveView ==
  <<user, session, req, left, twice, lost, When({}, pending), When({"enable"}, setup),
    When({"login"}, trust), When({"enable"} \cup DOMAIN After, <<taken, clock>>)>>

=============================================================================
