---------------------------- MODULE ApprovalPromise ----------------------------
(* What the approval workflow of internal/workflow/approvals.go promises about  *)
(* the one side effect an approval carries: an approval is open until its       *)
(* proposed transition has been executed for it, once, or until it is certain   *)
(* that nobody will ever execute it; neither of the two is ever undone.         *)

CONSTANT Approvals          \* identities of pending_approvals rows

VARIABLE fate               \* [Approvals -> {"none", "open", "done", "dead"}]

TypeOK == fate \in [Approvals -> {"none", "open", "done", "dead"}]

Init == fate = [a \in Approvals |-> "none"]

\* An approval comes into being.
Open(a) ==
    /\ fate[a] = "none"
    /\ fate' = [fate EXCEPT ![a] = "open"]

\* The proposed transition is executed on behalf of the approval.
Fire(a) ==
    /\ fate[a] = "open"
    /\ fate' = [fate EXCEPT ![a] = "done"]

\* Approvals that will never be executed: rejected, expired or stranded. One
\* process crash can seal the fate of several of them.
Close(S) ==
    /\ \A a \in S : fate[a] = "open"
    /\ fate' = [a \in Approvals |-> IF a \in S THEN "dead" ELSE fate[a]]

Next ==
    \/ \E a \in Approvals : Open(a) \/ Fire(a)
    \/ \E S \in SUBSET Approvals : Close(S)

Spec == Init /\ [][Next]_fate
================================================================================
