--------------------------------- MODULE Absences ---------------------------------
(* Absence requests: internal/absence/absences.go, on top of the approvals and the instances   *)
(* of internal/workflow.  A request is a row of its own, an instance of the absence workflow    *)
(* (requested -> approved or rejected) and a pending approval, created and answered in separate  *)
(* transactions.  The approval can also be answered from the approvals inbox, which knows         *)
(* nothing of the absence.                                                                         *)
EXTENDS Naturals, FiniteSets

CONSTANTS
    Filings,   \* identities of absences
    Agents,     \* HTTP requests in flight
    NoRequest

VARIABLES
    absence,    \* Filings -> absences.status, "none" before and "deleted" after
    linked,     \* absences with a workflow_instance_id
    instance,   \* Filings -> the state of the backing instance, "none" without one
    approval,   \* Filings -> pending_approvals.status, "none" without one
    actor,      \* Agents -> the call in progress
    moves       \* Filings -> the transitions its instance has taken (history)

absenceVars == <<absence, linked, instance, approval, actor, moves>>

Verdicts == {"approved", "rejected"}
Resting == [at |-> "idle", req |-> NoRequest, verdict |-> "none", inbox |-> FALSE]

\* The types of the variables.
AbsenceTypeOK ==
    /\ absence \in [Filings -> {"none", "pending", "deleted"} \cup Verdicts]
    /\ linked \subseteq Filings
    /\ instance \in [Filings -> {"none", "requested"} \cup Verdicts]
    /\ approval \in [Filings -> {"none", "pending", "expired"} \cup Verdicts]
    /\ actor \in [Agents -> [at : {"idle", "start", "link", "ask", "find", "answer", "overwrite", "execute",
                                   "move", "revert", "sync", "delete"},
                             req : Filings \cup {NoRequest}, verdict : Verdicts \cup {"none"}, inbox : BOOLEAN]]
    /\ moves \in [Filings -> SUBSET Verdicts]

AbsenceInit ==
    /\ absence = [r \in Filings |-> "none"]
    /\ linked = {}
    /\ instance = [r \in Filings |-> "none"]
    /\ approval = [r \in Filings |-> "none"]
    /\ actor = [g \in Agents |-> Resting]
    /\ moves = [r \in Filings |-> {}]

At(g, label) == actor[g].at = label
Goes(g, label) == actor' = [actor EXCEPT ![g].at = label]
Rests(g) == actor' = [actor EXCEPT ![g] = Resting]
StartsCall(g, label, r, verdict, inbox) ==
    /\ At(g, "idle")
    /\ actor' = [actor EXCEPT ![g] = [at |-> label, req |-> r, verdict |-> verdict, inbox |-> inbox]]

--------------------------------------------------------------------------------
(* CreateAbsence: four transactions.                                             *)

InsertAbsence(g, r) ==
    /\ absence[r] = "none"
    /\ absence' = [absence EXCEPT ![r] = "pending"]
    /\ StartsCall(g, "start", r, "none", FALSE)
    /\ UNCHANGED <<linked, instance, approval, moves>>

StartInstance(g) ==
    /\ At(g, "start")
    /\ instance' = [instance EXCEPT ![actor[g].req] = "requested"]
    /\ Goes(g, "link")
    /\ UNCHANGED <<absence, linked, approval, moves>>

\* The UPDATE of a row that is gone changes nothing and is no error.
LinkInstance(g) ==
    /\ At(g, "link")
    /\ linked' = IF absence[actor[g].req] = "deleted" THEN linked ELSE linked \cup {actor[g].req}
    /\ Goes(g, "ask")
    /\ UNCHANGED <<absence, instance, approval, moves>>

RequestApproval(g) ==
    /\ At(g, "ask")
    /\ approval' = [approval EXCEPT ![actor[g].req] = "pending"]
    /\ Rests(g)
    /\ UNCHANGED <<absence, linked, instance, moves>>

--------------------------------------------------------------------------------
(* Answering.                                                                    *)

\* resolveAbsence: the row is pending and has an instance.
ResolveAbsence(g, r, verdict) ==
    /\ absence[r] = "pending" /\ r \in linked
    /\ StartsCall(g, "find", r, verdict, FALSE)
    /\ UNCHANGED <<absence, linked, instance, approval, moves>>

\* findPendingApprovalTx, a transaction of its own: without a pending approval the call fails.
FindApproval(g) ==
    /\ At(g, "find")
    /\ IF approval[actor[g].req] = "pending" THEN Goes(g, "answer") ELSE Rests(g)
    /\ UNCHANGED <<absence, linked, instance, approval, moves>>

\* POST /approvals/{id}/approve or /reject: the same workflow calls without the absence.
AnswerFromInbox(g, r, verdict) ==
    /\ approval[r] # "none"
    /\ StartsCall(g, "answer", r, verdict, TRUE)
    /\ UNCHANGED <<absence, linked, instance, approval, moves>>

\* workflow.Approve: the claim takes effect only if the approval is still pending.
ClaimApproval(g) ==
    /\ At(g, "answer") /\ actor[g].verdict = "approved"
    /\ IF approval[actor[g].req] = "pending"
       THEN approval' = [approval EXCEPT ![actor[g].req] = "approved"] /\ Goes(g, "execute")
       ELSE approval' = approval /\ Rests(g)
    /\ UNCHANGED <<absence, linked, instance, moves>>

\* workflow.Reject reads the status first ...
RejectReads(g) ==
    /\ At(g, "answer") /\ actor[g].verdict = "rejected"
    /\ IF approval[actor[g].req] = "pending" THEN Goes(g, "overwrite") ELSE Rests(g)
    /\ UNCHANGED <<absence, linked, instance, approval, moves>>

\* ... and writes it without a condition; only an absence's rejection goes on to the instance.
RejectWrites(g) ==
    /\ At(g, "overwrite")
    /\ approval' = [approval EXCEPT ![actor[g].req] = "rejected"]
    /\ IF actor[g].inbox THEN Rests(g) ELSE Goes(g, "execute")
    /\ UNCHANGED <<absence, linked, instance, moves>>

\* Mutant: the error of ExecuteTransition is not looked at.
ExecuteIgnored(g) ==
    /\ At(g, "execute")
    /\ IF instance[actor[g].req] = "requested" THEN Goes(g, "move") ELSE Goes(g, "sync")
    /\ UNCHANGED <<absence, linked, instance, approval, moves>>

\* workflow.ExecuteTransition: both edges leave "requested", and the state is read before the
\* row is locked.  A refused approval is put back, a refused rejection is just an error.
ExecuteReads(g) ==
    /\ At(g, "execute")
    /\ IF instance[actor[g].req] = "requested" THEN Goes(g, "move")
       ELSE IF actor[g].verdict = "approved" THEN Goes(g, "revert") ELSE Rests(g)
    /\ UNCHANGED <<absence, linked, instance, approval, moves>>

ExecuteWrites(g) ==
    LET r == actor[g].req IN
    /\ At(g, "move")
    /\ instance' = [instance EXCEPT ![r] = actor[g].verdict]
    /\ moves' = [moves EXCEPT ![r] = @ \cup {actor[g].verdict}]
    /\ IF actor[g].inbox THEN Rests(g) ELSE Goes(g, "sync")
    /\ UNCHANGED <<absence, linked, approval>>

\* The compensation of workflow.Approve.
PutBack(g) ==
    /\ At(g, "revert")
    /\ approval' = [approval EXCEPT ![actor[g].req] = "pending"]
    /\ Rests(g)
    /\ UNCHANGED <<absence, linked, instance, moves>>

\* The second UPDATE of resolveAbsence; a deleted row is an error for the caller.
SyncAbsence(g) ==
    /\ At(g, "sync")
    /\ absence' = [absence EXCEPT ![actor[g].req] = IF @ = "deleted" THEN @ ELSE actor[g].verdict]
    /\ Rests(g)
    /\ UNCHANGED <<linked, instance, approval, moves>>

--------------------------------------------------------------------------------

\* markExpired, on the next attempt to answer an approval past its time.
ExpireApproval(r) ==
    /\ approval[r] = "pending"
    /\ approval' = [approval EXCEPT ![r] = "expired"]
    /\ UNCHANGED <<absence, linked, instance, actor, moves>>

\* DeleteAbsence: the status is read, then the row deleted whatever it says by then.
DeleteReads(g, r) ==
    /\ absence[r] = "pending"
    /\ StartsCall(g, "delete", r, "none", FALSE)
    /\ UNCHANGED <<absence, linked, instance, approval, moves>>

DeleteWrites(g) ==
    /\ At(g, "delete")
    /\ absence' = [absence EXCEPT ![actor[g].req] = "deleted"]
    /\ linked' = linked \ {actor[g].req}
    /\ Rests(g)
    /\ UNCHANGED <<instance, approval, moves>>

\* A transaction fails, the request is cancelled or the server stops: what was committed stays.
AgentFails(g) ==
    /\ ~At(g, "idle")
    /\ \/ Rests(g)
       \/ actor[g].at \in {"execute", "move"} /\ actor[g].verdict = "approved" /\ Goes(g, "revert")
    /\ UNCHANGED <<absence, linked, instance, approval, moves>>

AbsenceStep ==
    \/ \E g \in Agents :
        \/ \E r \in Filings :
              \/ InsertAbsence(g, r) \/ DeleteReads(g, r)
              \/ \E v \in Verdicts : ResolveAbsence(g, r, v) \/ AnswerFromInbox(g, r, v)
        \/ StartInstance(g) \/ LinkInstance(g) \/ RequestApproval(g)
        \/ FindApproval(g) \/ ClaimApproval(g) \/ RejectReads(g) \/ RejectWrites(g)
        \/ ExecuteReads(g) \/ ExecuteWrites(g) \/ PutBack(g) \/ SyncAbsence(g)
        \/ DeleteWrites(g) \/ AgentFails(g)
    \/ \E r \in Filings : ExpireApproval(r)
AbsenceSpec == AbsenceInit /\ [][AbsenceStep]_absenceVars

--------------------------------------------------------------------------------

\* An absence is shown as approved, or rejected, only if its instance really took that
\* transition, however approvals, rejections, the inbox, deletions and failures interleave
\* (resolveAbsence writes absences.status only after the workflow call succeeded).
AnswerIsBacked == \A r \in Filings : absence[r] \in Verdicts => absence[r] \in moves[r]
================================================================================
