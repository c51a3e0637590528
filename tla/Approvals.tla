------------------------------- MODULE Approvals -------------------------------
(* The approval workflow of internal/workflow/approvals.go: a transition that    *)
(* matches a rule that is not autonomous leaves a pending_approvals row;         *)
(* Approve claims the row in one transaction, executes the proposed transition   *)
(* in a second one and, if that fails, takes the claim back in a third; Reject   *)
(* reads the row and later writes it, in one transaction that takes no lock      *)
(* between the two.                                                              *)
(*                                                                               *)
(* Every HTTP request is a handler goroutine whose steps interleave with the     *)
(* other handlers' at transaction (or, for the reads that are not locked,        *)
(* statement) granularity: the database runs READ COMMITTED.  ExecuteTransition  *)
(* is one step here; WorkflowEngine has its inside.                              *)
EXTENDS Naturals, FiniteSets

CONSTANTS
    Approvals,      \* identities a new pending_approvals row can get (a bound)
    Users,          \* users of the firm
    Perms,          \* permission keys
    Instances,      \* workflow instances of one definition
    States, Actions,\* its state keys and action keys
    Initial,        \* the initial state
    Edges,          \* workflow_transitions: [from, action, to, perm]
    Rules,          \* actions the enabled non-autonomous rules propose, one rule each
    Handlers,       \* request goroutines of the server
    None,           \* no user, no approval
    Cancellable,    \* whether the context of a request can be cancelled
    Crashable       \* whether the server process can crash

Edge == [from : States, action : Actions, to : States, perm : Perms]

ASSUME EdgesAssumption ==
    /\ Edges \subseteq Edge
    \* UNIQUE (workflow_definition_id, from_state_id, action_key), migration 0003
    /\ \A e, f \in Edges : e.from = f.from /\ e.action = f.action => e = f
ASSUME RulesAssumption == Rules \subseteq Actions
ASSUME InitialAssumption == Initial \in States
ASSUME NoneAssumption == None \notin Users /\ None \notin Approvals
ASSUME FaultsAssumption == Cancellable \in BOOLEAN /\ Crashable \in BOOLEAN

VARIABLES
    state,      \* [Instances -> States]: workflow_instances.current_state_id
    grants,     \* user_firm_roles joined with role_permissions: <<user, perm>>
    status,     \* pending_approvals.status, "none" for a row not yet inserted
    about,      \* the row's immutable columns
    overdue,    \* whether expires_at lies in the past
    inbox,      \* notifications: <<recipient, type, approval>>
    executed,   \* how often a row's proposed transition has been executed for it
    pc, caller, target, todo, live   \* the handlers

vars == <<state, grants, status, about, overdue, inbox, executed,
          pc, caller, target, todo, live>>
rows == <<status, about, overdue, inbox, executed>>

Proposal == [inst : Instances, action : Actions, perm : Perms, requester : Users]
Match    == [inst : Instances, seen : States, action : Actions]
Statuses == {"none", "pending", "approved", "rejected", "expired"}
PCs      == {"idle", "propose", "claim", "execute", "revert", "expire", "reject"}

\* The values of the variables; a row not yet inserted has no columns.
TypeOK ==
    /\ state \in [Instances -> States]
    /\ grants \subseteq Users \X Perms
    /\ status \in [Approvals -> Statuses]
    /\ about \in [Approvals -> Proposal \cup {None}]
    /\ \A a \in Approvals : status[a] # "none" => about[a] \in Proposal
    /\ overdue \in [Approvals -> BOOLEAN]
    /\ inbox \subseteq Users \X {"approval_pending", "approval_rejected"} \X Approvals
    /\ executed \in [Approvals -> Nat]
    /\ pc \in [Handlers -> PCs]
    /\ caller \in [Handlers -> Users \cup {None}]
    /\ \A h \in Handlers : pc[h] # "idle" => caller[h] \in Users
    /\ target \in [Handlers -> Approvals \cup {None}]
    /\ todo \in [Handlers -> SUBSET Match]
    /\ live \in [Handlers -> BOOLEAN]

Init ==
    /\ state = [i \in Instances |-> Initial]
    /\ grants = Users \X Perms
    /\ status = [a \in Approvals |-> "none"]
    /\ about = [a \in Approvals |-> None]
    /\ overdue = [a \in Approvals |-> FALSE]
    /\ inbox = {}
    /\ executed = [a \in Approvals |-> 0]
    /\ pc = [h \in Handlers |-> "idle"]
    /\ caller = [h \in Handlers |-> None]
    /\ target = [h \in Handlers |-> None]
    /\ todo = [h \in Handlers |-> {}]
    /\ live = [h \in Handlers |-> TRUE]

--------------------------------------------------------------------------------
(* Steps every handler shares.                                                   *)

\* The request of user u starts, on approval a, and continues at label l.
Begin(h, u, a, l) ==
    /\ pc[h] = "idle"
    /\ pc' = [pc EXCEPT ![h] = l]
    /\ caller' = [caller EXCEPT ![h] = u]
    /\ target' = [target EXCEPT ![h] = a]
    /\ UNCHANGED <<todo, live>>

Goto(h, l) ==
    /\ pc' = [pc EXCEPT ![h] = l]
    /\ UNCHANGED <<caller, target, todo, live>>

\* The handler returns to its client.
Return(h) ==
    /\ pc' = [pc EXCEPT ![h] = "idle"]
    /\ caller' = [caller EXCEPT ![h] = None]
    /\ target' = [target EXCEPT ![h] = None]
    /\ todo' = [todo EXCEPT ![h] = {}]
    /\ live' = [live EXCEPT ![h] = TRUE]

\* The edge u's transition takes, if the instance's present state has one and u
\* holds the permission this edge asks for now.
Allowed(u, i, act) ==
    {e \in Edges : e.from = state[i] /\ e.action = act /\ <<u, e.perm>> \in grants}

\* What EvaluateRules goes through after a transition into state s has committed: every
\* rule of the definition, on the state the transition led to.  Whether a rule's
\* condition holds depends on the payload and on other instances.
Matches(i, s) == {[inst |-> i, seen |-> s, action |-> act] : act \in Rules}

AfterTransition(h, u, i, s) ==
    IF Matches(i, s) = {}
    THEN Return(h)
    ELSE /\ pc' = [pc EXCEPT ![h] = "propose"]
         /\ caller' = [caller EXCEPT ![h] = u]
         /\ target' = [target EXCEPT ![h] = None]
         /\ todo' = [todo EXCEPT ![h] = Matches(i, s)]
         /\ UNCHANGED live

--------------------------------------------------------------------------------
(* Creating approvals.                                                           *)

\* ExecuteTransition called by a user, then the rules it triggers.
UserTransition(h, u, i, act) ==
    /\ pc[h] = "idle"
    /\ \E e \in Allowed(u, i, act) :
        /\ state' = [state EXCEPT ![i] = e.to]
        /\ AfterTransition(h, u, i, e.to)
    /\ UNCHANGED <<grants, rows>>

\* The rest of EvaluateRules' loop once match m has been dealt with.
NextMatch(h, m) ==
    IF todo[h] = {m}
    THEN Return(h)
    ELSE /\ todo' = [todo EXCEPT ![h] = @ \ {m}]
         /\ UNCHANGED <<pc, caller, target, live>>

Holders(perm) == {u \in Users : <<u, perm>> \in grants}

CreateWithoutColumns(h) ==
    /\ pc[h] = "propose" /\ live[h]
    /\ \E m \in todo[h], a \in Approvals :
        /\ status[a] = "none"
        /\ status' = [status EXCEPT ![a] = "pending"]
        /\ NextMatch(h, m)
    /\ UNCHANGED <<state, grants, about, inbox, overdue, executed>>

\* createPendingApprovalAndNotify: the permission is that of the edge leaving the
\* state the rule matched in, wherever the instance is by now.
CreatePendingApproval(h) ==
    /\ pc[h] = "propose" /\ live[h]
    /\ \E m \in todo[h], a \in Approvals :
        \E e \in {f \in Edges : f.from = m.seen /\ f.action = m.action} :
            /\ status[a] = "none"
            /\ status' = [status EXCEPT ![a] = "pending"]
            /\ about' = [about EXCEPT ![a] = [inst |-> m.inst, action |-> m.action,
                                              perm |-> e.perm, requester |-> caller[h]]]
            /\ inbox' = inbox \cup (Holders(e.perm) \X {"approval_pending"} \X {a})
            /\ NextMatch(h, m)
    /\ UNCHANGED <<state, grants, overdue, executed>>

\* The rule's condition does not hold or cannot be evaluated, its transaction fails, or
\* it proposes an action the state does not have: the loop goes on.
SkipMatch(h) ==
    /\ pc[h] = "propose"
    /\ \E m \in todo[h] : NextMatch(h, m)
    /\ UNCHANGED <<state, grants, rows>>

--------------------------------------------------------------------------------
(* Approve.                                                                      *)

\* Membership, the row, the permission the row carries and checkResolvable, read
\* without a lock.
StartApprove(h, u, a) ==
    /\ status[a] = "pending"
    /\ <<u, about[a].perm>> \in grants
    /\ Begin(h, u, a, IF overdue[a] THEN "expire" ELSE "claim")
    /\ UNCHANGED <<state, grants, rows>>

ClaimUnguarded(h) ==
    /\ pc[h] = "claim" /\ live[h]
    /\ status' = [status EXCEPT ![target[h]] = "approved"]
    /\ Goto(h, "execute")
    /\ UNCHANGED <<state, grants, about, overdue, inbox, executed>>

\* UPDATE ... SET status = 'approved' WHERE status = 'pending', committed.
Claim(h) ==
    /\ pc[h] = "claim" /\ live[h]
    /\ IF status[target[h]] = "pending"
       THEN /\ status' = [status EXCEPT ![target[h]] = "approved"]
            /\ Goto(h, "execute")
       ELSE Return(h) /\ UNCHANGED status
    /\ UNCHANGED <<state, grants, about, overdue, inbox, executed>>

\* ExecuteTransition on the approver's behalf: it looks the edge up in the state
\* the instance has now and checks the permission of that edge.
Execute(h) ==
    /\ pc[h] = "execute" /\ live[h]
    /\ LET p == about[target[h]] IN
       \E e \in Allowed(caller[h], p.inst, p.action) :
        /\ state' = [state EXCEPT ![p.inst] = e.to]
        /\ executed' = [executed EXCEPT ![target[h]] = @ + 1]
        /\ AfterTransition(h, caller[h], p.inst, e.to)
    /\ UNCHANGED <<grants, status, about, overdue, inbox>>

\* It fails: no such edge any more, permission denied, an effect that cannot be
\* posted, a database error, a cancelled request.
ExecuteFails(h) ==
    /\ pc[h] = "execute"
    /\ Goto(h, "revert")
    /\ UNCHANGED <<state, grants, rows>>

RevertForgotten(h) ==
    /\ pc[h] = "revert" /\ live[h]
    /\ Return(h)
    /\ UNCHANGED <<state, grants, rows>>

\* The compensating update, on the same request context, whatever the row holds.
Revert(h) ==
    /\ pc[h] = "revert" /\ live[h]
    /\ status' = [status EXCEPT ![target[h]] = "pending"]
    /\ Return(h)
    /\ UNCHANGED <<state, grants, about, overdue, inbox, executed>>

MarkExpiredUnguarded(h) ==
    /\ pc[h] = "expire" /\ live[h]
    /\ status' = [status EXCEPT ![target[h]] = "expired"]
    /\ Return(h)
    /\ UNCHANGED <<state, grants, about, overdue, inbox, executed>>

\* markExpired, in a transaction of its own after the one that found the row overdue.
MarkExpired(h) ==
    /\ pc[h] = "expire" /\ live[h]
    /\ status' = [status EXCEPT ![target[h]] = IF @ = "pending" THEN "expired" ELSE @]
    /\ Return(h)
    /\ UNCHANGED <<state, grants, about, overdue, inbox, executed>>

--------------------------------------------------------------------------------
(* Reject.                                                                       *)

\* The same checks as Approve's.
StartReject(h, u, a) ==
    /\ status[a] = "pending"
    /\ <<u, about[a].perm>> \in grants
    /\ Begin(h, u, a, IF overdue[a] THEN "expire" ELSE "reject")
    /\ UNCHANGED <<state, grants, rows>>

\* UPDATE ... SET status = 'rejected' WHERE id = ..., with no condition on status,
\* and the notification of the requester.
WriteRejection(h) ==
    /\ pc[h] = "reject" /\ live[h]
    /\ status' = [status EXCEPT ![target[h]] = "rejected"]
    /\ inbox' = inbox \cup {<<about[target[h]].requester, "approval_rejected", target[h]>>}
    /\ Return(h)
    /\ UNCHANGED <<state, grants, about, overdue, executed>>

--------------------------------------------------------------------------------
(* The environment.                                                              *)

\* A transaction of the handler fails and rolls back, or its context is cancelled:
\* the handler returns an error.  A revert is lost this way only on a cancelled
\* context; its error is ignored.
GiveUp(h) ==
    /\ \/ pc[h] \in {"claim", "expire", "reject"}
       \/ pc[h] = "revert" /\ ~live[h]
    /\ Return(h)
    /\ UNCHANGED <<state, grants, rows>>

\* The client goes away or RequestTimeout's deadline passes.
Cancel(h) ==
    /\ Cancellable
    /\ pc[h] # "idle" /\ live[h]
    /\ live' = [live EXCEPT ![h] = FALSE]
    /\ UNCHANGED <<state, grants, rows, pc, caller, target, todo>>

\* The server process dies; what is committed stays.
Crash ==
    /\ Crashable
    /\ \E h \in Handlers : pc[h] # "idle"
    /\ pc' = [h \in Handlers |-> "idle"]
    /\ caller' = [h \in Handlers |-> None]
    /\ target' = [h \in Handlers |-> None]
    /\ todo' = [h \in Handlers |-> {}]
    /\ live' = [h \in Handlers |-> TRUE]
    /\ UNCHANGED <<state, grants, rows>>

\* DefaultApprovalTTL passes.
BecomeOverdue(a) ==
    /\ status[a] # "none" /\ ~overdue[a]
    /\ overdue' = [overdue EXCEPT ![a] = TRUE]
    /\ UNCHANGED <<state, grants, status, about, inbox, executed, pc, caller, target, todo, live>>

\* An owner changes a role.
ChangeGrant(u, p) ==
    /\ grants' = IF <<u, p>> \in grants THEN grants \ {<<u, p>>} ELSE grants \cup {<<u, p>>}
    /\ UNCHANGED <<state, rows, pc, caller, target, todo, live>>

--------------------------------------------------------------------------------

\* What the goroutine of a request does once it has begun.
Step(h) ==
    \/ CreatePendingApproval(h) \/ SkipMatch(h)
    \/ Claim(h) \/ Execute(h) \/ ExecuteFails(h) \/ Revert(h)
    \/ MarkExpired(h) \/ WriteRejection(h) \/ GiveUp(h)

Next ==
    \/ \E h \in Handlers :
        \/ \E u \in Users, i \in Instances, act \in Actions : UserTransition(h, u, i, act)
        \/ \E u \in Users, a \in Approvals : StartApprove(h, u, a) \/ StartReject(h, u, a)
        \/ Step(h)
        \/ Cancel(h)
    \/ Crash
    \/ \E a \in Approvals : BecomeOverdue(a)
    \/ \E u \in Users, p \in Perms : ChangeGrant(u, p)

Spec == Init /\ [][Next]_vars

\* A goroutine that can run is run: the Go scheduler and a database that answers.
FairSpec == Spec /\ \A h \in Handlers : WF_vars(Step(h))

--------------------------------------------------------------------------------
(* Properties.                                                                   *)

\* h has claimed approval a and not yet executed or taken back what it claimed.
Claims(h, a) == pc[h] \in {"execute", "revert"} /\ target[h] = a

Claimed(a) == \E h \in Handlers : Claims(h, a)

\* However Approve calls race, fail, are cancelled or retried, and however Reject
\* and expiry overwrite the row, the proposed transition of an approval is
\* executed for it at most once (Approve's claim, approvals.go:406).
AtMostOnce == \A a \in Approvals : executed[a] <= 1

\* An approval that was executed never shows again as pending or as expired, so no
\* later Approve can pick it up (approvals.go:428 reverts only failed executions).
ExecutedStaysResolved ==
    \A a \in Approvals : executed[a] > 0 => status[a] \in {"approved", "rejected"}

\* An expired approval is never executed, not even by an Approve call that read it
\* before it was marked (markExpired and the claim exclude each other).
ExpiredIsInert ==
    [][\A a \in Approvals : status[a] = "expired" => executed'[a] = executed[a]
                                                     /\ status'[a] \in {"expired", "rejected"}]_vars

\* At most one request at a time has claimed an approval, and while it has, nothing
\* has been executed for that approval.
ClaimIsExclusive ==
    \A a \in Approvals, h \in Handlers : Claims(h, a) =>
        /\ executed[a] = 0
        /\ status[a] \in {"approved", "rejected"}
        /\ \A g \in Handlers : Claims(g, a) => g = h

\* A claim does not linger: an approval marked approved is executed, or becomes
\* pending again, or is overwritten (Approve's compensating update), as long as
\* requests are not cancelled and the server does not crash.
ClaimSettles ==
    \A a \in Approvals : []<>(status[a] # "approved" \/ executed[a] > 0)

\* The fate of an approval as ApprovalPromise sees it.
Fate(a) ==
    IF status[a] = "none" THEN "none"
    ELSE IF executed[a] > 0 THEN "done"
    ELSE IF status[a] = "pending" \/ Claimed(a) THEN "open"
    ELSE "dead"

Promise == INSTANCE ApprovalPromise WITH fate <- [a \in Approvals |-> Fate(a)]

\* The handlers implement the promise: open, then done once or dead for good.
KeepsPromise == Promise!Spec

\* What Approve's doc says (approvals.go:376-379): a failed execution does not leave
\* the approval stuck as approved with no side effect.
ApprovedHasEffect ==
    \A a \in Approvals : status[a] = "approved" /\ ~Claimed(a) => executed[a] > 0
================================================================================
