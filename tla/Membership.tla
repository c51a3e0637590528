------------------------------- MODULE Membership -------------------------------
(* How people come into a firm and what can put them out again: roles, invites and   *)
(* memberships (internal/permission/roles.go, internal/invite/invite.go).             *)
(*                                                                                    *)
(* Transactions of the owner and of people with an invite overlap, statement by        *)
(* statement, under READ COMMITTED.  Accept locks the invite's row; the membership it  *)
(* inserts holds a key share lock on the role's row; deleting a role takes its row     *)
(* and then, by ON DELETE CASCADE, its memberships and its invites                     *)
(* (migrations/0001_core_schema.up.sql:64, migrations/0007_firm_invites.up.sql:32).    *)
EXTENDS Naturals, FiniteSets

CONSTANTS
    Roles,      \* identities of roles other than the owner's
    People,     \* users who are given invites
    Invites,    \* identities of firm_invites rows
    Calls,      \* requests that may overlap
    Nobody      \* not a call in progress

VARIABLES
    role,       \* Roles -> "none", "live" or "deleted"
    member,     \* user_firm_roles: <<user, role>>
    invite,     \* Invites -> the row: its role, its status, whether it has expired
    call,       \* Calls -> what the request does, how far it is, and to which rows
    joined      \* Invites -> the people it let in (history)

memberVars == <<role, member, invite, call, joined>>

NoInvite == [role |-> Nobody, status |-> "none", expired |-> FALSE]

Accepting == [op : {"accept"}, step : {"locked", "inserted"}, who : People, invite : Invites]
Revoking == [op : {"revoke"}, step : {"read"}, invite : Invites]
Deleting == [op : {"delete"}, step : {"counted", "deleted"}, role : Roles]

\* The types of the variables; a member's role and an invite's role are there (foreign
\* keys), unless the invite went with the role.
MemberTypeOK ==
    /\ role \in [Roles -> {"none", "live", "deleted"}]
    /\ member \subseteq People \X Roles
    /\ \A m \in member : role[m[2]] = "live"
    /\ invite \in [Invites -> [role : Roles \cup {Nobody}, expired : BOOLEAN,
                                status : {"none", "pending", "used", "revoked", "gone"}]]
    /\ \A i \in Invites : invite[i].status \in {"pending", "used", "revoked"} =>
            invite[i].role \in Roles /\ role[invite[i].role] = "live"
    /\ call \in [Calls -> Accepting \cup Revoking \cup Deleting \cup {Nobody}]
    /\ joined \in [Invites -> SUBSET People]

MemberInit ==
    /\ role = [r \in Roles |-> "none"]
    /\ member = {}
    /\ invite = [i \in Invites |-> NoInvite]
    /\ call = [c \in Calls |-> Nobody]
    /\ joined = [i \in Invites |-> {}]

--------------------------------------------------------------------------------
(* Row locks, read off the calls that hold them.                                 *)

Does(c, op, step) == call[c] # Nobody /\ call[c].op = op /\ call[c].step = step

\* SELECT ... FOR UPDATE of Accept.
InviteLocked(i) == \E c \in Calls :
    (Does(c, "accept", "locked") \/ Does(c, "accept", "inserted")) /\ call[c].invite = i

\* The foreign key of an inserted membership: FOR KEY SHARE.
RoleShared(r) == \E c \in Calls :
    Does(c, "accept", "inserted") /\ invite[call[c].invite].role = r

\* A DELETE that has not been committed.
RoleTaken(r) == \E c \in Calls : Does(c, "delete", "deleted") /\ call[c].role = r

--------------------------------------------------------------------------------
(* Requests of one statement that matters.                                       *)

CreateRole(r) ==
    /\ role[r] = "none"
    /\ role' = [role EXCEPT ![r] = "live"]
    /\ UNCHANGED <<member, invite, call, joined>>

\* Generate: a pending invite; its foreign key waits for a role that is being deleted.
Generate(i, r) ==
    /\ invite[i].status = "none"
    /\ role[r] = "live" /\ ~RoleTaken(r)
    /\ invite' = [invite EXCEPT ![i] = [role |-> r, status |-> "pending", expired |-> FALSE]]
    /\ UNCHANGED <<role, member, call, joined>>

\* expires_at passes.
ExpireInvite(i) ==
    /\ invite[i].status = "pending" /\ ~invite[i].expired
    /\ invite' = [invite EXCEPT ![i].expired = TRUE]
    /\ UNCHANGED <<role, member, call, joined>>

--------------------------------------------------------------------------------
(* Accept.                                                                       *)

Acceptable(i) == invite[i].status = "pending" /\ ~invite[i].expired

\* Without FOR UPDATE the status is read and no lock taken.
AcceptReads(c, p, i) ==
    /\ call[c] = Nobody
    /\ Acceptable(i)
    /\ call' = [call EXCEPT ![c] = [op |-> "accept", step |-> "locked", who |-> p, invite |-> i]]
    /\ UNCHANGED <<role, member, invite, joined>>

\* SELECT ... FOR UPDATE waits for the row, then the switch on its status and expiry.
AcceptLocks(c, p, i) ==
    /\ call[c] = Nobody
    /\ ~InviteLocked(i)
    /\ Acceptable(i)
    /\ call' = [call EXCEPT ![c] = [op |-> "accept", step |-> "locked", who |-> p, invite |-> i]]
    /\ UNCHANGED <<role, member, invite, joined>>

\* INSERT INTO user_firm_roles waits for a role that is being deleted.
AcceptInserts(c) ==
    /\ Does(c, "accept", "locked")
    /\ ~RoleTaken(invite[call[c].invite].role)
    /\ call' = [call EXCEPT ![c].step = "inserted"]
    /\ UNCHANGED <<role, member, invite, joined>>

\* The invite is marked used, and all is committed.
AcceptCommits(c) ==
    /\ Does(c, "accept", "inserted")
    /\ LET p == call[c].who
           i == call[c].invite IN
        /\ member' = member \cup {<<p, invite[i].role>>}
        /\ invite' = [invite EXCEPT ![i].status = "used"]
        /\ joined' = [joined EXCEPT ![i] = @ \cup {p}]
    /\ call' = [call EXCEPT ![c] = Nobody]
    /\ UNCHANGED role

--------------------------------------------------------------------------------
(* Revoke.                                                                       *)

\* The status is read, without a lock, and must be pending ...
RevokeReads(c, i) ==
    /\ call[c] = Nobody
    /\ invite[i].status = "pending"
    /\ call' = [call EXCEPT ![c] = [op |-> "revoke", step |-> "read", invite |-> i]]
    /\ UNCHANGED <<role, member, invite, joined>>

\* ... and the UPDATE, when it gets the row, sets it whatever the status is by then; a
\* row that is gone is not updated.
RevokeWrites(c) ==
    /\ Does(c, "revoke", "read")
    /\ LET i == call[c].invite IN
        /\ ~InviteLocked(i)
        /\ invite' = IF invite[i].status = "gone" THEN invite
                     ELSE [invite EXCEPT ![i].status = "revoked"]
    /\ call' = [call EXCEPT ![c] = Nobody]
    /\ UNCHANGED <<role, member, joined>>

--------------------------------------------------------------------------------
(* DeleteRole.                                                                   *)

\* It counts the role's members, those that are committed; there must be none.
DeleteCounts(c, r) ==
    /\ call[c] = Nobody
    /\ role[r] = "live"
    /\ \A m \in member : m[2] # r
    /\ call' = [call EXCEPT ![c] = [op |-> "delete", step |-> "counted", role |-> r]]
    /\ UNCHANGED <<role, member, invite, joined>>

\* DELETE FROM roles waits until nobody holds the row.
DeleteTakes(c) ==
    /\ Does(c, "delete", "counted")
    /\ role[call[c].role] = "live"
    /\ ~RoleShared(call[c].role) /\ ~RoleTaken(call[c].role)
    /\ call' = [call EXCEPT ![c].step = "deleted"]
    /\ UNCHANGED <<role, member, invite, joined>>

\* The cascade, over the rows that are there by now, waits for locked invites.
DeleteCommits(c) ==
    /\ Does(c, "delete", "deleted")
    /\ LET r == call[c].role
           Its == {i \in Invites : invite[i].role = r /\ invite[i].status # "none"} IN
        /\ \A i \in Its : ~InviteLocked(i)
        /\ role' = [role EXCEPT ![r] = "deleted"]
        /\ member' = {m \in member : m[2] # r}
        /\ invite' = [i \in Invites |-> IF i \in Its THEN [invite[i] EXCEPT !.status = "gone"]
                                        ELSE invite[i]]
    /\ call' = [call EXCEPT ![c] = Nobody]
    /\ UNCHANGED joined

\* A transaction fails and is rolled back; so is one that Postgres picks when two wait
\* for each other.
Aborts(c) ==
    /\ call[c] # Nobody
    /\ call' = [call EXCEPT ![c] = Nobody]
    /\ UNCHANGED <<role, member, invite, joined>>

MemberNext ==
    \/ \E r \in Roles : CreateRole(r) \/ \E i \in Invites : Generate(i, r)
    \/ \E i \in Invites : ExpireInvite(i)
    \/ \E c \in Calls :
        \/ \E i \in Invites : RevokeReads(c, i) \/ \E p \in People : AcceptLocks(c, p, i)
        \/ \E r \in Roles : DeleteCounts(c, r)
        \/ AcceptInserts(c) \/ AcceptCommits(c) \/ RevokeWrites(c)
        \/ DeleteTakes(c) \/ DeleteCommits(c) \/ Aborts(c)

MemberSpec == MemberInit /\ [][MemberNext]_memberVars

--------------------------------------------------------------------------------
(* Properties.                                                                   *)

\* An invite lets one person in, and only while it is pending, however its acceptances,
\* its revocation and its role's deletion overlap: the check and the change "can never
\* race apart" (invite.go:334).
OneJoinsPerInvite ==
    [][\A i \in Invites : joined'[i] # joined[i] =>
            joined[i] = {} /\ invite[i].status = "pending"]_memberVars

================================================================================
