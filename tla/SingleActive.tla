------------------------------- MODULE SingleActive -------------------------------
(* "Only one of them is active": versions of a bill of materials per product           *)
(* (internal/manufacturing/bom.go), budgets of overlapping periods (internal/budget/     *)
(* budgets.go) and AI configurations of a firm (internal/ai/config.go).  The three share  *)
(* one scheme: the transaction that activates a row turns the other active ones off,       *)
(* nothing in the database forbids two, and no lock covers the group.                       *)
(*                                                                                       *)
(* Transactions run at READ COMMITTED: a statement sees what was committed when it began,  *)
(* waits for the lock of a row another transaction wrote, and then looks at it again.       *)
EXTENDS Naturals, FiniteSets

CONSTANTS
    Versions,   \* identities of rows of the table
    Rivals,     \* pairs of them that exclude each other: same product, overlapping periods, same firm
    Editors,    \* owners' requests in flight
    NoVersion

ASSUME RivalsAssumption ==
    /\ Rivals \subseteq Versions \X Versions
    /\ \A p \in Rivals : <<p[2], p[1]>> \in Rivals /\ p[1] # p[2]

VARIABLES
    version,    \* Versions -> the committed state of the row
    change,       \* Editors -> where the transaction is, the row it is about, what it has
                \*            written and the rows its UPDATE has still to visit
    told        \* the rows whose owner asked for them to be inactive, or gone (history)

activeVars == <<version, change, told>>

States == {"draft", "idle", "active"}
NewVersion == [at |-> "idle", row |-> NoVersion, wrote |-> [v \in Versions |-> "none"], visit |-> {}]

\* The types of the variables.
ActiveTypeOK ==
    /\ version \in [Versions -> States \cup {"none", "deleted"}]
    /\ change \in [Editors -> [at : {"idle", "others", "visiting", "done"}, row : Versions \cup {NoVersion},
                             wrote : [Versions -> States \cup {"none"}], visit : SUBSET Versions]]
    /\ told \subseteq Versions

ActiveInit ==
    /\ version = [v \in Versions |-> "none"]
    /\ change = [e \in Editors |-> NewVersion]
    /\ told = {}

RivalsOf(v) == {w \in Versions : <<v, w>> \in Rivals}
Written(e) == {v \in Versions : change[e].wrote[v] # "none"}
LockedFor(v, e) == \E f \in Editors \ {e} : v \in Written(f)

\* The statement that writes v, and the step that comes next: only an activation goes on
\* to the other rows.
Writes(e, v, state) ==
    change' = [change EXCEPT ![e] = [at |-> IF state = "active" THEN "others" ELSE "done", row |-> v,
                                 wrote |-> [@.wrote EXCEPT ![v] = state], visit |-> {}]]

\* INSERT of a row nobody else can see before the commit.
Create(e, v, state) ==
    /\ change[e].at = "idle" /\ version[v] = "none" /\ ~LockedFor(v, e)
    /\ Writes(e, v, state)
    /\ UNCHANGED <<version, told>>

\* UPDATE ... SET is_active = $1 (or status) WHERE id = $2.
Update(e, v, state) ==
    /\ change[e].at = "idle" /\ version[v] \in States /\ ~LockedFor(v, e)
    /\ Writes(e, v, state)
    /\ UNCHANGED <<version, told>>

\* deactivateOther...Tx begins: the other active rows as they are committed now.
OthersFound(e) ==
    /\ change[e].at = "others"
    /\ change' = [change EXCEPT ![e].at = "visiting",
                            ![e].visit = {w \in RivalsOf(change[e].row) : version[w] = "active"}]
    /\ UNCHANGED <<version, told>>

\* The same UPDATE reaches one of them, waits for its lock, and turns it off if it is
\* still active.
TurnOff(e, w) ==
    /\ change[e].at = "visiting" /\ w \in change[e].visit /\ ~LockedFor(w, e)
    /\ change' = [change EXCEPT ![e].visit = @ \ {w},
                            ![e].wrote[w] = IF version[w] = "active" THEN "idle" ELSE @]
    /\ UNCHANGED <<version, told>>

AllVisited(e) ==
    /\ change[e].at = "visiting" /\ change[e].visit = {}
    /\ change' = [change EXCEPT ![e].at = "done"]
    /\ UNCHANGED <<version, told>>

\* Mutant: the others are turned off and committed before the row itself.
CommitOthersFirst(e) ==
    \/ /\ change[e].at = "visiting" /\ change[e].visit = {} /\ Written(e) # {change[e].row}
       /\ version' = [v \in Versions |-> IF change[e].wrote[v] = "none" \/ v = change[e].row THEN version[v]
                                         ELSE change[e].wrote[v]]
       /\ change' = [change EXCEPT ![e].wrote = [v \in Versions |-> IF v = change[e].row THEN @[v] ELSE "none"]]
       /\ UNCHANGED told
    \/ /\ change[e].at = "done"
       /\ version' = [v \in Versions |-> IF change[e].wrote[v] = "none" THEN version[v] ELSE change[e].wrote[v]]
       /\ told' = IF change[e].wrote[change[e].row] = "active" THEN told \ {change[e].row} ELSE told \cup {change[e].row}
       /\ change' = [change EXCEPT ![e] = NewVersion]

Commit(e) ==
    /\ change[e].at = "done"
    /\ version' = [v \in Versions |-> IF change[e].wrote[v] = "none" THEN version[v] ELSE change[e].wrote[v]]
    /\ told' = IF change[e].wrote[change[e].row] = "active" THEN told \ {change[e].row} ELSE told \cup {change[e].row}
    /\ change' = [change EXCEPT ![e] = NewVersion]

\* A later statement fails, the request is cancelled, or the database breaks a deadlock.
Rollback(e) ==
    /\ change[e].at # "idle"
    /\ change' = [change EXCEPT ![e] = NewVersion]
    /\ UNCHANGED <<version, told>>

\* ApproveBudget: SELECT ... FOR UPDATE, then draft -> approved.
ApproveBudget(e, v) ==
    /\ change[e].at = "idle" /\ version[v] = "draft" /\ ~LockedFor(v, e)
    /\ version' = [version EXCEPT ![v] = "idle"]
    /\ UNCHANGED <<change, told>>

\* DeleteBOM, DeleteConfig: one statement.
Delete(e, v) ==
    /\ change[e].at = "idle" /\ version[v] \in States /\ ~LockedFor(v, e)
    /\ version' = [version EXCEPT ![v] = "deleted"]
    /\ told' = told \cup {v}
    /\ UNCHANGED change

ActiveStep ==
    \E e \in Editors :
        \/ \E v \in Versions :
              \/ \E s \in States : Create(e, v, s) \/ Update(e, v, s)
              \/ TurnOff(e, v) \/ ApproveBudget(e, v) \/ Delete(e, v)
        \/ OthersFound(e) \/ AllVisited(e) \/ Commit(e) \/ Rollback(e)
ActiveSpec == ActiveInit /\ [][ActiveStep]_activeVars

--------------------------------------------------------------------------------

\* A row that was active stops being so because its owner said so, or because a rival is
\* active from that moment on: the change-over leaves no gap in which nothing is active
\* (docs/DEVELOPMENT.md: "never a window with ... zero").
NoGap ==
    [][\A v \in Versions : version[v] = "active" /\ version'[v] # "active" =>
          v \in told' \/ \E w \in RivalsOf(v) : version'[w] = "active"]_activeVars

\* Rows that exclude each other are never both active (docs/DEVELOPMENT.md: "never a window
\* with two active versions").
OneActive == \A p \in Rivals : ~(version[p[1]] = "active" /\ version[p[2]] = "active")
================================================================================
