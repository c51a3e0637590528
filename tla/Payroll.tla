--------------------------------- MODULE Payroll ---------------------------------
(* Payroll periods: internal/payroll/periods.go, entries.go and close.go.  Owners add and  *)
(* change the entries of a period while it is open; closing it posts the sum of the gross   *)
(* amounts to the journal and freezes the period.                                            *)
(*                                                                                          *)
(* ClosePeriod holds the lock of the period's row from its first statement to its commit.    *)
(* The entry calls read the status without a lock; the INSERT's foreign key makes it wait     *)
(* for that lock, the UPDATE does not touch the period at all.                                 *)
EXTENDS Integers, FiniteSets, Sequences, Functions

CONSTANTS
    Periods,    \* identities of payroll_periods rows
    Persons,    \* employees: one entry of each per period
    Amounts,    \* gross amounts
    Clerks,     \* owners' requests in flight
    NoPeriod,
    NoPerson

ASSUME AmountsAssumption == Amounts \subseteq Nat
ASSUME PersonsAssumption == IsFiniteSet(Persons)

VARIABLES
    periodStatus,  \* Periods -> "none", "open" or "closed" (nothing writes 'processing')
    gross,         \* Periods -> Persons -> the entry's gross amount, 0 without an entry
    hasEntry,      \* <<period, person>> pairs with an entry
    journal,       \* Periods -> the amounts posted for it
    clerk,         \* Clerks -> the call in progress and what it has read
    crossed        \* periods of which an entry call and a close were in progress at once (history)

payrollVars == <<periodStatus, gross, hasEntry, journal, clerk, crossed>>

NoCall == [at |-> "idle", period |-> NoPeriod, person |-> NoPerson, total |-> 0, entries |-> FALSE]

\* The types of the variables.
PayrollTypeOK ==
    /\ periodStatus \in [Periods -> {"none", "open", "closed"}]
    /\ gross \in [Periods -> [Persons -> Amounts \cup {0}]]
    /\ hasEntry \subseteq Periods \X Persons
    /\ journal \in [Periods -> Seq(Nat)]
    /\ clerk \in [Clerks -> [at : {"idle", "insert", "change", "sum", "post"}, period : Periods \cup {NoPeriod},
                             person : Persons \cup {NoPerson}, total : Nat, entries : BOOLEAN]]
    /\ crossed \subseteq Periods

PayrollInit ==
    /\ periodStatus = [p \in Periods |-> "none"]
    /\ gross = [p \in Periods |-> [n \in Persons |-> 0]]
    /\ hasEntry = {}
    /\ journal = [p \in Periods |-> <<>>]
    /\ clerk = [c \in Clerks |-> NoCall]
    /\ crossed = {}

In(p, at) == \E c \in Clerks : clerk[c].period = p /\ clerk[c].at \in at
Held(p) == In(p, {"sum", "post"})
Total(p) == SumFunctionOnSet(gross[p], Persons)
HasEntries(p) == \E n \in Persons : <<p, n>> \in hasEntry

Enters(c, at, p, n) == clerk' = [clerk EXCEPT ![c] = [NoCall EXCEPT !.at = at, !.period = p, !.person = n]]
Leaves(c) == clerk' = [clerk EXCEPT ![c] = NoCall]

CreatePeriod(p) ==
    /\ periodStatus[p] = "none"
    /\ periodStatus' = [periodStatus EXCEPT ![p] = "open"]
    /\ UNCHANGED <<gross, hasEntry, journal, clerk, crossed>>

\* CreateEntry reads the period: it must be open.
CreateReads(c, p, n) ==
    /\ clerk[c].at = "idle" /\ periodStatus[p] = "open"
    /\ Enters(c, "insert", p, n)
    /\ crossed' = IF Held(p) THEN crossed \cup {p} ELSE crossed
    /\ UNCHANGED <<periodStatus, gross, hasEntry, journal>>

\* INSERT and COMMIT.  The foreign key takes a share lock on the period and so waits for a
\* close; it does not look at the status again.  A second entry of a person is refused.
CreateInserts(c, amount) ==
    LET p == clerk[c].period  n == clerk[c].person IN
    /\ clerk[c].at = "insert" /\ ~Held(p)
    /\ IF <<p, n>> \in hasEntry THEN UNCHANGED <<gross, hasEntry>>
       ELSE /\ hasEntry' = hasEntry \cup {<<p, n>>}
            /\ gross' = [gross EXCEPT ![p][n] = amount]
    /\ Leaves(c)
    /\ UNCHANGED <<periodStatus, journal, crossed>>

\* UpdateEntry reads the entry's period.
UpdateReads(c, p, n) ==
    /\ clerk[c].at = "idle" /\ <<p, n>> \in hasEntry /\ periodStatus[p] = "open"
    /\ Enters(c, "change", p, n)
    /\ crossed' = IF Held(p) THEN crossed \cup {p} ELSE crossed
    /\ UNCHANGED <<periodStatus, gross, hasEntry, journal>>

\* UPDATE and COMMIT.
UpdateWrites(c, amount) ==
    /\ clerk[c].at = "change"
    /\ gross' = [gross EXCEPT ![clerk[c].period][clerk[c].person] = amount]
    /\ Leaves(c)
    /\ UNCHANGED <<periodStatus, hasEntry, journal, crossed>>

\* Mutant: SELECT without FOR UPDATE.
CloseReads(c, p) ==
    /\ clerk[c].at = "idle" /\ periodStatus[p] = "open"
    /\ Enters(c, "sum", p, NoPerson)
    /\ crossed' = IF In(p, {"insert", "change"}) THEN crossed \cup {p} ELSE crossed
    /\ UNCHANGED <<periodStatus, gross, hasEntry, journal>>

\* ClosePeriod: SELECT ... FOR UPDATE; the status is the one after waiting for the lock.
CloseLocks(c, p) ==
    /\ clerk[c].at = "idle" /\ ~Held(p) /\ periodStatus[p] = "open"
    /\ Enters(c, "sum", p, NoPerson)
    /\ crossed' = IF In(p, {"insert", "change"}) THEN crossed \cup {p} ELSE crossed
    /\ UNCHANGED <<periodStatus, gross, hasEntry, journal>>

\* SELECT SUM(gross_amount), COUNT(*): a statement of its own.
CloseSums(c) ==
    LET p == clerk[c].period IN
    /\ clerk[c].at = "sum"
    /\ clerk' = [clerk EXCEPT ![c].at = "post", ![c].total = Total(p), ![c].entries = HasEntries(p)]
    /\ UNCHANGED <<periodStatus, gross, hasEntry, journal, crossed>>

\* The posting and the status change commit together; a period without entries posts nothing.
\* Two lines of amount zero are no valid entry (accounting.PostJournalEntryTx).
CloseCommits(c) ==
    LET p == clerk[c].period IN
    /\ clerk[c].at = "post" /\ ~(clerk[c].entries /\ clerk[c].total = 0)
    /\ journal' = IF clerk[c].entries THEN [journal EXCEPT ![p] = Append(@, clerk[c].total)] ELSE journal
    /\ periodStatus' = [periodStatus EXCEPT ![p] = "closed"]
    /\ Leaves(c)
    /\ UNCHANGED <<gross, hasEntry, crossed>>

\* Any call may fail at a statement, or its request be cancelled: nothing of it stays.
PayrollFails(c) ==
    /\ clerk[c].at # "idle"
    /\ Leaves(c)
    /\ UNCHANGED <<periodStatus, gross, hasEntry, journal, crossed>>

PayrollStep ==
    \/ \E p \in Periods : CreatePeriod(p)
    \/ \E c \in Clerks :
        \/ \E p \in Periods :
              \/ CloseLocks(c, p)
              \/ \E n \in Persons : CreateReads(c, p, n) \/ UpdateReads(c, p, n)
        \/ \E a \in Amounts : CreateInserts(c, a) \/ UpdateWrites(c, a)
        \/ CloseSums(c) \/ CloseCommits(c) \/ PayrollFails(c)
PayrollSpec == PayrollInit /\ [][PayrollStep]_payrollVars

--------------------------------------------------------------------------------

\* A closed period has one posting of exactly what its entries say, or none if it has none,
\* and stays so, whatever calls to close it race with each other; entry calls that were in
\* progress together with a close are excepted (ErrPeriodNotOpen: "entries are immutable
\* history once a period starts closing" does not hold for those).
ClosedBooksMatch ==
    \A p \in Periods : periodStatus[p] = "closed" /\ p \notin crossed =>
        journal[p] = IF HasEntries(p) THEN <<Total(p)>> ELSE <<>>
================================================================================
