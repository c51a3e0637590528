---------------------------------------- MODULE Timers ----------------------------------------
(* What the server does for its firms by the clock: scheduled reports and daily reminders, two  *)
(* loops that share nothing but their shape.                                                    *)
(*                                                                                              *)
(* Scheduled reports: internal/scheduledreports/scheduler.go polls the reports that are due,    *)
(* runs each of them and moves its next run on; owners create, change and delete them           *)
(* (scheduledreports.go).  One firm, one poller.                                                *)
(*                                                                                              *)
(* The time is whether a report's next_run_at has been reached.  Recipients are not looked up   *)
(* when a report is saved: a notification for somebody who is no user fails at its foreign key. *)
(*                                                                                              *)
(* The daily reminders: internal/asset/scheduler.go tells a firm's owners of maintenance that   *)
(* comes due, internal/contracts/scheduler.go, the same code again, of contracts that expire.   *)
(* A ticker created when the server starts begins a poll; a poll deals with one firm after the  *)
(* other, each in one transaction that lists what is due and adds a notification for whatever   *)
(* has none of today's date yet.                                                                *)
(*                                                                                              *)
(* A day has Parts parts.  now() is when the transaction began, so a transaction that is open   *)
(* at midnight still looks for, and adds, notifications of the day before.  Every firm has an   *)
(* owner: it is founded with one, and nothing takes ownership away.                             *)
EXTENDS Naturals, FiniteSets

--------------------------------------------------------------------------------
(* Scheduled reports.                                                           *)

CONSTANTS
    Reports,    \* identities of scheduled_reports rows
    Restarts,   \* how often the server is restarted or the database refuses a transaction
    NoReport

ASSUME RestartsAssumption == Restarts \in Nat

VARIABLES
    report,     \* Reports -> the row: whether it is there, active, due, and its recipients are users
    faulty,     \* reports whose definition fails when it is run
    listed,      \* the due reports the poller has listed and not yet treated
    running,    \* the report being run and what became of it
    restarts

reportVars == <<report, faulty, listed, running, restarts>>

ReportRows == [there : BOOLEAN, active : BOOLEAN, due : BOOLEAN, known : BOOLEAN]
NoRow == [there |-> FALSE, active |-> FALSE, due |-> FALSE, known |-> FALSE]
Between == [report |-> NoReport, known |-> FALSE, outcome |-> "none"]

\* The types of the variables.
ReportsTypeOK ==
    /\ report \in [Reports -> ReportRows]
    /\ faulty \subseteq Reports
    /\ listed \subseteq Reports
    /\ running \in [report : Reports \cup {NoReport}, known : BOOLEAN, outcome : {"none", "read", "rows", "error"}]
    /\ restarts \in 0 .. Restarts

ReportsInit ==
    /\ report = [r \in Reports |-> NoRow]
    /\ faulty \in SUBSET Reports
    /\ listed = {}
    /\ running = Between
    /\ restarts = 0

Awaits(r) == report[r].active /\ report[r].due

--------------------------------------------------------------------------------
(* The owners.                                                                   *)

\* CreateScheduledReport and UpdateScheduledReport: next_run_at is an interval from now.
SaveReport(r, active, known) ==
    /\ report' = [report EXCEPT ![r] = [there |-> TRUE, active |-> active, due |-> FALSE, known |-> known]]
    /\ UNCHANGED <<faulty, listed, running, restarts>>

DeleteReport(r) ==
    /\ report[r].there
    /\ report' = [report EXCEPT ![r] = NoRow]
    /\ UNCHANGED <<faulty, listed, running, restarts>>

\* Time passes.
NextRunComes(r) ==
    /\ report[r].there /\ ~report[r].due
    /\ report' = [report EXCEPT ![r].due = TRUE]
    /\ UNCHANGED <<faulty, listed, running, restarts>>

--------------------------------------------------------------------------------
(* The poller.                                                                   *)

\* dueScheduledReportIDsTx: all of them, no limit.
ListDue ==
    /\ listed = {} /\ running = Between
    /\ \E r \in Reports : Awaits(r)
    /\ listed' = {r \in Reports : Awaits(r)}
    /\ UNCHANGED <<report, faulty, running, restarts>>

\* runOneScheduledReport reads the row, as it is now; a row that is gone is skipped, one that is
\* no longer active is run all the same.
ReadReport(r) ==
    /\ running = Between /\ r \in listed
    /\ listed' = listed \ {r}
    /\ running' = IF report[r].there THEN [report |-> r, known |-> report[r].known, outcome |-> "read"] ELSE Between
    /\ UNCHANGED <<report, faulty, restarts>>

\* Mutant: a report that fails is left as it is.
RunOrLeave ==
    /\ running.outcome = "read"
    /\ running' = IF running.report \in faulty THEN Between ELSE [running EXCEPT !.outcome = "rows"]
    /\ UNCHANGED <<report, faulty, listed, restarts>>

\* reports.RunReport: its error is kept for the notification's text.
RunReport ==
    /\ running.outcome = "read"
    /\ running' = [running EXCEPT !.outcome = IF running.report \in faulty THEN "error" ELSE "rows"]
    /\ UNCHANGED <<report, faulty, listed, restarts>>

\* One transaction: the next run and a notification per recipient; one recipient who is no user
\* undoes it all.
RecordRun ==
    LET r == running.report IN
    /\ running.outcome \in {"rows", "error"}
    /\ running' = Between
    /\ report' = IF running.known /\ report[r].there THEN [report EXCEPT ![r].due = FALSE] ELSE report
    /\ UNCHANGED <<faulty, listed, restarts>>

\* The server restarts or a transaction fails: what was listed is listed again.
Interrupted ==
    /\ restarts < Restarts /\ ~(listed = {} /\ running = Between)
    /\ restarts' = restarts + 1
    /\ listed' = {} /\ running' = Between
    /\ UNCHANGED <<report, faulty>>

PollReports == ListDue \/ (\E r \in Reports : ReadReport(r)) \/ RunReport \/ RecordRun
ReportsStep ==
    \/ PollReports \/ Interrupted
    \/ \E r \in Reports : NextRunComes(r) \/ DeleteReport(r)
    \/ \E r \in Reports, active, known \in BOOLEAN : SaveReport(r, active, known)
ReportsFairness == WF_reportVars(PollReports)
ReportsSpec == ReportsInit /\ [][ReportsStep]_reportVars /\ ReportsFairness

--------------------------------------------------------------------------------

\* A report that is due and whose recipients exist does not stay due: it is run and moved on, or
\* saved anew or deleted, even if its definition cannot be run and whatever other reports of the
\* firm, with unknown recipients, are retried at every poll (processFirmScheduledReports).
ReportsMoveOn ==
    \A r \in Reports : []<>~(Awaits(r) /\ report[r].known)

--------------------------------------------------------------------------------
(* Daily reminders.                                                             *)

CONSTANTS
    Firms,
    Items,      \* rows of maintenance_schedules, or of contract_registry
    FirmOf,     \* the firm of each
    Parts,      \* parts of a day
    Mishaps     \* how often a transaction fails or the server restarts (a bound)

ASSUME RemindersAssumption ==
    FirmOf \in [Items -> Firms] /\ Parts \in Nat \ {0} /\ Mishaps \in Nat

VARIABLES
    dueItems,   \* the items within their notice period
    interval,   \* pollInterval, in parts: a day, in tests less
    clock,      \* the part of the day, the parts until the ticker fires, whether it has fired
    waiting,    \* the firms a poll in progress has still to deal with
    work,       \* the transaction of one of them
    today,      \* how many notifications about an item bear today's date
    before,     \* and yesterday's, as long as a transaction of yesterday is open
    mishaps,
    quiet       \* since midnight: the items due, the firms nothing went wrong for (history)

reminderVars == <<dueItems, interval, clock, waiting, work, today, before, mishaps, quiet>>

NoWork == [firm |-> {}, listed |-> {}, added |-> {}, late |-> FALSE]
NoneSent == [i \in Items |-> 0]

\* The types of the variables.
RemindersTypeOK ==
    /\ dueItems \subseteq Items
    /\ interval \in 1 .. Parts
    /\ clock \in [part : 0 .. Parts - 1, left : 1 .. interval, fired : BOOLEAN]
    /\ waiting \subseteq Firms
    /\ work \in [firm : SUBSET Firms, listed : SUBSET Items, added : SUBSET Items, late : BOOLEAN]
    /\ today \in [Items -> Nat] /\ before \in [Items -> Nat]
    /\ mishaps \in 0 .. Mishaps
    /\ quiet \in [items : SUBSET Items, firms : SUBSET Firms]

RemindersInit ==
    /\ dueItems = {} /\ waiting = {} /\ work = NoWork
    /\ interval \in 1 .. Parts
    /\ clock = [part |-> 0, left |-> interval, fired |-> FALSE]
    /\ today = NoneSent /\ before = NoneSent
    /\ mishaps = 0
    /\ quiet = [items |-> {}, firms |-> {}]

Polling == waiting # {} \/ work # NoWork

--------------------------------------------------------------------------------
(* Time, and the owners.                                                          *)

\* The lookahead, or renewal_notice_days before end_date, is reached.
ComesDue(i) ==
    /\ i \notin dueItems
    /\ dueItems' = dueItems \cup {i}
    /\ UNCHANGED <<interval, clock, waiting, work, today, before, mishaps, quiet>>

\* CreateMaintenanceRecord moves next_due_at on; a schedule is switched off; a contract is
\* renewed or terminated.
Settle(i) ==
    /\ i \in dueItems
    /\ dueItems' = dueItems \ {i}
    /\ quiet' = [quiet EXCEPT !.items = @ \ {i}]
    /\ UNCHANGED <<interval, clock, waiting, work, today, before, mishaps>>

Midnight == clock.part = Parts - 1

\* time.NewTicker: its channel holds one tick.  No transaction sees two midnights.
TimePasses ==
    /\ clock' = [part |-> (clock.part + 1) % Parts,
                 left |-> IF clock.left = 1 THEN interval ELSE clock.left - 1,
                 fired |-> clock.fired \/ clock.left = 1]
    /\ IF Midnight
       THEN /\ ~work.late
            /\ today' = NoneSent
            /\ before' = IF work = NoWork THEN NoneSent ELSE today
            /\ work' = IF work = NoWork THEN NoWork ELSE [work EXCEPT !.late = TRUE]
            /\ quiet' = [items |-> dueItems, firms |-> IF Polling THEN {} ELSE Firms]
       ELSE UNCHANGED <<today, before, work, quiet>>
    /\ UNCHANGED <<dueItems, interval, waiting, mishaps>>

--------------------------------------------------------------------------------
(* The poll.                                                                      *)

\* ProcessDueMaintenanceSchedules: listAllFirmIDs.
StartPoll ==
    /\ ~Polling /\ clock.fired
    /\ clock' = [clock EXCEPT !.fired = FALSE]
    /\ waiting' = Firms
    /\ UNCHANGED <<dueItems, interval, work, today, before, mishaps, quiet>>

\* processDueSchedulesForFirm: the due items are listed.
StartFirm(f) ==
    /\ f \in waiting /\ work = NoWork
    /\ waiting' = waiting \ {f}
    /\ work' = LET Due == {i \in dueItems : FirmOf[i] = f}
               IN IF Due = {} THEN NoWork ELSE [NoWork EXCEPT !.firm = {f}, !.listed = Due]
    /\ UNCHANGED <<dueItems, interval, clock, today, before, mishaps, quiet>>

alreadyNotifiedTodayTx(i) == (IF work.late THEN before ELSE today)[i] > 0

\* Mutant: every poll reminds.
RemindAgain(i) ==
    /\ i \in work.listed
    /\ work' = [work EXCEPT !.listed = @ \ {i}, !.added = @ \cup {i}]
    /\ UNCHANGED <<dueItems, interval, clock, waiting, today, before, mishaps, quiet>>

\* One turn of the loop over what is due.
Remind(i) ==
    /\ i \in work.listed
    /\ work' = [work EXCEPT !.listed = @ \ {i},
                            !.added = IF alreadyNotifiedTodayTx(i) THEN @ ELSE @ \cup {i}]
    /\ UNCHANGED <<dueItems, interval, clock, waiting, today, before, mishaps, quiet>>

Added(sent) == [i \in Items |-> IF i \in work.added THEN sent[i] + 1 ELSE sent[i]]

\* The transaction commits.
CommitFirm ==
    /\ work # NoWork /\ work.listed = {}
    /\ today' = IF work.late THEN today ELSE Added(today)
    /\ before' = NoneSent
    /\ work' = NoWork
    /\ UNCHANGED <<dueItems, interval, clock, waiting, mishaps, quiet>>

\* Mutant: the loop over the firms ends with the first that fails.
GiveUp ==
    /\ work # NoWork /\ mishaps < Mishaps
    /\ mishaps' = mishaps + 1
    /\ work' = NoWork /\ before' = NoneSent /\ waiting' = {}
    /\ quiet' = [quiet EXCEPT !.firms = @ \ work.firm]
    /\ UNCHANGED <<dueItems, interval, clock, today>>

\* A failure is logged, and the poll goes on with the next firm.
FirmFails ==
    /\ work # NoWork /\ mishaps < Mishaps
    /\ mishaps' = mishaps + 1
    /\ work' = NoWork /\ before' = NoneSent
    /\ quiet' = [quiet EXCEPT !.firms = @ \ work.firm]
    /\ UNCHANGED <<dueItems, interval, clock, waiting, today>>

\* The firms cannot be listed: there is no poll at this tick.
PollFails ==
    /\ ~Polling /\ clock.fired /\ mishaps < Mishaps
    /\ mishaps' = mishaps + 1
    /\ clock' = [clock EXCEPT !.fired = FALSE]
    /\ quiet' = [quiet EXCEPT !.firms = {}]
    /\ UNCHANGED <<dueItems, interval, waiting, work, today, before>>

\* RunMaintenanceScheduler starts anew: the first tick is an interval away.
ServerRestarts ==
    /\ mishaps < Mishaps
    /\ mishaps' = mishaps + 1
    /\ clock' = [clock EXCEPT !.left = interval, !.fired = FALSE]
    /\ waiting' = {} /\ work' = NoWork /\ before' = NoneSent
    /\ quiet' = [quiet EXCEPT !.firms = {}]
    /\ UNCHANGED <<dueItems, interval, today>>

RemindersStep ==
    \/ TimePasses \/ StartPoll \/ CommitFirm \/ FirmFails \/ PollFails \/ ServerRestarts
    \/ \E i \in Items : ComesDue(i) \/ Settle(i) \/ Remind(i)
    \/ \E f \in Firms : StartFirm(f)
RemindersSpec == RemindersInit /\ [][RemindersStep]_reminderVars

--------------------------------------------------------------------------------

\* Owners are told of a thing at most once a day ("at most once per schedule per calendar day",
\* asset/scheduler.go:74), over midnight, restarts and failures too; and of everything that was
\* due from one midnight to the next they have been told in between ("checks daily"), unless
\* the server restarted, the firms could not be listed, that very firm's transaction failed, or a
\* poll lasted past midnight: what goes wrong for one firm costs no other its reminders.
OwnersAreReminded ==
    /\ [](\A i \in Items : today[i] <= 1 /\ before[i] <= 1)
    /\ [][ (Midnight /\ clock'.part # clock.part /\ ~Polling /\ ~clock.fired) =>
             \A i \in quiet.items : FirmOf[i] \in quiet.firms => today[i] = 1 ]_reminderVars
================================================================================
