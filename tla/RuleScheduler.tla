----------------------------- MODULE RuleScheduler -----------------------------
(* Scheduled rules: internal/workflow/scheduler.go polls scheduled_rule_runs and *)
(* runs what is due, while owners create, patch and delete the rules (rules.go). *)
(*                                                                               *)
(* One firm: firms share nothing here.  The single poller lists at most Cap due  *)
(* runs in one transaction and runs each in a transaction of its own; a run that *)
(* fails is marked in yet another one.  The rows of runs that are over are       *)
(* forgotten and their identities used again.                                    *)
EXTENDS Naturals, Sequences, FiniteSets, SequencesExt

CONSTANTS
    Rules,      \* identities of schedule-triggered workflow_rules
    Runs,       \* identities of scheduled_rule_runs rows (a bound)
    Owners,     \* requests of owners
    Cap,        \* dueRunsPerFirmCap
    Patches,    \* the patches they send
    None, Deleted,
    Faults      \* how often a transaction of the scheduler fails or the server stops (a bound)

ASSUME CapAssumption == Cap \in Nat \ {0}
ASSUME NoneAssumption == None \notin Rules \cup Runs
ASSUME FaultsAssumption == Faults \in Nat

VARIABLES
    rule,       \* the row: its columns, None before creation, Deleted after
    of,         \* a run's rule_id
    later,      \* pending runs scheduled for later
    due,        \* pending runs scheduled for now or earlier, in the order of scheduled_for
    batch,      \* what the poller has listed and not yet run: <<run, rule>>
    broken,     \* whether the batch's first run has failed and is to be marked
    edit,       \* an owner's PATCH: the rule, the row it has read, the fields it sets
    faults,     \* faults so far
    steady      \* rules that had actions, were enabled and never failed since creation (history)

schedulerVars == <<rule, of, later, due, batch, broken, edit, faults, steady>>
poller == <<batch, broken>>
runs == <<of, later, due>>

\* The columns that matter here: whether the rule is enabled, whether it has actions.
Columns == {"enabled", "actions"}
Row == [Columns -> BOOLEAN]
Patch == UNION {[C -> BOOLEAN] : C \in SUBSET Columns}

ASSUME PatchesAssumption == Patches \subseteq {p \in Patch : DOMAIN p # {}}
ASSUME ColumnsAssumption == None \notin Row /\ Deleted \notin Row \cup {None}

Edit == [rule : Rules, read : Row, set : Patch]

\* What is left of a sequence without what is gone (SelectSeq by a recursive function, which
\* proofs can look into).
Without(s, gone) ==
    LET kept[k \in 0 .. Len(s)] ==
            IF k = 0 THEN <<>>
            ELSE IF s[k] \in gone THEN kept[k - 1] ELSE Append(kept[k - 1], s[k])
    IN kept[Len(s)]

Pending == later \cup Range(due)
Exists(r) == rule[r] \notin {None, Deleted}

\* A rule whose due runs are run.
Fit(r) == Exists(r) /\ rule[r]["enabled"]

\* The runs a rule has ahead of it.
Ahead(r) == {n \in Pending : of[n] = r}

\* The values of the variables; a pending run belongs to a rule (a foreign key).
SchedulerTypeOK ==
    /\ rule \in [Rules -> Row \cup {None, Deleted}]
    /\ of \in [Runs -> Rules \cup {None}]
    /\ later \subseteq Runs
    /\ due \in Seq(Runs)
    /\ \A n \in Pending : of[n] \in Rules /\ Exists(of[n])
    /\ batch \in Seq(Runs \X Rules) /\ Len(batch) <= Cap
    /\ broken \in BOOLEAN
    /\ edit \in [Owners -> Edit \cup {None}]
    /\ faults \in 0 .. Faults
    /\ steady \subseteq Rules

SchedulerInit ==
    /\ rule = [r \in Rules |-> None]
    /\ of = [n \in Runs |-> None]
    /\ later = {} /\ due = <<>>
    /\ batch = <<>> /\ broken = FALSE
    /\ edit = [o \in Owners |-> None]
    /\ faults = 0
    /\ steady = {}

--------------------------------------------------------------------------------
(* The owners' requests.                                                         *)

\* A row that is not pending, nor still held by the poller, can be a new run's.
Fresh == {n \in Runs : n \notin Pending /\ \A k \in DOMAIN batch : batch[k][1] # n}

\* INSERT INTO scheduled_rule_runs: a pending run of r, for later.
InsertRun(r) ==
    /\ Fresh # {}
    /\ LET n == CHOOSE n \in Fresh : TRUE IN
        /\ of' = [of EXCEPT ![n] = r]
        /\ later' = later \cup {n}

\* CreateRuleForFirm: the rule and its first run, one interval from now.
CreateRule(r, row) ==
    /\ rule[r] = None
    /\ rule' = [rule EXCEPT ![r] = row]
    /\ InsertRun(r)
    /\ steady' = IF row["enabled"] /\ row["actions"] THEN steady \cup {r} ELSE steady
    /\ UNCHANGED <<faults, due, poller, edit>>

\* UpdateRuleForFirm reads the row, without a lock.
ReadForPatch(o, r, p) ==
    /\ edit[o] = None /\ Exists(r)
    /\ edit' = [edit EXCEPT ![o] = [rule |-> r, read |-> rule[r], set |-> p]]
    /\ UNCHANGED <<faults, rule, runs, poller, steady>>

\* It writes every column back: the patched ones from the patch, the others as they
\* were read.  A rule deleted meanwhile is updated in no row.  No run is created.
WritePatch(o) ==
    LET e == edit[o] IN
    /\ e # None
    /\ edit' = [edit EXCEPT ![o] = None]
    /\ LET new == [c \in Columns |-> IF c \in DOMAIN e.set THEN e.set[c] ELSE e.read[c]] IN
        /\ rule' = IF Exists(e.rule) THEN [rule EXCEPT ![e.rule] = new] ELSE rule
        /\ steady' = IF new["enabled"] /\ new["actions"] THEN steady ELSE steady \ {e.rule}
    /\ UNCHANGED <<faults, runs, poller>>

\* The runs stay behind.
DeleteWithoutCascade(r) ==
    /\ Exists(r)
    /\ rule' = [rule EXCEPT ![r] = Deleted]
    /\ steady' = steady \ {r}
    /\ UNCHANGED <<faults, runs, poller, edit>>

\* DeleteRuleForFirm; the rule's runs go with it (ON DELETE CASCADE).
DeleteRule(r) ==
    /\ Exists(r)
    /\ rule' = [rule EXCEPT ![r] = Deleted]
    /\ later' = {n \in later : of[n] # r}
    /\ due' = Without(due, {n \in Runs : of[n] = r})
    /\ steady' = steady \ {r}
    /\ UNCHANGED <<faults, of, poller, edit>>

--------------------------------------------------------------------------------
(* The poller.                                                                   *)

\* scheduled_for passes.
BecomeDue(n) ==
    /\ n \in later
    /\ later' = later \ {n}
    /\ due' = Append(due, n)
    /\ UNCHANGED <<faults, rule, of, poller, edit, steady>>

Sooner(k, m) == IF k < m THEN k ELSE m

\* A batch without ORDER BY scheduled_for: here, the latest ones.
ListUnordered ==
    /\ batch = <<>> /\ due # <<>>
    /\ batch' = [k \in 1 .. Sooner(Cap, Len(due)) |->
                    LET n == due[Len(due) + 1 - k] IN <<n, of[n]>>]
    /\ UNCHANGED <<faults, rule, runs, broken, edit, steady>>

\* processDueRunsForFirm's listing, when a tick finds something due.
List ==
    /\ batch = <<>> /\ due # <<>>
    /\ batch' = [k \in 1 .. Sooner(Cap, Len(due)) |-> <<due[k], of[due[k]]>>]
    /\ UNCHANGED <<faults, rule, runs, broken, edit, steady>>

\* The next run is inserted, but marking this one is left for later.
RunKeepsPending ==
    /\ batch # <<>> /\ ~broken
    /\ Fit(Head(batch)[2])
    /\ InsertRun(Head(batch)[2])
    /\ broken' = TRUE
    /\ UNCHANGED <<faults, rule, due, batch, edit, steady>>

\* runScheduledRule's transaction: the actions, the run marked 'ran' and, if the rule
\* has actions, the next run, one interval from now.
RunRule ==
    /\ batch # <<>> /\ ~broken
    /\ LET n == Head(batch)[1]
           r == Head(batch)[2] IN
        /\ Fit(r)
        /\ due' = Without(due, {n})
        /\ IF rule[r]["actions"]
           THEN InsertRun(r)
           ELSE UNCHANGED <<of, later>>
    /\ batch' = Tail(batch)
    /\ UNCHANGED <<faults, rule, broken, edit, steady>>

\* It fails because the rule is gone or disabled.
RuleUnfit ==
    /\ batch # <<>> /\ ~broken
    /\ ~Fit(Head(batch)[2])
    /\ broken' = TRUE
    /\ UNCHANGED <<faults, rule, runs, batch, edit, steady>>

\* It fails for a reason of the database's, and rolls back.
RunFails ==
    /\ faults < Faults /\ faults' = faults + 1
    /\ batch # <<>> /\ ~broken
    /\ broken' = TRUE
    /\ steady' = steady \ {Head(batch)[2]}
    /\ UNCHANGED <<rule, runs, batch, edit>>

\* It is marked 'failed', and not rescheduled.
MarkFailed ==
    /\ broken
    /\ broken' = FALSE
    /\ due' = Without(due, {Head(batch)[1]})
    /\ batch' = Tail(batch)
    /\ UNCHANGED <<faults, rule, of, later, edit, steady>>

\* Marking it fails too, and the error is ignored: the run stays due.
MarkLost ==
    /\ faults < Faults /\ faults' = faults + 1
    /\ broken
    /\ broken' = FALSE
    /\ batch' = Tail(batch)
    /\ UNCHANGED <<rule, runs, edit, steady>>

\* The server stops, and starts again with no batch.
Restart ==
    /\ faults < Faults /\ faults' = faults + 1
    /\ batch # <<>>
    /\ batch' = <<>> /\ broken' = FALSE
    /\ UNCHANGED <<rule, runs, edit, steady>>

Poll == List \/ RunRule \/ RuleUnfit \/ RunFails \/ MarkFailed \/ MarkLost

SchedulerNext ==
    \/ \E r \in Rules :
        \/ \E row \in Row : CreateRule(r, row)
        \/ \E o \in Owners, p \in Patches : ReadForPatch(o, r, p)
        \/ DeleteRule(r)
    \/ \E o \in Owners : WritePatch(o)
    \/ \E n \in Runs : BecomeDue(n)
    \/ Poll \/ Restart

SchedulerSpec == SchedulerInit /\ [][SchedulerNext]_schedulerVars

\* Time passes and the ticker ticks (RunScheduler's loop).
SchedulerFairness ==
    WF_schedulerVars(Poll) /\ \A n \in Runs : WF_schedulerVars(BecomeDue(n))
FairSchedulerSpec == SchedulerSpec /\ SchedulerFairness

--------------------------------------------------------------------------------
(* Properties.                                                                   *)

\* The runs a rule has ahead of it: never two, whatever fails and whenever the server stops, so
\* that it fires once per interval and not more and more often (runScheduledRule marks the run
\* and inserts the next one in one transaction); and one, if it has been enabled, with actions,
\* since its creation and no run of its has failed: no restart loses its schedule.
OneRunAhead ==
    /\ \A r \in Rules : Cardinality(Ahead(r)) <= 1
    /\ \A r \in steady : Ahead(r) # {}

\* A due run is run or marked in the end, even when more runs than Cap are due: the next tick
\* picks up where this one left off (scheduler.go:61-64).  And a rule that stays disabled does
\* not keep re-queuing itself (scheduler.go:194-196).
ScheduleServed ==
    /\ \A n \in Runs : []<>(n \notin Range(due))
    /\ \A r \in Rules : <>[](Exists(r) /\ ~rule[r]["enabled"]) => <>[](Ahead(r) = {})

================================================================================
