# ZonaryOS: formal models

TLA+ models of ZonaryOS, a multi-tenant ERP written in Go over one PostgreSQL database, with TLC
configurations that check them on small instances and proofs checked by TLAPS. Paths below are
relative to the repository's `src/`.

## The system

A server process (`cmd/server`) answers HTTP requests, each in a goroutine of its own, and runs
background loops (rule scheduler, scheduled reports, two daily reminders, metrics flush, inbound
pulls, edge events, alert checks). All state that lasts is in PostgreSQL. A handler runs its
statements through `internal/platform/db.WithFirmContext` in one READ COMMITTED transaction: a
statement sees what is committed when it starts plus its own transaction's writes, an `UPDATE` or
`SELECT ... FOR UPDATE` waits for the row's lock, a plain `SELECT` does not.

What is hard about this code comes from three places. *Inside* a transaction: a value read without
a lock, a decision taken on it, and a write that has had to wait in between. *Between* transactions:
many operations consist of several (an approval is claimed, executed and, if that failed, put
back), and a refusal, a cancelled request or a crash may fall between two of them. *After* the
commit: rules, webhooks, notifications, the answer itself. The models follow that division: the
component models take the code statement by statement where calls compete for rows, and one model
of a request takes every handler through its checks, transactions and errors.

### Inventory

| component | state | operations | hard behaviour | correct when |
|---|---|---|---|---|
| middleware (`platform`, `ratelimit`, `cmd/server`) | the request's context and transaction | chain, timeout, panic recovery, commit, rollback | a deadline or a panic between any two steps | every request is answered, what it left open is closed |
| workflow engine (`workflow/engine.go`, `bulk_transition.go`) | `workflow_instances`, audit log, what effects insert | create, transition, bulk transition | unlocked read of the state, several instances in one transaction, events after the commit | effects equal committed transitions; bulk is all or nothing; events are true |
| approvals (`workflow/approvals.go`) | `pending_approvals`, notifications | propose, approve, reject, expire | claim, execution and compensation are three transactions | the proposal runs at most once; nothing expired or executed comes back |
| rules and cascades (`workflow/rules.go`) | `workflow_rules`, condition trees | create, patch, delete, evaluate | rules run after the commit and fire transitions that fire rules | a cascade ends; what is switched off does not act; an unknown operand is no match |
| rule scheduler (`workflow/scheduler.go`) | `scheduled_rule_runs` | poll, run, reschedule, mark failed | crash in mid-batch, owner edits during a run, more due than a batch holds | one run ahead per rule, none lost, all served |
| invoicing and payments (`invoicing`) | `invoices`, lines, payments, number sequence | create, line edits, status (single and bulk), pay | sums and statuses read before the lock | gapless numbers, right totals, closed once |
| accounting, currency (`accounting`, `currency`) | journal entries and lines, accounts, rates | post, switch accounts, balance sheet | line by line conversion; a report of five separate reads | what is committed balances |
| inventory (`inventory`) | `stock_levels`, `stock_movements` | adjust | many callers, each locking several levels | a level is the sum of its movements, never negative |
| warehouse (`warehouse`) | transfers, cycle counts | create, complete, cancel; open, record, close | two levels per transfer; a count lasts for days | a document moves stock once; a count keeps concurrent movements |
| manufacturing (`manufacturing`) | production orders, bills of material | create, start, complete, cancel; activate a version | several levels locked in no fixed order; "one active" without a constraint | all parts or none; one active version |
| orders and deals (`salesorders`, `procurement`, `crm`) | orders, opportunities, number sequences | create, change status | statuses read without a lock | gapless numbers; closed stays closed |
| budgets, AI configurations (`budget`, `ai`) | rows of which one is active | create, activate | two statements keep the rule | one active, no gap |
| payroll (`hr`, `payroll`) | periods, entries, journal | add and change entries, close | entry calls that race with the closing | the journal carries what the period shows, once |
| absences (`absence`, `timetracking`) | absences, workflow instances, approvals | request, answer, delete | four transactions per answer | a shown answer is one the workflow took |
| invites and roles (`invite`, `permission`, `firm`, `identity`) | roles, grants, memberships, invites | invite, accept, revoke, delete a role | acceptances that race with revocation and cascade deletes | one invite, one member |
| Audit Mode's feed (`permission/broadcast.go`, web client) | subscribers' flags | grant, publish, stream, refetch | publication and commit, coalesced events | an open screen shows the grants in the end |
| webhooks (`webhook`) | webhooks, deliveries | dispatch, retry | fire and forget after the commit | no event about what was rolled back |
| edge agents (`edgeagent`) | tokens, commands, events, a JetStream stream | poll, acknowledge, record, drain the stream | lost answers, redelivery, restarts | executed stays executed; events arrive |
| inbound pulls (`integration`) | connectors, sync logs, products and customers | pull, push | looked up in one transaction, created in another | one entity per key |
| scheduled reports (`scheduledreports`) | reports, next run | save, delete, poll | a failing report, an interrupted transaction | what is due moves on |
| daily reminders (`asset`, `contracts`) | notifications of the day | poll firm by firm | restarts, midnight, a firm that fails | once a day, and not less because of another firm |
| metrics buffer and shutdown (`apm`, `cmd/server`) | in-memory buffer | record, swap, flush, drain | flush loop, requests and shutdown at once | a record is written once |
| everything else with routes (`logistics`, `project`, `costcenter`, `consolidation`, `localization`, `apikey`, `auditlog`, `platformadmin`, `alerting`, `plugin`, `reports`, `analytics`, `search`, `documents`, `notification`, `wizard`, `portability`, `helparticles`, ...) | records | create, change, list | refusals and errors across packages | as a request: allowed, audited, answered truly |
| specifications (`workflow/spec.go`, ...), telemetry and health, licence | none, or a verdict | parse, probe | – | not modelled |

How they interact: a transition posts its effects (`accounting`, `inventory`, `invoicing`,
`logistics`, `crm`, orders) *inside* its own transaction, by functions that take the open `tx`;
after the commit it calls `EvaluateRules`, which executes actions of autonomous rules as further
transitions and leaves a pending approval for the others, and `webhook.Dispatch`. Approving calls
`ExecuteTransition` again, and absences are answered through approvals. The scheduler executes rule
actions without a trigger. Warehouse and manufacturing call the same `inventory.AdjustStockTx` and
`accounting.PostJournalEntryTx`; payroll and assets post too.

## The modules

| module | models | checked in |
|---|---|---|
| `HttpSteps` | the vocabulary in which services and handlers are described | `api` |
| `AccountApi`, `GoodsApi`, `LinksApi`, `PeopleApi`, `SetupApi`, `TradeApi`, `WorkflowApi` | every service function behind a route, and the 272 handlers, by area | `api` |
| `HttpRequests`, `MCHttpRequests` | one request through middleware, handler and services; `newRouter` puts all routes together | `api` |
| `ApprovalPromise` | what an approval promises, as a specification of its own | refined by `Approvals` |
| `Approvals` | `approvals.go`, transaction by transaction | `approvals`, `approvals_effect`, `background` |
| `WorkflowEngine` | `engine.go`, `bulk_transition.go`, statement by statement | `engine`, `engine_graph`, `engine_bulk` |
| `Invoices` | `internal/invoicing`, statement by statement | `invoices`, `invoices_once` |
| `Stock` | `AdjustStockTx`, transfers, cycle counts, production orders | `stock` |
| `RuleCascade`, `RuleScheduler`, `Timers`, `EdgeAgents`, `PermissionFeed` | what goes on in the background, or must come to an end there | `background` |
| `Conditions`, `Metrics`, `Webhooks`, `Payroll`, `Absences`, `Ledger`, `InboundSync`, `Membership`, `Orders`, `SingleActive` | services with state of their own that calls compete for | `services` (`SingleActive` also in `single_active`, by the same module) |
| `ApprovalsProofs`, `EngineProofs`, `HttpProofs`, `InvoicesProofs`, `StockProofs`, `BackgroundProofs`, `ServicesProofs` | theorems about the models, one module per run | TLAPS |
| `SumLemmas` | facts about sums over finite sets that the proofs share | TLAPS |

An `MC...` module gives an instance its constants. `MCBackground` and `MCServices` put several
specifications side by side: their components share no row and no lock, or meet only through
`ExecuteTransition`, which each models as far as it depends on it. A variable `service` names the one
whose steps a behaviour takes; the others keep still in a single initial state. So a behaviour of the
sum is a behaviour of one of them, and a property of one is checked on all its behaviours.

The component models describe a transaction in the same way. Reads see the committed variables (and
the transaction's own writes); what a transaction has written is kept with it and is added to the
committed variables by its commit; row locks are derived from what it has written or locked, and a
step that writes has "nobody holds the row" as its guard. Transactions that wait for each other are
ended by the database. A failure of any statement, a cancelled request and a crash look alike from
inside the transaction: it rolls back. They differ afterwards, and there the models tell them apart.

What is summed is a function summed by the community modules' `SumFunction` (levels over movements, totals
over lines, periods over entries, balances over a ledger), and what recurses is a recursive function
(`Without` of the scheduler, `Evaluate` of the conditions), so that the same definitions are evaluated by TLC and
reasoned about by TLAPS. The only RECURSIVE operator is in `MCHttpRequests`, where TLC works out the notes of the
routes (see "What is proved").

### A request (`HttpRequests`)

A service is the sequence of its steps: validations (`May` with the errors they return), the caller
checks (`Member`, `Owner`, `Holds`, `MineOr`, `Vouched`), `InTx` around what `WithFirmContext` encloses,
`Put` with the tables written, `Audit`, `Tell` for an event, and calls of other services, which keep
the package of their errors. Control is a jump forward: `Maybe` and `Either` for what depends on data,
`Aside` for best-effort work and goroutines, `Catching` for expected errors (with the savepoint where the
code has one), `Cleaning` for a compensation whose failure is returned after all. A handler adds the
parsing of its inputs, the caller's identity, and its package's error writer as a function from errors
to statuses.

`HttpRequests` gives the steps their meaning. Its state is the handler and the step it is at, the open
transaction (what it wrote, which checks passed in it, whether it was audited), the enclosing `Try`
frames, the commits so far, and the answer. At every step of the database the statement or connection
may fail (`Break`; at a `COMMIT` the transaction may have happened all the same), anywhere the handler
may panic (`Panic`) or its context end (`Deadline`, after which statements fail). The caller is a
stranger, a member or an owner.

What is abstracted: a condition on data is a free choice, so a request may take a combination of
branches no input selects; properties that hold here hold for those that exist too. Loops over items run once
or not at all, except that bulk calls can meet a refusal at a later item. A rule cascade inside of a transition is one
level deep (its depth is `RuleCascade`'s business). One firm; what a role is does not change during
a request. The tables whose writes are recorded (`watched`) are chosen with the request, each alone or all,
which keeps the state small and loses nothing the properties ask.

`Api` is a constant of `HttpRequests`: what is said of it holds for any set of routes that
is written in the vocabulary (`ApiAssumption`), and `newRouter` is the real one. The last section of the module,
"What a handler keeps to", says of the steps of a handler alone, without running it, what makes its requests
correct: a *note* for each step of what has certainly and what has possibly happened before it (`Noted`).
`MCHttpRequests` computes the notes of all 272 handlers (`newNotes`), and TLC evaluates
`HandlersAreAnnotated == Annotated(newNotes)` in every run of it.

### The component models

**Approvals.** `status`, `about`, `overdue` are columns of `pending_approvals`; `executed` counts
(history) how often an approval's proposal was executed; `pc`, `caller`, `target`, `todo`, `live` are
the handlers, `live` being whether the request's context is still alive. `Approve` is
`StartApprove` (read and expiry check), `Claim` (conditional `UPDATE`), `Execute`/`ExecuteFails`
(`ExecuteTransition` in its own transaction) and `Revert`, the compensation, which needs a live
context. `StartReject`/`WriteRejection` are Reject's unlocked read and its write; `MarkExpired`
is conditional on `pending`. `UserTransition` and `CreatePendingApproval` make approvals, in the
course of requests. `Crash` ends all handlers. `ChangeGrant` and `BecomeOverdue` are the environment.

**WorkflowEngine.** `Lookup` (state read without a lock, edge and permission), `Update` (row lock,
audit), `Post` (effects, stock lock), `Commit`, `Notify` for each instance of a single or bulk call;
`CreateInstance` is one step, nobody else sees its row. An event carries the call it comes from: the instances
the call named, where each of them went, and the state that is announced, which is the last one's.

**Invoices.** Lines, payments, journal entries and audit rows carry the identity of the call that
wrote them. `met` (history) remembers which calls about the same invoice overlapped.

**Stock.** A cell is a product at a location. A document is a sequence of lines, which may name a cell more than
once, as `bom_lines` and `cycle_count_lines` may. Its calls lock the document, then adjust the levels of its lines one
by one and in any order (`AdjustStockTx`), then commit the rest; `held` and `log` are what the transaction has made of
the levels and the movements it has written. Closing a count with adjustment lists the lines that
differ (`ListLines`), locks them and drops those that no longer differ (`LockLines`).

**RuleCascade.** `stack[c]` is the call stack of a request in `EvaluateRules`: per frame the rules still to
be looked at as they were listed, the action that is next, and (history) what was enabled since the commit
that made it look. A rule's transition pushes a frame; the deadline unwinds all of them.
**Conditions** is the condition tree of a rule: a state is a tree, and its steps grow it, so TLC meets every
tree up to `Depth` over the leaf tests. A tree is the sequence of its nodes, children first, as a decoder of the JSON
would finish them; a logic node names its children by their places, and `Evaluate` asks for their verdicts as the code
recurses into them. Comparing two arrays has an outcome of its own, `"panics"`.

**RuleScheduler.** `later`/`due` are the pending runs whose time has not yet / has come, `batch` what
the poller has listed. An owner's patch is a read and a write of all columns in two steps.
**Timers** has the two loops that only look at the clock. Scheduled reports have the same loop without a limit;
`faulty` reports fail whenever they run, and a
report with recipients that are no users fails when its run is recorded. Reminders have a clock: a
day has `Parts` parts, midnight makes `today` into `before` for the transaction that is open, and the ticker
starts anew with the server. The loops of assets and contracts are the same code, and one model.

**EdgeAgents.** An agent may have any number of tokens. Calls with one token exclude each other by the lock on its row;
calls with two do not. A poll is a read and a later commit; `acker` (history) is the token a command was last
acknowledged with. The stream holds messages until they are acknowledged. Heartbeats are requests only (`SetupApi`). **PermissionFeed** follows a change of
grants through commit, publication, a one-place channel per stream, the browser's fetch, which reads the
grants, and the answer, which comes later, or after that of a younger fetch; `tangled` (history) says that fetches
overlapped or one failed.

**Metrics.** Buffer, detached batches, the flush loop and `main`'s phases. **Webhooks**: operation, commit,
lookup, deliveries with one retry, the log. **Membership**: `Accept` with the invite's row lock and the key
share lock on the role, deletion with its cascades. **Absences**: the request, its instance and its approval, each
transaction one step, answered through the absence or through the inbox. **Payroll**: closing under the
period's lock, entry calls beside it. **Orders**: numbering and status changes of two kinds of order and of
opportunities. **SingleActive**: activation as two statements with row locks, a row looked at again after a
wait; bills of material, budgets and AI configurations are instances of it. **Ledger**: posting line by
line with rates that change in between, and the balance sheet's five reads; amounts count ten-thousandths and
conversion rounds. **InboundSync**: pulls with lookup and creation apart, creations by hand in between, deletions, and
edits of a customer's e-mail, the only thing a pull knows it by.

## What is checked

Runs that must hold:

- `approvals`: two handlers, two approvals, a workflow in which review proposes to publish, with
  cancelled requests, crashes, expiry and permissions that come and go. The proposal runs at most once
  (`AtMostOnce`); an executed or expired approval stays out of reach (`ExecutedStaysResolved`,
  `ExpiredIsInert`); one claim at a time (`ClaimIsExclusive`); and every step is a step of `ApprovalPromise`
  (`KeepsPromise`).
- `engine`: two sessions, single and bulk calls over two instances and one unit of stock. Documents and
  stock are exactly what the committed transitions call for (`EffectsInSync`), bulk calls are all or nothing
  (`AllOrNothing`), events are of transitions that are committed, and name the state the call has taken the instance to,
  or, those of a bulk call, its last one (`EventsTruthful`; what is wrong with the latter is `engine_bulk`).
- `api`: every route. What is refused is answered as a refusal with the reason the error writer has for it, and no
  caller is blamed for a failure of the server (`ReasonsReachTheCaller`); a refusal has changed and announced
  nothing (`RefusalsLeaveNothing`); every committed change was allowed by a check in the same transaction and
  audited in it (`ChangesAreAccountable`). Each has named exceptions, see below.
- `invoices`: three calls of any kind, two at a time, any statement failing. Numbering without gaps, payments that
  are whole, bulk updates all or nothing, true events – always (`WholeOrNothing`). Totals, single closing,
  cash backed by payments (`QuietInvoicesAddUp`), closing by a covering payment and the status machine
  (`StatusFollowsPayments`) for invoices whose relevant calls did not overlap (`Apart`), because the code does not
  give more; which calls these are is part of each property.
- `stock`: any number of calls, two at a time, about a transfer, an order and a count over the same levels; the count
  has two lines for one cell. Levels
  are the sum of movements (`StockIsMovements`); each document has moved and posted exactly what its status says
  (`DocumentsTellTheTruth`); completed and cancelled are final, and a count corrects without undoing what moved
  while it was open (`CompletionsStand`), in every cell but those two of its lines have been adjusted of.
- `background`: a claimed approval is executed or put back (`ClaimSettles`); a rule never has two runs ahead
  and no restart loses its schedule (`OneRunAhead`), due runs are served though more are due than a batch holds, and a
  disabled rule falls silent (`ScheduleServed`); cascades end and what was switched off does not act
  (`CascadesKeepBounds`); an acknowledged command goes back only by a poll of another token that had read it before,
  and published events arrive (`AgentsAreServed`); screens have in the end fetched the grants there are, and show them
  unless their last fetches overlapped or failed (`ScreensCatchUp`); reports that are due move on, and owners are reminded
  once a day, of everything unless their own firm's transaction failed (`TimersServe`).
- `services`: condition verdicts never rest on what could not be evaluated (`VerdictsAreSound`); a metric is in one
  place and not lost before shutdown (`EachMetricOnce`); webhooks hear only of what was committed (`OnlyTrueNews`); a
  closed period is posted once with what its entries say (`ClosedBooksMatch`); an absence's answer is backed by its
  workflow (`AnswerIsBacked`); a balance sheet nothing was committed under balances (`QuietSheetBalances`); pulls create
  one entity per key, unless an owner has given the customer they created another e-mail (`OnePerKey`); an invite lets one person in (`OneJoinsPerInvite`); orders are numbered without
  gaps, closed deals stay closed, and orders unless two of their updates raced (`OrdersInOrder`); activation leaves no gap (`NoGap`).

Runs that show the code departing from its own documentation (each checks one property, and TLC finds the
counterexample):

- `approvals_effect`: a failed execution does not always leave the approval pending. `Approve` reverts
  its claim on the request's context and drops the error (`approvals.go:428` against `:375`).
- `engine_graph`: two transitions of one instance both read its state, and the second overwrites the
  first (`engine.go:1294`, `:1366` against `:1204`).
- `engine_bulk`: a bulk call announces, and answers, one state for all of its instances, though its action takes
  them to different ones (`bulk_transition.go:140`, `:155-160` against "necessarily the same key", `:38-41`).
- `invoices_once`: two payments in full close an invoice twice (`payments.go:157` against
  `docs/DEVELOPMENT.md:1016`).
- `single_active` (the instance of `services`): two versions activated at once are both active (`bom.go:106` against
  `docs/DEVELOPMENT.md:1185` and `migrations/0027_manufacturing_core.up.sql:16-17`).

### The exceptions the request properties name

They are part of the result: TLC shows that the list is long enough, and each entry is a place where the
code does not give the property.

- `Unnamed(pkg)`: errors that another package declares and the route's error writer does not know, so that callers get
  500 "internal error" for something they could correct: posting errors through `asset`, `payroll`, `invoicing`,
  `consolidation`, `manufacturing`, `warehouse`, `workflow`, `absence`; stock errors through the latter
  ones; rates, tax rates, encryption keys, imports. A transfer that lacks stock is one of them (`warehouse/handlers.go:61`),
  where the web client expects a 400 with the reason (`warehouse/transfers/[firmId]/[transferId]/complete/route.ts:16-18`).
- `Misblamed`: `handleRoleInFirm` answers every failure with 403 and `handleAnswerNode` every failure of
  `CreateDefaultFirm` with 400, a database failure included.
- `Stepwise`: handlers that commit before they may still refuse: the absence and approval answers (several
  transactions by design) and the two renderings.
- `Personal`, `ByMembers`, `Consequences`, `Founding`: data whose changes need no owner and no permission:
  one's own account, what any member may add, what follows from a checked change, and the two requests that make a
  member of somebody who was none.
- `Unaudited`: tables no audit entry is about.

### Observed in the models, without a run

- `reports.RunReport` (`reports/definitions.go:209`, `:240-252`) writes its 'failed' row into the transaction its error
  then rolls back.
- `resolveCaller` of some packages answers a malformed firm id with 500 (`LooseCaller`); the error of masking a
  connector's answer in `UpdateConnector` can follow its commit.
- A count may be recorded in a session that is completed meanwhile: `RecordCount` reads the session's status
  without a lock (`cyclecounts.go:293` against `:266`).
- A customer whose e-mail is padded with white space is looked up as it is and stored trimmed, so every pull
  creates it anew (`inbound.go:420`, `:497` against `crm/customers.go:182`); `OnePerKey` excepts such keys.
- A pulled customer is found by its e-mail alone (`inbound.go:420`, `:497`), which an owner may change
  (`crm/customers.go:223-233`, `:279-291`): the next pull creates the customer again. `OnePerKey` counts the entities
  that still have the key they were created with.
- A count with two lines of one cell, which nothing prevents (`cyclecounts.go:137-160`,
  `migrations/0028_warehouse_management.up.sql:168-178`), adds both variances when it is closed.
- A condition that compares two arrays, or two objects, panics (`rules.go:507`), where the comment says such values are
  "simply never equal" (`rules.go:499-500`); the panic ends the request.
- Two events make a screen fetch twice, and it shows the answer that comes last (`AuditModeClient.tsx:111-113`), which
  may be the older one.
- A report with a recipient that is no user runs at every tick (`scheduledreports/scheduler.go:163`).
- As many messages with an unstorable payload as a fetch returns keep all others from being fetched
  (`edgeagent/nats.go:241`); with two valid tokens of one agent (`tokens.go:81-134`) an acknowledgement made with one can
  be undone by a poll with the other (`commands.go:226`).
- The unlocked-read shape: two overlapping line edits leave a total that is not the sum (`invoices.go:478`); two
  overlapping partial payments leave a covered invoice open (`payments.go:150`); a status update overwrites `paid`
  (`invoices.go:860`); a rejection overwrites an executed approval (`approvals.go:468`); a rule's patch writes back
  stale columns (`rules.go:1131`); entry calls that overlap a closing change what was posted; overlapping updates
  reopen a cancelled order. The conditions in the properties (`Apart`, `crossed`, `raced`) are where they show.

### Bounds

Two concurrent transactions are enough for every lost update, stale read and two-party deadlock the code can
have; a third one only repeats the pattern (`invoices` allows a third call after one has ended; absences and
memberships have three actors, since three different operations meet there). Two invoices, instances or rules are
needed for bulk calls, opposite lock orders and numbering. Amounts and levels are 0 to 2: enough for too little,
just enough and too much. A `Cap`, `Batch` or `MaxBuffer` is the code's limit made small enough to be met. A day of
two parts is enough for a poll that begins before and ends after midnight. Named bounds on what would not end by
itself: `MaxAudit` (engine), `MaxOpen` and the set `Txns` (invoices), `Runs`, `Faults` (scheduler), `MaxDepth`
(cascade: the innermost frames, the only ones kept), `Troubles` (edge), `MaxChanges` (feed), `Restarts` (reports), `Mishaps` (reminders), `Depth`
(conditions), `Pulls`, `Stops`, `Edits` (inbound), `Entries` (ledger). `api` has none: a request ends. Symmetry is
used over handlers, sessions and transactions, never in a run with a liveness property. Deadlock checking is off
where calls are finite or requests need not come.

### Fairness

Safety runs assume none. `background` assumes, for the service that is explored:

- the handlers of approvals and the requests that evaluate rules run when they can, and a request's deadline comes (the Go
  scheduler, `RequestTimeout`); neither cancellation nor crashes, under which `ClaimSettles` is false
  (`approvals_effect` is the reason);
- the tickers go on: scheduler and report polls are weakly fair, the runs of a rule become due; the edge
  subscriber is strongly fair, since outages and restarts, bounded by `Troubles`, disable it for a while;
- an agent's poll that has begun ends; a grant that was committed is published, an open stream forwards and a
  browser handles its events, and every fetch is answered or fails (weak fairness).

Requests need not arrive, owners need not act, approvals need not expire. Reminders need no fairness: what they owe is stated
from one midnight to the next.

## What is proved

Every property of a passing run is a theorem too, for all values of the constants, but for the liveness properties, of
which the safety halves are. The theorems rest on the ASSUMEs of the modules, which TLC evaluates in every run, and on
nothing else but, in those of `HttpProofs`, that the
handlers can be annotated, which TLC evaluates for the real ones.

The library's induction theorems and its theorems about recursive functions take an operator as a parameter, which no
installed prover can instantiate. `SumLemmas` therefore solves the recursion that `SumFunctionOnSet` chooses by
induction over a *set* of numbers (`NatSet`, from the well-foundedness of `<`), and gives what the proofs need: a sum
is an integer, takes its elements off in any order, changes with one value by the difference, is that of its parts over
an interval, is kept by a renaming of the indices and adds up with another. `BackgroundProofs` does the same for the
scheduler's `Without`, and `ServicesProofs` for `Evaluate`.

An invariant seldom is inductive. What had to be added to each, and why:

- **`ApprovalsProofs`** (any approvals, users, handlers, instances, transition graph and rules; from: edges are well
  formed and unique per state and action – the database's `UNIQUE` constraint –, rules name actions, `None` is
  nobody). `IInv` adds that a handler past its first read works on a row that exists and that nothing was executed for
  a row that does not. `AtMostOnce` is not inductive without `ClaimIsExclusive`: a row's status cannot be what
  excludes a second execution, since `Reject` can overwrite it; the claim takes the row out of `pending` for good,
  unless the only claimer gives it back unexecuted. `ExpiredForGood` follows step by step from the same invariant.
  `Refinement`: a claimed approval maps to `open` (its fate is not sealed), and `ClaimIsExclusive` shows that giving up
  a claim seals it once.
- **`EngineProofs`** (any workflow, any instances, any lists of them in a bulk call, repetitions included; from: the
  edges, the initial state and the effects are well formed). `EngineInv` says of each session what it has
  written – one entry for each place of the list it has passed – and posted (`SessionsOk`), that the stock it changes is
  locked by it and stays above zero (`LocksOk`), and that what it will announce is in the log (`NewsOk`). A commit then
  adds to documents and stock what it adds to the log: `EffectsFollowTransitions` is a sum over the log.
- **`StockProofs`** (any documents, lines, cells and number of transactions, cells repeated in a document included). `StockInv`: what a transaction has locked is as
  it saw it (`LocksOK`); its log and its todo together are the plan of its call (`Plans`); the levels it holds are the
  committed ones plus its log (`MovesOK`); two transactions share no row (`Apart`). `DocumentsHold` and
  `CompletionsHold` follow since a commit finds the document in the status its call read under the lock.
- **`HttpProofs`** (any routes whose handlers can be annotated, any step failing, any panic, any deadline). The
  properties of requests are about what a handler does *in order*: a check before the change, the audit entry in the
  same transaction, no refusal after a commit. So the proof is that of a program: `Inv` says that a request which is being
  served is as the note of its step says – the transaction is open or not, at least these checks have passed in it and
  at most those, it has been audited, it may have written these tables; the `Try` steps it is inside of, each with what
  it put aside; what may have been changed for good and told. A step that goes on hands its note on (`Moves`, `Lands`); a
  step that fails does so to the innermost `Try` that catches it, with the transaction that was put aside there, or
  to the caller (`Fails`). `Noted` asks that a note is never stronger than what the steps before hand on
  (`Weaker`), that a commit has been checked and audited (`CommitsWell`), and that a failure that reaches the caller has
  a status and has left nothing (`AnsweredWell`). A caller who has passed a check passes it again
  (`RoleFits`), without which the second check of many handlers would be a refusal after a commit. That the notes
  fit is a finite question about each handler; that they are enough is the theorem. `TransactionsAreAlwaysFlat` is a
  consequence no run states: nothing is written outside of a transaction, none begins inside of another, none is left open.
- **`InvoicesProofs`** (any invoices, calls, transactions). `InvoicesInv` holds whatever overlaps: what a transaction
  has written, by the kind of its call and the statement it is at, no row held twice, and what is true of the
  committed tables. `WholeOrNothing` follows from it. `QuietInv` adds, for the invoices about which no two calls have
  overlapped (`Apart`), that what a transaction has read is still so: the total it computed is that of the lines, the
  payments it summed are all there are. A step of another transaction either leaves the invoice alone or takes it out
  of `Apart`; that is the whole argument, and the lemmas `...Quiet` carry it through every statement.
- **`BackgroundProofs`**. Scheduler: every pending run belongs to a rule that exists, what the batch holds that is still
  of use is due, and a rule that is steadily enabled has a run queued (`SchedulerInv`). Cascades: a frame acts only for
  rules that were enabled and autonomous since the commit it looks at (`CascadeInv`), whence `SwitchedOffStaysStill`
  at any depth. Reminders: what was due all day and whose firm has had no failure is accounted for – told, still to
  come, or the ticker has not fired yet (`RemindersInv`) –, whence once a day and not less because of another firm. Edge
  agents: a command that was acknowledged goes back only by a poll of another token (`EdgeInv`: a poll holds
  its token's row, so what it has read is acknowledged meanwhile with other tokens only), for any number of tokens. Feed and reports: their
  types. The last section joins the components of `MCBackground`: only the chosen service moves (`BackgroundHolds`,
  `BackgroundSteps`).
- **`ServicesProofs`**, one invariant per service. Webhooks: the stage of a delivery says how often its endpoint can have
  heard of it, and that it is news. Pulls: what a pull did not find nobody has pulled meanwhile, so that
  an entity that keeps its e-mail is created once. Orders: a number
  is claimed by one transaction at a time, a status that was checked has not changed unless updates raced. Metrics: a
  record is in the buffer, in one batch or written, and lost only if a write failed. Invites: the row lock keeps the
  invite pending from the check to the change, for one call at a time. Absences: a call that is about to show an answer
  has taken its transition. Payroll: a close holds its period open, and what it has summed up is still so unless
  an entry call was under way. Versions: what a transaction switches off besides its own row are rivals that give way to
  it. Ledger: every committed entry sums to zero, so the totals by type of account do, and those of a sheet that nothing
  was committed under are the ledger's. Conditions: the children of every node come before it
  (`ConditionsInv`), so the verdicts can be found node by node (`JudgesExists`) and compared with the values node by node,
  for trees of any depth: a validated node is never malformed (`TreeStaysValid`), and a definite verdict is the node's value
  whatever its unevaluated leaves are taken for (`TreeIsSound`). The last section joins the ten services of `MCServices`
  (`ServicesHold`, `ServicesSteps`).

TLC checked the large invariants (those of the engine, stock, invoices, requests, scheduler and reminders) on the
instances of the runs before they were proved – that of the requests over all 272 routes, which takes too long to
be a run of its own –; the smaller ones went to the prover at once.

Only model-checked:

- liveness, which the provers do not reach: `ClaimSettles`, `ScheduleServed`, `ScreensCatchUp`, and the eventual halves of
  `CascadesKeepBounds`, `AgentsAreServed` and `TimersServe`; the safety halves are `SwitchedOffStaysStill`,
  `AcknowledgementsStay` and `RemindersServe`;
- `HandlersAreAnnotated`, a closed formula about the table of routes: TLC computes it.

## What is not modelled

- Several server processes: with two, the schedulers list the same due runs twice.
- The outcome of a commit whose answer is lost, in the component models (`HttpRequests` has it): there a transaction
  either commits or rolls back, and the caller knows.
- Decimals: amounts and quantities are small integers (except in `Ledger`), tax is part of a line's amount, and
  rounding of quantities to four digits is left out (a component need that rounds to zero can never be issued,
  `production.go:458`).
- Row-level security and the separation of firms: one firm at a time. A check of the caller is that of the firm the
  request names.
- The values of records, and reads: of what a request returns only the status is modelled.
- Parts of modelled components: the rate limiter's counters, configuration and migrations, how a token or an API key is
  verified, signing of webhooks, the loops that look for anomalies and compare metrics with alert rules (they read
  stored rows and add one, without state of their own), prompts and providers, file formats.
- `workflow/spec.go` and its neighbours (validation of a definition's text), telemetry and health probes, the licence
  verdict: functions of their input, or values nothing else depends on. The web client beyond Audit Mode.

## What could come next

1. The abstract side of `Stock` and `Invoices`: the levels as one counter, an invoice as a document with a balance, and the
   detailed specifications shown to implement them.
2. Components that are requests only so far and have rules of their own: the limiter's counters, accounts and budgets in
   `reports/kpi.go`, the built-in specifications.
