---------------------------- MODULE HttpRequests ----------------------------
(***************************************************************************)
(* One request through the server: the middleware of Chain, the handler of *)
(* the route it asked for, and the services the handler calls, step by     *)
(* step, with every database failure, deadline and panic that can fall     *)
(* between two steps.  The routes are the area modules' (AccountApi ...    *)
(* SetupApi); a step's meaning is given here.                              *)
(*                                                                         *)
(* The caller is a stranger to the firm, a member or an owner.  Nothing in *)
(* the code ends a membership, so the role holds for the whole request.    *)
(*                                                                         *)
(* What a property says of the tables a request writes it says of each of  *)
(* them, or of all: the tables looked at are chosen with the request, and  *)
(* no other writes are recorded.                                           *)
(***************************************************************************)
EXTENDS HttpSteps, FiniteSets, FiniteSetsExt

CONSTANT Api    \* the handler of every route: its steps, its error writer, its answer

StepKinds == {"input", "may", "refuse", "member", "owner", "holds", "mine", "vouched", "begin",
              "commit", "put", "audit", "read", "tell", "skip", "goto", "try", "guard", "done",
              "raise"}

\* Handlers are written in the vocabulary of HttpSteps, and jump forward inside of themselves.
ASSUME ApiAssumption ==
  \A r \in DOMAIN Api :
    /\ Api[r].open \in BOOLEAN
    /\ Api[r].ok \in 200..399
    /\ \A e \in DOMAIN Api[r].answers : Api[r].answers[e] \in 400..599
    /\ \A i \in 1..Len(Api[r].steps) :
         LET step == Api[r].steps[i]
         IN /\ step.kind \in StepKinds
            /\ step.n \in Nat
            /\ step.kind \in {"skip", "goto", "try", "guard"} =>
                 step.n > 0 /\ i + step.n <= Len(Api[r].steps) + 1

VARIABLES
  route,      \* what the request asks for, <<package, name of the handler>>
  handler,    \* the middleware and the handler that serve it
  role,       \* what the caller is in the firm
  watched,    \* the tables whose writes are recorded
  pc,         \* the step it is at, 0 before there is a request
  tx,         \* the transaction it has open
  passed,     \* the checks of its caller that have passed so far
  frames,     \* the Try steps it is inside of
  kept,       \* the failure a cleanup will return
  committed,  \* how the watched tables were changed for good
  told,       \* subscribers have been told of the change
  late,       \* its context has ended
  failure,    \* what it failed with
  answer      \* the status it was answered with, 0 before it was

vars == <<route, handler, role, watched, pc, tx, passed, frames, kept, committed, told, late,
          failure, answer>>

Roles == {"stranger", "member", "owner"}
NoRoute == <<"", "">>
None == <<"", "">>
Closed == [open |-> FALSE, wrote |-> FALSE, checks |-> {}, traced |-> FALSE]

----------------------------------------------------------------------------
(* The middleware every request passes before its handler. *)

rateLimit == Bad({"rate limit"}, 429)
auth == Bad({"bearer token"}, 401)
Chain(h) == [h EXCEPT !.steps = rateLimit \o (IF h.open THEN Nothing ELSE auth) \o @]
NoHandler == Handler(Nothing, NoAnswers, 200)

TablesOf(h) ==
  UNION {h.steps[i].on : i \in {j \in DOMAIN h.steps : h.steps[j].kind = "put"}}
\* The account of the caller and its setup checklist are nobody's business data.
Bookkeeping == {"users", "user_onboarding_progress"}
Business(h) == TablesOf(h) \ Bookkeeping

Here == handler.steps[pc]
Served == pc # 0 /\ answer = 0
At(kinds) == Served /\ pc <= Len(handler.steps) /\ Here.kind \in kinds

Database == {"begin", "commit", "put", "audit", "read", "member", "owner", "holds", "mine"}

----------------------------------------------------------------------------
(* How a step ends: the next one, or a failure that some Try catches or    *)
(* that is the handler's answer.  The deferred Rollback closes what is     *)
(* open, a savepoint restores what was done before it.                     *)

Onward == pc' = pc + 1

\* Past the last step of the handler.
Done == Len(handler.steps) + 1

\* Mutant: what is not named is taken for the caller's mistake.
BlameTheCaller(e) == IF e \in DOMAIN handler.answers THEN handler.answers[e] ELSE 400

\* writeError: the status the route's package names for the error, or a 500.
writeError(e) == IF e \in DOMAIN handler.answers THEN handler.answers[e] ELSE 500

Catches(frame, e) == AnyFailure \in frame.on \/ e \in frame.on

Fail(e) ==
  LET catching == {i \in 1..Len(frames) : Catches(frames[i], e)}
  IN IF catching = {}
     THEN /\ answer' = writeError(e)
          /\ failure' = e
          /\ tx' = Closed /\ frames' = <<>>
          /\ pc' = Done
          /\ UNCHANGED kept
     ELSE LET i == Max(catching)
          IN /\ pc' = frames[i].to
             /\ tx' = frames[i].tx
             /\ kept' = IF frames[i].keep THEN e ELSE kept
             /\ frames' = SubSeq(frames, 1, i - 1)
             /\ UNCHANGED <<answer, failure>>

\* Work on a context that has ended only fails; what runs aside may have its own.
InTime == (late /\ Here.kind \in Database) => frames # <<>>

\* A step that does no more than let the request pass.
Pass == /\ InTime /\ Onward
        /\ UNCHANGED <<frames, kept, failure, answer>>

----------------------------------------------------------------------------
(* The steps. *)

Init ==
  /\ route = NoRoute /\ handler = NoHandler /\ role = "stranger" /\ watched = {} /\ pc = 0
  /\ tx = Closed /\ passed = {} /\ frames = <<>> /\ kept = None
  /\ committed = {} /\ told = FALSE /\ late = FALSE
  /\ failure = None /\ answer = 0

Arrive ==
  /\ pc = 0
  /\ \E r \in DOMAIN Api : route' = r /\ handler' = Chain(Api[r])
  /\ role' \in Roles
  /\ watched' \in {{t} : t \in TablesOf(handler')} \cup {Business(handler')}
  /\ pc' = 1
  /\ UNCHANGED <<tx, frames, kept, committed, told, late, failure, answer, passed>>

Input ==
  /\ At({"input"})
  /\ \/ Pass
     \/ /\ answer' = Here.n
        /\ failure' = <<"", "input">>
        /\ pc' = Done
        /\ UNCHANGED <<frames, kept>>
  /\ UNCHANGED <<route, handler, role, watched, tx, committed, told, late, passed>>

\* A validation or a lookup.
Validate ==
  /\ At({"may", "refuse"})
  /\ \/ Here.kind = "may" /\ Pass /\ UNCHANGED tx
     \/ \E e \in Here.on : Fail(e)
  /\ UNCHANGED <<route, handler, role, watched, committed, told, late, passed>>

\* Who passes the checks, and who is refused by them.
Passes(kind) == CASE kind = "member" -> role # "stranger"
                  [] kind = "owner" -> role = "owner"
                  [] kind \in {"holds", "mine"} -> role # "stranger"
                  [] kind = "vouched" -> TRUE
Refused(kind) == CASE kind = "member" -> role = "stranger"
                   [] kind \in {"owner", "mine"} -> role # "owner"
                   [] kind = "holds" -> TRUE
                   [] kind = "vouched" -> FALSE

\* Mutant: the answer of a check is not looked at.
CheckUnheeded ==
  /\ At({"member", "owner", "holds", "mine", "vouched"})
  /\ \/ Passes(Here.kind) /\ Pass /\ tx' = [tx EXCEPT !.checks = @ \cup {Here.kind}]
        /\ passed' = passed \cup {Here.kind}
     \/ Refused(Here.kind) /\ Pass /\ UNCHANGED <<tx, passed>>
  /\ UNCHANGED <<route, handler, role, watched, committed, told, late>>

Check ==
  /\ At({"member", "owner", "holds", "mine", "vouched"})
  /\ InTime
  /\ \/ Passes(Here.kind) /\ Pass /\ tx' = [tx EXCEPT !.checks = @ \cup {Here.kind}]
        /\ passed' = passed \cup {Here.kind}
     \/ Refused(Here.kind) /\ UNCHANGED passed /\ \E e \in Here.on : Fail(e)
  /\ UNCHANGED <<route, handler, role, watched, committed, told, late>>

Begin ==
  /\ At({"begin"})
  /\ ~tx.open
  /\ Pass
  /\ tx' = [Closed EXCEPT !.open = TRUE]
  /\ UNCHANGED <<route, handler, role, watched, committed, told, late, passed>>

\* Mutant: the statement runs on the pool, in a transaction of its own.
WriteOnThePool ==
  /\ At({"put", "audit"})
  /\ Pass
  /\ tx' = IF Here.kind = "audit" THEN [tx EXCEPT !.traced = TRUE] ELSE tx
  /\ committed' = IF Here.kind = "audit" \/ Here.on \cap watched = {} THEN committed
                  ELSE committed \cup {[checks |-> tx.checks, passed |-> passed, traced |-> TRUE]}
  /\ UNCHANGED <<route, handler, role, watched, told, late, passed>>

Write ==
  /\ At({"put", "audit"})
  /\ Pass
  /\ tx' = IF Here.kind = "audit" THEN [tx EXCEPT !.traced = TRUE]
           ELSE [tx EXCEPT !.wrote = @ \/ Here.on \cap watched # {}]
  /\ UNCHANGED <<route, handler, role, watched, committed, told, late, passed>>

\* What a commit leaves behind.
Kept == IF ~tx.wrote THEN committed
        ELSE committed \cup {[checks |-> tx.checks, passed |-> passed, traced |-> tx.traced]}

Commit ==
  /\ At({"commit"})
  /\ Pass
  /\ committed' = Kept
  /\ tx' = Closed
  /\ UNCHANGED <<route, handler, role, watched, told, late, passed>>

Read ==
  /\ At({"read"})
  /\ Pass
  /\ UNCHANGED <<route, handler, role, watched, tx, committed, told, late, passed>>

Announce ==
  /\ At({"tell"})
  /\ Pass
  /\ told' = TRUE
  /\ UNCHANGED <<route, handler, role, watched, tx, committed, late, passed>>

\* An if, an else, the end of a branch.
Branch ==
  /\ \/ At({"skip"}) /\ pc' \in {pc + 1, pc + Here.n}
     \/ At({"goto"}) /\ pc' = pc + Here.n
  /\ UNCHANGED <<route, handler, role, watched, tx, frames, kept, committed, told, late,
                 failure, answer, passed>>

Enter ==
  /\ At({"try", "guard"})
  /\ frames' = Append(frames, [on |-> Here.on, to |-> pc + Here.n, tx |-> tx,
                               keep |-> Here.kind = "guard"])
  /\ Onward
  /\ UNCHANGED <<route, handler, role, watched, tx, kept, committed, told, late, failure,
                 answer, passed>>

Leave ==
  /\ At({"done"})
  /\ frames' = SubSeq(frames, 1, Len(frames) - 1)
  /\ Onward
  /\ UNCHANGED <<route, handler, role, watched, tx, kept, committed, told, late, failure,
                 answer, passed>>

\* The cleanup is over; its failure is returned after all.
Raise ==
  /\ At({"raise"})
  /\ Fail(kept)
  /\ UNCHANGED <<route, handler, role, watched, committed, told, late, passed>>

----------------------------------------------------------------------------
(* What can go wrong at any step. *)

\* A statement fails, or its connection does.  The answer to a COMMIT may be
\* all that is lost.
Break ==
  /\ At(Database)
  /\ Fail(Fault)
  /\ committed' \in IF Here.kind = "commit" THEN {committed, Kept} ELSE {committed}
  /\ UNCHANGED <<route, handler, role, watched, told, late, passed>>

\* PanicRecovery: an answer all the same, after the deferred Rollback.
Panic ==
  /\ Served
  /\ answer' = 500
  /\ failure' = Fault
  /\ tx' = Closed /\ frames' = <<>>
  /\ pc' = Done
  /\ UNCHANGED <<route, handler, role, watched, kept, committed, told, late, passed>>

\* RequestTimeout, or the client going away.  The event stream has no timeout.
Timeless == {<<"permission", "handleEvents">>}
Deadline ==
  /\ Served /\ ~late
  /\ route \notin Timeless
  /\ late' = TRUE
  /\ UNCHANGED <<route, handler, role, watched, pc, tx, frames, kept, committed, told, failure,
                 answer, passed>>

----------------------------------------------------------------------------

Reply ==
  /\ Served /\ pc = Done
  /\ answer' = handler.ok
  /\ UNCHANGED <<route, handler, role, watched, pc, tx, frames, kept, committed, told, late,
                 failure, passed>>

Finish ==
  /\ answer # 0
  /\ route' = NoRoute /\ handler' = NoHandler /\ role' = "stranger" /\ watched' = {} /\ pc' = 0
  /\ tx' = Closed /\ passed' = {} /\ frames' = <<>> /\ kept' = None
  /\ committed' = {} /\ told' = FALSE /\ late' = FALSE
  /\ failure' = None /\ answer' = 0

Next ==
  \/ Arrive \/ Input \/ Validate \/ Check \/ Begin \/ Write \/ Commit \/ Read
  \/ Announce \/ Branch \/ Enter \/ Leave \/ Raise \/ Break \/ Panic \/ Deadline
  \/ Reply \/ Finish

Spec == Init /\ [][Next]_vars

----------------------------------------------------------------------------

(* What callers may rely on. *)

Refusals == 400..499
ByInput == <<"", "input">>

\* Errors of other packages that a service passes on.
PostingErrors ==
  {<<"accounting", e>> : e \in {"ErrAccountInactive", "ErrAccountNotFound",
                                "ErrInvalidJournalEntry", "ErrUnbalancedEntry"}}
    \cup {<<"currency", "ErrRateNotFound">>}
StockErrors ==
  {<<"inventory", e>> : e \in {"ErrInsufficientStock", "ErrInvalidStockAdjustment",
                               "ErrNoDefaultLocation"}}
DocumentErrors ==
  {<<"crm", "ErrInvalidCustomer">>, <<"localization", "ErrTaxRateNotFound">>,
   <<"invoicing", "ErrInvalidInvoice">>, <<"invoicing", "ErrInvalidInvoiceLine">>,
   <<"procurement", "ErrInvalidPurchaseOrder">>, <<"procurement", "ErrInvalidPurchaseOrderLine">>,
   <<"salesorders", "ErrInvalidSalesOrder">>, <<"salesorders", "ErrInvalidSalesOrderLine">>}
NoKey == {<<"ai", "ErrEncryptionKeyNotSet">>, <<"integration", "ErrEncryptionKeyNotSet">>}

\* The reasons the error writer of a package does not know: its callers get "internal error".
Unnamed(pkg) ==
  CASE pkg \in {"asset", "payroll"} -> PostingErrors
    [] pkg = "invoicing" -> PostingErrors \cup {<<"localization", "ErrTaxRateNotFound">>}
    [] pkg = "accounting" -> {<<"currency", "ErrRateNotFound">>}
    [] pkg = "consolidation" ->
         PostingErrors \cup {<<"accounting", "ErrAccountCodeExists">>,
                             <<"accounting", "ErrInvalidAccount">>}
    [] pkg \in {"manufacturing", "warehouse"} -> PostingErrors \cup StockErrors
    [] pkg = "workflow" ->
         PostingErrors \cup DocumentErrors \cup {<<"inventory", "ErrNoDefaultLocation">>}
    [] pkg = "absence" ->
         PostingErrors \cup StockErrors \cup DocumentErrors
           \cup {<<"workflow", e>> : e \in {"ErrApprovalExpired", "ErrApprovalNotFound",
                   "ErrApprovalNotPending", "ErrDefinitionNotFound", "ErrInstanceNotFound",
                   "ErrNoSuchTransition", "ErrPayloadValidation"}}
    [] pkg = "portability" ->
         {<<"accounting", "ErrInvalidAccount">>, <<"accounting", "ErrInvalidFilter">>,
          <<"inventory", "ErrInvalidProduct">>, <<"logistics", "ErrInvalidFilter">>,
          <<"workflow", "ErrInvalidRule">>, <<"workflow", "ErrInvalidSpec">>}
    [] pkg \in {"ai", "integration"} -> NoKey
    [] OTHER -> {}

\* Handlers that answer whatever goes wrong with a 4xx.
Misblamed == {<<"identity", "handleRoleInFirm">>, <<"wizard", "handleAnswerNode">>}

\* A refusal reaches the caller as one: through all the services a handler calls, what they
\* refuse is answered by the status its package's error writer has for it, apart from the errors
\* of Unnamed; and no caller is blamed for a failure of the server, apart from Misblamed.
ReasonsReachTheCaller ==
  answer # 0 =>
    /\ failure \in {None, Fault, ByInput} \cup DOMAIN handler.answers \cup Unnamed(route[1])
    /\ (answer \in Refusals /\ Fault \in {failure, kept}) => route \in Misblamed

\* Handlers that commit something before what they may still refuse.
Stepwise ==
  {<<"absence", "handleCreateAbsence">>, <<"absence", "handleApproveAbsence">>,
   <<"absence", "handleRejectAbsence">>, <<"workflow", "handleApproveApproval">>,
   <<"workflow", "handleRejectApproval">>, <<"documents", "handleRenderContract">>,
   <<"documents", "handleRenderInvoice">>}

\* A refused request has changed nothing and announced nothing, apart from the handlers that work
\* in several transactions (Stepwise) and the one that refuses for a COMMIT whose answer was lost;
\* and nothing is announced before it is committed (webhook.Dispatch after WithFirmContext).
RefusalsLeaveNothing ==
  /\ (answer \in Refusals /\ route \notin Stepwise \cup Misblamed) =>
       ~told /\ (watched \subseteq Business(handler) => committed = {})
  /\ (told /\ watched = Business(handler)) => committed # {}

\* What callers keep about themselves.
Personal == {"users", "user_onboarding_progress", "user_preferences"}
\* What every member of a firm may add to.
ByMembers == {"absences", "analytics_events", "document_templates", "notifications",
              "report_definitions", "saved_report_runs", "time_entries"}
\* What the server writes on its own account after a change that was checked.
Consequences == {"absences", "notifications", "pending_approvals", "workflow_instances",
                 "integration_connectors", "integration_sync_logs"}
\* A firm that has no members yet, and an invite, which is the permission.
Founding == {<<"wizard", "handleAnswerNode">>, <<"invite", "handleAccept">>}
ByAllowlist(h) == \E i \in DOMAIN h.steps : h.steps[i].on = {"allowlist"}

Vetted(t, change) ==
  \/ change.checks \cap {"owner", "holds", "vouched"} # {}
  \/ t \in ByMembers /\ change.checks # {}
  \/ t \in Consequences /\ change.passed # {}

\* What no entry of the audit log is about.
Unaudited ==
  Personal \cup
  {"addresses", "alert_rules", "analytics_events", "bom_lines", "cycle_count_lines",
   "document_templates", "exchange_rates", "firm_group_members", "firm_groups",
   "firm_notification_preferences", "firm_plugin_configs", "fiscal_country_configs",
   "integration_connectors", "integration_mappings", "integration_sync_logs",
   "notifications", "pending_approvals", "plugins", "report_definitions",
   "saved_report_runs", "scheduled_reports", "tax_rates"}

\* An agent's reports and what the server adds of its own are not audited either.
Traced(t, change) ==
  \/ change.traced
  \/ t \in Unaudited
  \/ change.checks = {"vouched"}
  \/ t \in Consequences /\ change.checks = {}

\* Every change of a firm's data has been allowed in the transaction that made it, "RLS scoping is
\* not a membership check" (docs/DEVELOPMENT.md:190): by the caller's role, by a token, or for
\* what the server adds of its own by a check that had passed before; and what is audited at all
\* is audited in that transaction, whichever service is called by whichever handler.
ChangesAreAccountable ==
  \A t \in watched : watched = {t} =>
    \A change \in committed :
      /\ Vetted(t, change) \/ t \in Personal \/ route \in Founding \/ ByAllowlist(handler)
      /\ Traced(t, change)

----------------------------------------------------------------------------
(* What a handler keeps to.  A handler is annotated with a note for each   *)
(* of its steps, of what has certainly and what has possibly happened by   *)
(* then.  A step hands on no more than the note of the next one says, and  *)
(* nothing is committed, told or answered on less than the properties      *)
(* above ask for.                                                          *)

\* Nothing has happened yet.
Unstarted ==
  [inside |-> <<>>,           \* the Try steps it is inside of
   tx |-> [open |-> FALSE,    \* a transaction is open;
           checks |-> {},     \* the checks that have passed in it,
           might |-> {},      \* and those that may have
           traced |-> FALSE,  \* it has been audited
           wrote |-> {},      \* the tables it may have written
           firm |-> FALSE],   \* it has written business data
   passed |-> {},             \* the checks that have passed
   kept |-> {None},           \* the failures that may be kept
   left |-> {},               \* the tables that may have been changed for good
   told |-> FALSE,            \* subscribers may have been told
   sure |-> FALSE]            \* business data has been changed for good

\* What m says holds wherever n does.
WeakerTx(x, y) ==
  /\ y.open = x.open /\ y.checks \subseteq x.checks /\ x.might \subseteq y.might
  /\ y.traced => x.traced
  /\ x.wrote \subseteq y.wrote
  /\ y.firm => x.firm
Weaker(n, m) ==
  /\ m.inside = n.inside /\ WeakerTx(n.tx, m.tx)
  /\ m.passed \subseteq n.passed /\ n.kept \subseteq m.kept /\ n.left \subseteq m.left
  /\ n.told => m.told
  /\ m.sure => n.sure

Checks == {"member", "owner", "holds", "mine", "vouched"}

\* What the step s of the handler h, at i, makes of a note if nothing goes wrong ...
AfterTx(h, s, x) ==
  LET check == {s.kind} \cap Checks
      tables == IF s.kind = "put" THEN s.on ELSE {}
  IN CASE s.kind = "begin" -> [Unstarted.tx EXCEPT !.open = TRUE]
       [] s.kind = "commit" -> Unstarted.tx
       [] OTHER -> [open |-> x.open, checks |-> x.checks \cup check, might |-> x.might \cup check,
                    traced |-> x.traced \/ s.kind = "audit", wrote |-> x.wrote \cup tables,
                    firm |-> x.firm \/ tables \cap Business(h) # {}]
Inside(s, i, n) ==
  CASE s.kind \in {"try", "guard"} -> Append(n.inside, i)
    [] s.kind = "done" -> SubSeq(n.inside, 1, Len(n.inside) - 1)
    [] OTHER -> n.inside
LeftBy(s, n) == IF s.kind = "commit" THEN n.left \cup n.tx.wrote ELSE n.left
After(h, s, i, n) ==
  [inside |-> Inside(s, i, n),
   tx |-> AfterTx(h, s, n.tx),
   passed |-> IF s.kind \in Checks THEN n.passed \cup {s.kind} ELSE n.passed,
   kept |-> n.kept,
   left |-> LeftBy(s, n),
   told |-> n.told \/ s.kind = "tell",
   sure |-> n.sure \/ (s.kind = "commit" /\ n.tx.firm)]
Targets(s, i) ==
  CASE s.kind = "goto" -> {i + s.n}
    [] s.kind = "skip" -> {i + 1, i + s.n}
    [] s.kind \in {"refuse", "raise"} -> {}
    [] OTHER -> {i + 1}

\* ... and what it may fail with: a caller who has passed a check passes it again.
Refusable(kind, checked) ==
  CASE kind = "member" -> checked \cap {"member", "owner", "holds", "mine"} = {}
    [] kind \in {"owner", "mine"} -> "owner" \notin checked
    [] kind \in {"holds", "may", "refuse"} -> TRUE
    [] OTHER -> FALSE
Failures(s, n) ==
  (IF s.kind \in Database THEN {Fault} ELSE {})
    \cup (IF Refusable(s.kind, n.passed) THEN s.on ELSE {})
    \cup (IF s.kind = "raise" THEN n.kept ELSE {})
\* A cleanup that is over fails with the one failure it kept.
KeptOn(s, n, e) == IF s.kind = "raise" THEN {e} ELSE n.kept
Catchers(h, n, e) ==
  {k \in 1..Len(n.inside) : Catches(h.steps[n.inside[k]], e)}
\* The Try step p, at the depth k, goes on from what was true when it was entered.
Caught(h, notes, s, n, e, p, k) ==
  [inside |-> SubSeq(n.inside, 1, k - 1), tx |-> notes[p].tx, passed |-> n.passed,
   kept |-> IF h.steps[p].kind = "guard" THEN {e} ELSE KeptOn(s, n, e),
   left |-> LeftBy(s, n), told |-> n.told, sure |-> n.sure]
HandedOnBy(h, notes, s, n, e) ==
  LET k == Max(Catchers(h, n, e))
      p == n.inside[k]
  IN <<p + h.steps[p].n, Caught(h, notes, s, n, e, p, k)>>

\* The steps that may come after the one at i, and what is true before them.
HandedOn(h, notes, i) ==
  LET s == h.steps[i]  n == notes[i] IN
  {<<j, After(h, s, i, n)>> : j \in Targets(s, i)}
    \cup {HandedOnBy(h, notes, s, n, e) :
            e \in {x \in Failures(s, n) : Catchers(h, n, x) # {}}}

\* A refusal blames no caller for a fault, and comes before anything is told or changed for good.
Justified(r, h, n, status, reasons, left) ==
  /\ status \in 400..599
  /\ status \in Refusals =>
       /\ Fault \in reasons => r \in Misblamed
       /\ r \notin Stepwise \cup Misblamed => ~n.told /\ left \cap Business(h) = {}
Known(r, h, e) == e \in {None, Fault, ByInput} \cup DOMAIN h.answers \cup Unnamed(r[1])
AnsweredWell(r, h, s, n, e) ==
  /\ Known(r, h, e)
  /\ Justified(r, h, n, IF e \in DOMAIN h.answers THEN h.answers[e] ELSE 500,
               {e} \cup KeptOn(s, n, e), LeftBy(s, n))
\* Whatever has passed in the transaction, what it changed is accounted for.
CommitsWell(r, h, n) ==
  \A t \in n.tx.wrote : \A c \in SUBSET n.tx.might :
    n.tx.checks \subseteq c =>
      /\ \/ Vetted(t, [checks |-> c, passed |-> n.passed, traced |-> n.tx.traced])
         \/ t \in Personal \/ r \in Founding \/ ByAllowlist(h)
      /\ Traced(t, [checks |-> c, passed |-> n.passed, traced |-> n.tx.traced])

WellStepped(r, h, notes, i) ==
  LET s == h.steps[i]  n == notes[i] IN
  /\ \A next \in HandedOn(h, notes, i) :
       next[1] \in 1..(Len(h.steps) + 1) /\ Weaker(next[2], notes[next[1]])
  /\ \A e \in Failures(s, n) : Catchers(h, n, e) = {} => AnsweredWell(r, h, s, n, e)
  /\ s.kind = "input" => ~n.tx.open /\ Justified(r, h, n, s.n, n.kept, n.left)
  /\ s.kind = "commit" => CommitsWell(r, h, n)
  /\ s.kind = "tell" => n.sure
  /\ s.kind = "begin" => ~n.tx.open
  /\ s.kind = "done" => n.inside # <<>>
  /\ s.kind \in {"put", "audit", "commit"} => n.tx.open
Noted(r, h, notes) ==
  /\ Len(h.steps) \in Nat /\ h.ok \in 200..399
  /\ Weaker(Unstarted, notes[1])
  /\ \A i \in 1..Len(h.steps) : WellStepped(r, h, notes, i)
  /\ ~notes[Len(h.steps) + 1].tx.open
Annotated(notes) == \A r \in DOMAIN Api : Noted(r, Chain(Api[r]), notes[r])
=============================================================================
