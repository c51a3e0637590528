------------------------------- MODULE MCBackground -------------------------------
(* What goes on in the background of one server, or must come to an end there: approvals,   *)
(* rule cascades, the rule scheduler, scheduled reports, daily reminders, edge agents and    *)
(* Audit Mode's feed, each on a small instance of its own. They hand each other work only    *)
(* through ExecuteTransition, which each of them models as far as it depends on it, so        *)
(* `service` names the one that takes the steps of a behaviour, and the behaviours of this   *)
(* module are those of every one of them.                                                    *)
EXTENDS RuleCascade, RuleScheduler, EdgeAgents, PermissionFeed, Timers, TLC

CONSTANTS a, b, go, back, r1, r2, f1, f2, i1, i2

\* Two rules that can set each other off: one goes round in state b and marks the instance,
\* the other answers every creation by moving on.
MCSteps ==
    { [from |-> a, action |-> go,   to |-> b],
      [from |-> b, action |-> back, to |-> a],
      [from |-> b, action |-> go,   to |-> b] }
MCRuleSeq == <<r1, r2>>
MCShape ==
    (r1 :> [trigger |-> "on_transition", when |-> "unmarked", acts |-> <<go, "set_field">>]) @@
    (r2 :> [trigger |-> "on_create", when |-> "always", acts |-> <<go>>])

\* Two rules whose runs come due at once and a poller that takes one per tick;
\* an owner switches them on and off.
MCPatches == [{"enabled"} -> BOOLEAN]

VARIABLE service

\* Reminders: an item of each of two firms.
MCFirmOf == (i1 :> f1) @@ (i2 :> f2)

\* Approvals: one document that entering review proposes to publish, and two handlers.
VARIABLES docState, docGrants, docStatus, docAbout, docOverdue, docInbox, docExecuted,
          docPc, docCaller, docTarget, docTodo, docLive
docVars == <<docState, docGrants, docStatus, docAbout, docOverdue, docInbox, docExecuted,
             docPc, docCaller, docTarget, docTodo, docLive>>

DocEdge(from, action, to, perm) == [from |-> from, action |-> action, to |-> to, perm |-> perm]

Docs == INSTANCE Approvals WITH
    Approvals <- {"a1"}, Users <- {"ann"}, Perms <- {"edit", "decide"}, Instances <- {"doc"},
    States <- {"draft", "review", "published"}, Actions <- {"submit", "publish", "sendback"},
    Initial <- "draft", Rules <- {"publish"}, Handlers <- {"h1", "h2"}, None <- None,
    Edges <- { DocEdge("draft", "submit", "review", "edit"),
               DocEdge("review", "publish", "published", "decide"),
               DocEdge("review", "sendback", "draft", "edit"),
               DocEdge("published", "sendback", "draft", "edit") },
    Cancellable <- FALSE, Crashable <- FALSE,
    state <- docState, grants <- docGrants, status <- docStatus, about <- docAbout,
    overdue <- docOverdue, inbox <- docInbox, executed <- docExecuted, pc <- docPc,
    caller <- docCaller, target <- docTarget, todo <- docTodo, live <- docLive

\* The absence of a user, or of an approval, is neither.
ASSUME DocsAssumption == None \notin {"a1", "ann"}

\* A service that is not explored has one initial state.
BackgroundInit ==
    /\ service \in {"approvals", "cascade", "edge", "feed", "reminders", "reports", "scheduler"}
    /\ Docs!Init /\ CascadeInit /\ EdgeInit /\ FeedInit /\ ReportsInit /\ SchedulerInit
    /\ RemindersInit
    /\ service # "reports" => faulty = {}
    /\ service # "reminders" => interval = 1

Still(name, unchanged) == IF service = name THEN TRUE ELSE unchanged

BackgroundNext ==
    /\ \/ service = "approvals" /\ Docs!Next
       \/ service = "cascade" /\ CascadeNext
       \/ service = "edge" /\ EdgeNext
       \/ service = "feed" /\ FeedNext
       \/ service = "reminders" /\ RemindersStep
       \/ service = "reports" /\ ReportsStep
       \/ service = "scheduler" /\ SchedulerNext
    /\ UNCHANGED service
    /\ Still("approvals", UNCHANGED docVars) /\ Still("cascade", UNCHANGED cascadeVars)
    /\ Still("edge", UNCHANGED edgeVars) /\ Still("feed", UNCHANGED feedVars)
    /\ Still("reminders", UNCHANGED reminderVars)
    /\ Still("reports", UNCHANGED reportVars) /\ Still("scheduler", UNCHANGED schedulerVars)

\* The service that is explored is as fair as its module says (CascadeFairness, EdgeFairness,
\* FeedFairness, ReportsFairness, SchedulerFairness), the handlers as in Approvals.
BackgroundSpec ==
    /\ BackgroundInit
    /\ [][BackgroundNext]_<<service, docVars, cascadeVars, edgeVars, feedVars, reminderVars, reportVars,
                          schedulerVars>>
    /\ \A h \in {"h1", "h2"} : WF_docVars(service = "approvals" /\ Docs!Step(h))
    /\ \A c \in Callers :
        /\ WF_cascadeVars(service = "cascade" /\ Evaluation(c))
        /\ WF_cascadeVars(service = "cascade" /\ Expire(c))
    /\ SF_edgeVars(service = "edge" /\ Subscriber)
    /\ \A p \in Polls : WF_edgeVars(service = "edge" /\ (PollCommit(p) \/ PollAborts(p)))
    /\ \A o \in Granters : WF_feedVars(service = "feed" /\ owner[o] = "committed" /\ ChangeGrants(o))
    /\ \A s \in Screens :
        /\ WF_feedVars(service = "feed" /\ Forward(s))
        /\ WF_feedVars(service = "feed" /\ Refetch(s))
        /\ WF_feedVars(service = "feed" /\ Answers(s))
    /\ WF_reportVars(service = "reports" /\ PollReports)
    /\ WF_schedulerVars(service = "scheduler" /\ Poll)
    /\ \A n \in Runs : WF_schedulerVars(service = "scheduler" /\ BecomeDue(n))

\* Every variable of every service has its type.
BackgroundTypeOK ==
    Docs!TypeOK /\ CascadeTypeOK /\ EdgeTypeOK /\ FeedTypeOK /\ RemindersTypeOK
    /\ ReportsTypeOK /\ SchedulerTypeOK

\* A report that is due is run and moved on (ReportsMoveOn), and owners are reminded once a day
\* of what comes due (OwnersAreReminded), whatever fails for other reports and firms.
TimersServe == ReportsMoveOn /\ OwnersAreReminded

\* An approval that was claimed does not stay claimed without its transition: the handler
\* executes it, or puts it back (approvals.go:424-434).
ClaimSettles == Docs!ClaimSettles
================================================================================
