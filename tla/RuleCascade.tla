------------------------------ MODULE RuleCascade ------------------------------
(* What follows a transition: EvaluateRules (internal/workflow/rules.go) runs, after *)
(* the transition has committed and before its caller is answered, every enabled     *)
(* rule of the definition; a rule's own transition is an ExecuteTransition like any   *)
(* other and so evaluates the rules again, one frame deeper.                          *)
(*                                                                                    *)
(* One instance, moved by several requests at once, while an owner creates, patches   *)
(* and deletes rules.  Each database transaction is one step.                         *)
EXTENDS Naturals, Sequences, FiniteSets, SequencesExt

CONSTANTS
    Steps,      \* workflow_transitions: [from, action, to], self-loops among them
    Start,      \* initial_state
    RuleSeq,    \* identities of workflow_rules, in the order of created_at
    Shape,      \* a rule's [trigger, when, acts]: trigger, condition and actions
    Callers,    \* requests that create or move the instance
    Nothing,
    MaxDepth    \* bound: frames kept per request, the innermost ones

ASSUME DepthAssumption == MaxDepth \in Nat \ {0}

VARIABLES
    inst,       \* the instance: its state and the field that rules set and look at
    flags,      \* a rule's enabled and autonomous columns, Nothing if there is no rule
    stack,      \* a request's EvaluateRules calls, the innermost last
    expired     \* requests whose context is past its deadline

cascadeVars == <<inst, flags, stack, expired>>

CascadeRules == Range(RuleSeq)
Flags == [enabled : BOOLEAN, autonomous : BOOLEAN]
InStates == {Start} \cup {e.from : e \in Steps} \cup {e.to : e \in Steps}
Instance == [state : InStates, mark : BOOLEAN]

ASSUME NothingAssumption == Nothing \notin Instance \cup Flags
ASSUME ShapeAssumption ==
    /\ RuleSeq \in Seq(CascadeRules)
    /\ \A r \in CascadeRules :
        Shape[r].trigger \in {"on_create", "on_transition"} /\ Shape[r].acts \in Seq(Range(Shape[r].acts))

\* A call of EvaluateRules: the instance's mark as the triggering commit left it, the
\* rules still to look at, with their autonomous column as the listing read it, and the next
\* action of the first (0: its condition is still to be evaluated).  fit is history: the rules
\* that were enabled and autonomous at some moment since that commit.
Frame == [trigger : {"on_create", "on_transition"}, mark : BOOLEAN, listed : BOOLEAN,
          rules : UNION {[R -> BOOLEAN] : R \in SUBSET CascadeRules}, act : Nat,
          fit : SUBSET CascadeRules]
NoRules == [r \in {} |-> FALSE]

\* The one of them that was created first.
First(rules) == RuleSeq[CHOOSE k \in DOMAIN RuleSeq :
                            /\ RuleSeq[k] \in DOMAIN rules
                            /\ \A j \in DOMAIN RuleSeq : j < k => RuleSeq[j] \notin DOMAIN rules]

\* The types of the variables; a rule is looked at with no more than its own actions.
CascadeTypeOK ==
    /\ inst \in Instance \cup {Nothing}
    /\ flags \in [CascadeRules -> Flags \cup {Nothing}]
    /\ expired \subseteq Callers
    /\ stack \in [Callers -> Seq(Frame)]
    /\ \A c \in Callers :
        /\ Len(stack[c]) <= MaxDepth
        /\ \A k \in DOMAIN stack[c] : LET f == stack[c][k] IN
            f.act > 0 => DOMAIN f.rules # {} /\ f.act <= Len(Shape[First(f.rules)].acts) + 1

CascadeInit ==
    /\ inst = Nothing
    /\ flags = [r \in CascadeRules |-> Nothing]
    /\ stack = [c \in Callers |-> <<>>]
    /\ expired = {}

FitNow(f) == {r \in CascadeRules : f[r] # Nothing /\ f[r].enabled /\ f[r].autonomous}

--------------------------------------------------------------------------------
(* The owner.                                                                     *)

SetFlags(r, f) ==
    /\ flags' = [flags EXCEPT ![r] = f]
    /\ stack' = [c \in Callers |-> [k \in DOMAIN stack[c] |->
                    [stack[c][k] EXCEPT !.fit = @ \cup FitNow(flags')]]]
    /\ UNCHANGED <<inst, expired>>

\* checkObviousSelfReferentialLoop: looks at one edge per action, any one (LIMIT 1).
NotAnObviousLoop(r) ==
    Shape[r].trigger = "on_transition" =>
        \A k \in DOMAIN Shape[r].acts :
            LET edges == {e \in Steps : e.action = Shape[r].acts[k]} IN
            edges # {} => \E e \in edges : e.from # e.to

\* CreateRuleForFirm.
CreateCascadeRule(r) == flags[r] = Nothing /\ NotAnObviousLoop(r) /\ \E f \in Flags : SetFlags(r, f)

\* UpdateRuleForFirm, of the columns that matter here.
PatchCascadeRule(r) == flags[r] # Nothing /\ \E f \in Flags \ {flags[r]} : SetFlags(r, f)

\* DeleteRuleForFirm.
DeleteCascadeRule(r) == flags[r] # Nothing /\ SetFlags(r, Nothing)

--------------------------------------------------------------------------------
(* A request.                                                                     *)

\* The call that follows a commit.
Call(trigger, mark) ==
    [trigger |-> trigger, mark |-> mark, listed |-> FALSE, rules |-> NoRules, act |-> 0,
     fit |-> FitNow(flags)]

\* One frame deeper; beyond MaxDepth the outermost one is forgotten.
Deeper(s, f) == IF Len(s) < MaxDepth THEN Append(s, f) ELSE Append(Tail(s), f)

\* The call stack without its innermost call, or with that call changed.
Top(c) == Last(stack[c])
Replace(c, f) == stack' = [stack EXCEPT ![c] = Append(Front(@), f)]
NextRule(c) ==
    Replace(c, [Top(c) EXCEPT !.rules = Restrict(@, DOMAIN @ \ {First(@)}), !.act = 0])

\* A request that is inside no EvaluateRules.
Free(c) == stack[c] = <<>>

\* CreateInstance, and the evaluation that follows its commit.
CreateInstance(c) ==
    /\ Free(c) /\ inst = Nothing
    /\ inst' = [state |-> Start, mark |-> FALSE]
    /\ stack' = [stack EXCEPT ![c] = <<Call("on_create", FALSE)>>]
    /\ UNCHANGED <<flags, expired>>

\* ExecuteTransition: the edge, from the current state, of a user's or a rule's action.
Move(c, action) ==
    /\ inst # Nothing
    /\ \E e \in Steps :
        /\ e.action = action /\ e.from = inst.state
        /\ inst' = [inst EXCEPT !.state = e.to]

UserMoves(c) ==
    /\ Free(c)
    /\ \E action \in {e.action : e \in Steps} : Move(c, action)
    /\ stack' = [stack EXCEPT ![c] = <<Call("on_transition", inst.mark)>>]
    /\ UNCHANGED <<flags, expired>>

\* The enabled rules of the frame's trigger.
Listing(c) ==
    [r \in {r \in CascadeRules : /\ flags[r] # Nothing /\ flags[r].enabled
                                 /\ Shape[r].trigger = Top(c).trigger} |-> flags[r].autonomous]

\* The listing is the calling evaluation's.
ListOnce(c) ==
    /\ ~Free(c) /\ ~Top(c).listed
    /\ Replace(c, [Top(c) EXCEPT !.listed = TRUE,
                       !.rules = IF Len(stack[c]) > 1 THEN stack[c][Len(stack[c]) - 1].rules
                                 ELSE Listing(c)])
    /\ UNCHANGED <<inst, flags, expired>>

\* listEnabledRulesTx, in a transaction of its own.
ListRules(c) ==
    /\ ~Free(c) /\ ~Top(c).listed
    /\ c \notin expired
    /\ Replace(c, [Top(c) EXCEPT !.listed = TRUE, !.rules = Listing(c)])
    /\ UNCHANGED <<inst, flags, expired>>

\* EvaluateRules returns: nothing is left to look at, or the listing failed.  The caller
\* below goes on with its rule; the request is answered when there is none.
Return(c) ==
    /\ ~Free(c)
    /\ \/ Top(c).listed /\ DOMAIN Top(c).rules = {}
       \/ ~Top(c).listed /\ c \in expired
    /\ stack' = [stack EXCEPT ![c] = Front(@)]
    /\ expired' = IF Len(stack[c]) = 1 THEN expired \ {c} ELSE expired
    /\ UNCHANGED <<inst, flags>>

\* The first rule left to look at.
Rule(c) == First(Top(c).rules)
Busy(c) == ~Free(c) /\ Top(c).listed /\ DOMAIN Top(c).rules # {}

\* Its condition, on the payload of the triggering commit.
Matches(c) ==
    CASE Shape[Rule(c)].when = "always"   -> TRUE
      [] Shape[Rule(c)].when = "marked"   -> Top(c).mark
      [] Shape[Rule(c)].when = "unmarked" -> ~Top(c).mark

\* No match, a condition that errs (fail-closed), or a match of a rule that is not
\* autonomous: an approval is proposed (Approvals.tla) and the instance is left alone.
PassOver(c) ==
    /\ Busy(c) /\ Top(c).act = 0
    /\ NextRule(c)
    /\ UNCHANGED <<inst, flags, expired>>

\* A match of an autonomous rule.
Match(c) ==
    /\ Busy(c) /\ Top(c).act = 0
    /\ Matches(c) /\ Top(c).rules[Rule(c)]
    /\ Replace(c, [Top(c) EXCEPT !.act = 1])
    /\ UNCHANGED <<inst, flags, expired>>

Acts(c) == Shape[Rule(c)].acts
Action(c) == Acts(c)[Top(c).act]
Acting(c) == Busy(c) /\ Top(c).act \in DOMAIN Acts(c)
Advanced(c) == [Top(c) EXCEPT !.act = @ + 1]

\* A transition action commits; its own evaluation comes before the next action.
RuleMoves(c) ==
    /\ Acting(c) /\ c \notin expired
    /\ Action(c) # "set_field" /\ Move(c, Action(c))
    /\ stack' = [stack EXCEPT ![c] = Deeper(Append(Front(@), Advanced(c)), Call("on_transition", inst.mark))]
    /\ UNCHANGED <<flags, expired>>

\* setInstanceField, in a transaction of its own.
RuleSetsField(c) ==
    /\ Acting(c) /\ c \notin expired
    /\ Action(c) = "set_field"
    /\ inst' = [inst EXCEPT !.mark = TRUE]
    /\ Replace(c, Advanced(c))
    /\ UNCHANGED <<flags, expired>>

\* An action fails (no such edge now, no permission, the deadline): the rule's later
\* actions are not run.
ActionFails(c) ==
    /\ Acting(c)
    /\ NextRule(c)
    /\ UNCHANGED <<inst, flags, expired>>

\* The rule's actions are all run.
RuleDone(c) ==
    /\ Busy(c) /\ Top(c).act > Len(Acts(c))
    /\ NextRule(c)
    /\ UNCHANGED <<inst, flags, expired>>

\* The request's deadline passes (RequestTimeout, middleware.go).
Expire(c) ==
    /\ ~Free(c) /\ c \notin expired
    /\ expired' = expired \cup {c}
    /\ UNCHANGED <<inst, flags, stack>>

Evaluation(c) ==
    \/ ListRules(c) \/ Return(c)
    \/ PassOver(c) \/ Match(c)
    \/ RuleMoves(c) \/ RuleSetsField(c) \/ ActionFails(c) \/ RuleDone(c)

CascadeNext ==
    \/ \E r \in CascadeRules : CreateCascadeRule(r) \/ PatchCascadeRule(r) \/ DeleteCascadeRule(r)
    \/ \E c \in Callers : CreateInstance(c) \/ UserMoves(c) \/ Evaluation(c) \/ Expire(c)

CascadeFairness ==
    \A c \in Callers : WF_cascadeVars(Evaluation(c)) /\ WF_cascadeVars(Expire(c))

CascadeSpec == CascadeInit /\ [][CascadeNext]_cascadeVars /\ CascadeFairness

--------------------------------------------------------------------------------
(* Properties.                                                                    *)

\* A request always comes back from its cascade, whatever rules the owner has written
\* and however they call for one another: there is no cycle detection, only the
\* request's deadline (rules.go:905-911).
CascadeEnds == \A c \in Callers : []<>Free(c)

\* A rule that writes to an instance was enabled and autonomous at some moment since the
\* commit that made it look: what an owner has switched off, or made ask for an
\* approval, before a transition never acts on that transition, at any depth of the
\* cascade (EvaluateRules lists the rules anew after every commit).
OffRulesKeepStill ==
    [][\A c \in Callers :
        (RuleMoves(c) \/ RuleSetsField(c)) => Rule(c) \in Top(c).fit]_cascadeVars

\* What a cascade does is bounded: in time, and by what the owner has switched on.
CascadesKeepBounds == CascadeEnds /\ OffRulesKeepStill

================================================================================
