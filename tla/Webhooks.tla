--------------------------------- MODULE Webhooks ---------------------------------
(* Webhook deliveries: internal/webhook/dispatch.go, called by the handlers after their  *)
(* own transaction, while owners create, change and delete webhooks (webhook.go).         *)
(*                                                                                       *)
(* One firm and one kind of event.  A webhook is looked up once and then used as it was   *)
(* read; a delivery is a goroutine that sends, sends once more if that failed, and         *)
(* records the outcome in a transaction of its own.                                        *)
EXTENDS Naturals, FiniteSets

CONSTANTS
    Hooks,      \* identities of webhooks rows
    Operations  \* requests that emit the event

VARIABLES
    hook,       \* Hooks -> "none", "active" (and subscribed), "off" or "deleted"
    operation,  \* Operations -> where the request's handler is
    delivery,   \* <<operation, hook>> -> where the goroutine is
    received,   \* <<operation, hook>> -> how many POSTs have reached the endpoint
    outcome,    \* <<operation, hook>> -> webhook_deliveries.success, "none" without a row
    wanted      \* Operations -> the hooks that were active since its commit (history)

hookVars == <<hook, operation, delivery, received, outcome, wanted>>

News == Operations \X Hooks

\* The types of the variables.
HookTypeOK ==
    /\ hook \in [Hooks -> {"none", "active", "off", "deleted"}]
    /\ operation \in [Operations -> {"new", "open", "committed", "over", "undone"}]
    /\ delivery \in [News -> {"none", "first", "retry", "sent", "failed", "over"}]
    /\ received \in [News -> 0 .. 2]
    /\ outcome \in [News -> {"none", "success", "failure"}]
    /\ wanted \in [Operations -> SUBSET Hooks]

HookInit ==
    /\ hook = [h \in Hooks |-> "none"]
    /\ operation = [o \in Operations |-> "new"]
    /\ delivery = [n \in News |-> "none"]
    /\ received = [n \in News |-> 0]
    /\ outcome = [n \in News |-> "none"]
    /\ wanted = [o \in Operations |-> {}]

Active == {h \in Hooks : hook[h] = "active"}

\* The hooks of hook', remembered for the operations that are committed.
Remember(Done) ==
    wanted' = [o \in Operations |-> IF o \in Done THEN wanted[o] \cup {h \in Hooks : hook'[h] = "active"}
                                    ELSE wanted[o]]
Committed == {o \in Operations : operation[o] = "committed"}

--------------------------------------------------------------------------------
(* The owner.                                                                    *)

CreateWebhook(h, state) ==
    /\ hook[h] = "none"
    /\ hook' = [hook EXCEPT ![h] = state]
    /\ Remember(Committed)
    /\ UNCHANGED <<operation, delivery, received, outcome>>

\* Turned on or off, or subscribed to other events.
UpdateWebhook(h, state) ==
    /\ hook[h] \in {"active", "off"} \ {state}
    /\ hook' = [hook EXCEPT ![h] = state]
    /\ Remember(Committed)
    /\ UNCHANGED <<operation, delivery, received, outcome>>

\* Its deliveries go with it (ON DELETE CASCADE).
DeleteWebhook(h) ==
    /\ hook[h] \in {"active", "off"}
    /\ hook' = [hook EXCEPT ![h] = "deleted"]
    /\ outcome' = [n \in News |-> IF n[2] = h THEN "none" ELSE outcome[n]]
    /\ UNCHANGED <<operation, delivery, received, wanted>>

--------------------------------------------------------------------------------
(* A handler.                                                                    *)

BeginOperation(o) ==
    /\ operation[o] = "new"
    /\ operation' = [operation EXCEPT ![o] = "open"]
    /\ UNCHANGED <<hook, delivery, received, outcome, wanted>>

\* Its transaction is committed, or is not and the handler answers with an error.
EndOperation(o) ==
    /\ operation[o] = "open"
    /\ \/ /\ operation' = [operation EXCEPT ![o] = "committed"]
          /\ wanted' = [wanted EXCEPT ![o] = Active]
       \/ operation' = [operation EXCEPT ![o] = "undone"] /\ UNCHANGED wanted
    /\ UNCHANGED <<hook, delivery, received, outcome>>

\* The news is sent from within the transaction.
DispatchInside(o) ==
    /\ operation[o] \in {"open", "committed"}
    /\ \A h \in Hooks : delivery[<<o, h>>] = "none"
    /\ delivery' = [n \in News |-> IF n[1] = o /\ n[2] \in Active THEN "first" ELSE delivery[n]]
    /\ UNCHANGED <<hook, operation, received, outcome, wanted>>

\* Dispatch: the active hooks are looked up, a goroutine started for each; or the lookup
\* fails, which is only logged.
Dispatch(o) ==
    /\ operation[o] = "committed"
    /\ operation' = [operation EXCEPT ![o] = "over"]
    /\ \/ delivery' = [n \in News |-> IF n[1] = o /\ n[2] \in Active THEN "first" ELSE delivery[n]]
       \/ UNCHANGED delivery
    /\ UNCHANGED <<hook, received, outcome, wanted>>

--------------------------------------------------------------------------------
(* deliverOne.                                                                   *)

\* A send: the endpoint gets the request and answers well; or it gets it and the answer
\* is bad, late or lost; or it does not get it.
Send(n, after) ==
    \/ /\ received' = [received EXCEPT ![n] = @ + 1]
       /\ delivery' = [delivery EXCEPT ![n] = "sent"]
    \/ /\ received' = [received EXCEPT ![n] = @ + 1]
       /\ delivery' = [delivery EXCEPT ![n] = after]
    \/ /\ UNCHANGED received
       /\ delivery' = [delivery EXCEPT ![n] = after]

FirstSend(n) ==
    /\ delivery[n] = "first"
    /\ Send(n, "retry")
    /\ UNCHANGED <<hook, operation, outcome, wanted>>

Retry(n) ==
    /\ delivery[n] = "retry"
    /\ Send(n, "failed")
    /\ UNCHANGED <<hook, operation, outcome, wanted>>

\* recordDelivery: one row for the delivery, none when the webhook is gone (a foreign
\* key) or the database fails.
RecordDelivery(n) ==
    /\ delivery[n] \in {"sent", "failed"}
    /\ delivery' = [delivery EXCEPT ![n] = "over"]
    /\ \/ /\ hook[n[2]] # "deleted"
          /\ outcome' = [outcome EXCEPT ![n] = IF delivery[n] = "sent" THEN "success" ELSE "failure"]
       \/ UNCHANGED outcome
    /\ UNCHANGED <<hook, operation, received, wanted>>

\* The server stops: handlers and goroutines are gone.
HookCrash ==
    /\ operation' = [o \in Operations |-> CASE operation[o] = "open" -> "undone"
                                            [] operation[o] = "committed" -> "over"
                                            [] OTHER -> operation[o]]
    /\ delivery' = [n \in News |-> IF delivery[n] = "none" THEN "none" ELSE "over"]
    /\ UNCHANGED <<hook, received, outcome, wanted>>

HookNext ==
    \/ \E h \in Hooks :
        \/ \E state \in {"active", "off"} : CreateWebhook(h, state) \/ UpdateWebhook(h, state)
        \/ DeleteWebhook(h)
    \/ \E o \in Operations : BeginOperation(o) \/ EndOperation(o) \/ Dispatch(o)
    \/ \E n \in News : FirstSend(n) \/ Retry(n) \/ RecordDelivery(n)
    \/ HookCrash

HookSpec == HookInit /\ [][HookNext]_hookVars

--------------------------------------------------------------------------------
(* Properties.                                                                   *)

\* An endpoint hears only of operations that were committed, and only if its webhook was
\* active at some moment between the commit and the lookup: what a crash, a rollback or
\* an owner's change of the webhook does in between makes no false news
\* (dispatch.go:63-69).  A row that says success is about a POST that was received.
OnlyTrueNews ==
    \A n \in News :
        /\ received[n] > 0 => operation[n[1]] = "over" /\ n[2] \in wanted[n[1]]
        /\ outcome[n] = "success" => received[n] > 0

================================================================================
