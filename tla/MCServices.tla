-------------------------------- MODULE MCServices --------------------------------
(* The services that owners and users call, each on a small instance of its own.  They share *)
(* no row and no lock with one another, so an interleaving of two shows no more than either  *)
(* alone: `service` names the one that takes the steps of a behaviour, and the behaviours of  *)
(* this module are those of every one of them.                                                *)
EXTENDS SingleActive, Conditions, Orders, InboundSync, Ledger, Metrics, Membership, Webhooks,
        Payroll, Absences, TLC

\* Trees over a leaf of every type, well and ill formed.
MCLeafTests ==
    LET F(op, a, v) == [type |-> "field", op |-> op, a |-> a, b |-> Unset, value |-> v]
        Leaf(type, op, a, b) == [type |-> type, op |-> op, a |-> a, b |-> b,
                                 value |-> [kind |-> "number", n |-> 0]] IN
    { F("eq", "amount", [kind |-> "array", n |-> 1]),
      F("lt", "amount", [kind |-> "number", n |-> 1]),
      F("like", "amount", [kind |-> "string", n |-> 1]),
      Leaf("field_compare", "neq", "amount", "limit"),
      Leaf("field_compare", "contains", "amount", "limit"),
      Leaf("state", "", "limit", "open"),
      Leaf("edge_event", "", Unset, "door") }

\* Two sales orders and an opportunity.
MCKind == [s1 |-> "sale", s2 |-> "sale", d1 |-> "deal"]

\* A source that returns one key twice and one with white space around it.
MCFeed == <<"e1", "e2", "e1">>

\* A sale in a foreign currency with a tax line, whose conversions round, and one on an
\* account kept in that currency.
MCType == [cash |-> "asset", abroad |-> "asset", vat |-> "liability", sales |-> "revenue"]
MCMoney == [cash |-> "TRY", abroad |-> "USD", vat |-> "TRY", sales |-> "TRY"]

L(account, side, amount, currency) ==
    [account |-> account, side |-> side, amount |-> amount, currency |-> currency]
MCDrafts ==
    { <<L("cash", "debit", 3, "USD"), L("sales", "credit", 2, "USD"), L("vat", "credit", 1, "USD")>>,
      <<L("abroad", "debit", 2, "USD"), L("sales", "credit", 2, NoDraft)>> }

\* Three versions, of which the middle one is a rival of the two others: budgets whose
\* periods overlap pairwise, or the versions of one bill of materials.
MCRivals == { <<"a", "b">>, <<"b", "a">>, <<"b", "c">>, <<"c", "b">> }

--------------------------------------------------------------------------------

VARIABLE service

\* A service that is not explored has one initial state.
ServicesInit ==
    /\ service \in {"absences", "conditions", "hooks", "inbound", "ledger", "members", "metrics",
                    "orders", "payroll", "versions"}
    /\ AbsenceInit /\ ConditionsInit /\ HookInit /\ SyncInit /\ LedgerInit /\ MemberInit
    /\ MetricsInit /\ OrdersInit /\ PayrollInit /\ ActiveInit
    /\ service # "conditions" => tree = <<CHOOSE l \in LeafTests : TRUE>>
    /\ service # "inbound" => target = "products"

Still(name, unchanged) == IF service = name THEN TRUE ELSE unchanged

ServicesNext ==
    /\ \/ service = "absences" /\ AbsenceStep
       \/ service = "conditions" /\ ConditionsNext
       \/ service = "hooks" /\ HookNext
       \/ service = "inbound" /\ SyncStep
       \/ service = "ledger" /\ LedgerStep
       \/ service = "members" /\ MemberNext
       \/ service = "metrics" /\ MetricsNext
       \/ service = "orders" /\ OrdersStep
       \/ service = "payroll" /\ PayrollStep
       \/ service = "versions" /\ ActiveStep
    /\ UNCHANGED service
    /\ Still("absences", UNCHANGED absenceVars) /\ Still("conditions", UNCHANGED tree)
    /\ Still("hooks", UNCHANGED hookVars) /\ Still("inbound", UNCHANGED syncVars)
    /\ Still("ledger", UNCHANGED ledgerVars) /\ Still("members", UNCHANGED memberVars)
    /\ Still("metrics", UNCHANGED metricsVars) /\ Still("orders", UNCHANGED orderVars)
    /\ Still("payroll", UNCHANGED payrollVars) /\ Still("versions", UNCHANGED activeVars)

ServicesSpec ==
    /\ ServicesInit
    /\ [][ServicesNext]_<<service, absenceVars, tree, hookVars, syncVars, ledgerVars, memberVars,
                         metricsVars, orderVars, payrollVars, activeVars>>

\* Every variable of every service has its type.
ServicesTypeOK ==
    /\ AbsenceTypeOK /\ HookTypeOK /\ SyncTypeOK /\ LedgerTypeOK /\ MemberTypeOK
    /\ MetricsTypeOK /\ OrdersTypeOK /\ PayrollTypeOK /\ ActiveTypeOK
================================================================================
