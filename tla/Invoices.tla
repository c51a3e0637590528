-------------------------------- MODULE Invoices --------------------------------
(* Invoices, their lines and the payments against them: internal/invoicing.      *)
(*                                                                               *)
(* Every call is one READ COMMITTED transaction of several statements.  A        *)
(* statement reads what is committed when it starts and what its own transaction *)
(* has written; a write waits for the row's lock, which is held until the end of *)
(* the transaction.  tx[t].w is what transaction t has written and not yet       *)
(* committed: other transactions do not see it, its domain says what t has       *)
(* locked.  A row that t inserts carries t's own identity.                       *)
EXTENDS Naturals, Sequences, FiniteSets, Functions

CONSTANTS
    Ids,        \* identities of the invoices of one firm
    Txns,       \* calls of the owners, one transaction each
    Calls,      \* what each of them may ask for
    MaxOpen,    \* how many transactions are open at once
    Opening,    \* the total of the invoices there are at the beginning
    Faulty,     \* whether a transaction can fail at any statement
    None

ASSUME BoundsAssumption ==
    IsFiniteSet(Ids) /\ MaxOpen \in Nat \ {0} /\ Opening \in Nat \ {0}
ASSUME FaultyAssumption == Faulty \in BOOLEAN

\* allowedStatusTransitions
allowedStatusTransitions ==
    [draft |-> {"sent", "cancelled"}, sent |-> {"overdue", "cancelled"},
     overdue |-> {"sent", "cancelled"}, paid |-> {}, cancelled |-> {}]

Statuses == DOMAIN allowedStatusTransitions

ASSUME CallsAssumption ==
    \A t \in Txns : \A c \in Calls[t] :
                     /\ c.kind \in {"create", "add", "set", "drop", "status", "pay"}
                     /\ c.invs \in Seq(Ids) /\ c.invs # <<>>
                     /\ c.kind # "status" => Len(c.invs) = 1 /\ c.amt \in Nat
                     /\ c.kind = "pay" => c.amt > 0
                     /\ c.kind = "status" => c.to \in Statuses \ {"paid"}

VARIABLES
    status, total, number,      \* columns of invoices; number is 0 before the row exists
    lines, payments, entries,   \* rows [id, inv, amt] of invoice_lines, payments, journal_entries
    audit,                      \* rows [id, inv, from, to] of audit_log about status updates
    next,                       \* invoice_sequences.next_number
    events,                     \* webhook events dispatched: <<event, transaction>>
    tx,                         \* the transactions
    met                         \* pairs of calls about one invoice that overlapped (history)

vars == <<status, total, number, lines, payments, entries, audit, next, events, tx, met>>
committed == <<status, total, number, lines, payments, entries, audit, next>>

\* What is written to a column: of some invoices, of one, and over what was there.
NoneOf == [i \in {} |-> 0]
Just(i, value) == [j \in {i} |-> value]
Over(f, g) == [x \in DOMAIN f \cup DOMAIN g |-> IF x \in DOMAIN f THEN f[x] ELSE g[x]]

Nothing == [number |-> 0, status |-> NoneOf, total |-> NoneOf, add |-> {}, del |-> {},
            pay |-> {}, entry |-> {}, audit |-> {}]

Exists(i) == number[i] # 0
Ended == {"done", "failed"}
Open == {t \in Txns : tx[t].pc \notin {"idle", "notify"} \cup Ended}

Row(id, i, a) == [id |-> id, inv |-> i, amt |-> a]
Sum(rows) == SumFunction([row \in rows |-> row.amt])
Of(rows, i) == {row \in rows : row.inv = i}

\* What a statement of t sees.
Lines(t) == (lines \ tx[t].w.del) \cup tx[t].w.add
Status(t, i) == Over(tx[t].w.status, status)[i]

\* The invoice a call is (now) about, and the line it names.
Inv(t) == tx[t].call.invs[tx[t].k]

\* The line or payment that t inserts.
NewRow(t) == Row(t, Inv(t), tx[t].call.amt)

\* The transaction that holds the row of invoices, of invoice_lines, of invoice_sequences.
HoldsInvoice(u, i) == i \in DOMAIN tx[u].w.status \cup DOMAIN tx[u].w.total
HoldsLine(u, l) == \E row \in tx[u].w.del : row.id = l
HoldsSequence(u) == tx[u].w.number # 0

\* Whom t waits for before its next statement can write.
WaitsFor(t) ==
    {u \in Txns \ {t} :
        \/ tx[t].pc = "write" /\ HoldsInvoice(u, Inv(t))
        \/ tx[t].pc = "run" /\ tx[t].call.kind \in {"set", "drop"} /\ HoldsLine(u, tx[t].line)
        \/ tx[t].pc = "run" /\ tx[t].call.kind = "create" /\ HoldsSequence(u)}

Idle == [pc |-> "idle", call |-> None, line |-> None, k |-> 1, was |-> None,
         seen |-> 0, sum |-> 0, w |-> Nothing]

\* Some invoices exist, each with one line; nothing has been paid.
Init ==
    /\ \E has \in SUBSET Ids :
         /\ number \in [Ids -> 0 .. Cardinality(has)]
         /\ {i \in Ids : number[i] # 0} = has /\ IsInjective(Restrict(number, has))
         /\ next = Cardinality(has) + 1
         /\ status \in [Ids -> {"draft", "sent"}] /\ \A i \in Ids \ has : status[i] = "draft"
         /\ total = [i \in Ids |-> IF i \in has THEN Opening ELSE 0]
         /\ lines = {Row(i, i, Opening) : i \in has}
    /\ payments = {} /\ entries = {} /\ audit = {} /\ events = {} /\ met = {}
    /\ tx = [t \in Txns |-> Idle]

-------------------------------------------------------------------------------
\* Steps of a transaction.

End(t, pc) == tx' = [tx EXCEPT ![t] = [Idle EXCEPT !.pc = pc, !.call = tx[t].call]]
Fail(t) == End(t, "failed")

\* A call arrives.  A new invoice gets an identity of its own; a line is named by its id.
Begin(t) ==
    /\ tx[t].pc = "idle" /\ Cardinality(Open) < MaxOpen
    /\ \E c \in Calls[t], l \in {row.id : row \in lines} \cup {None} :
        /\ c.kind = "create" =>
              /\ ~Exists(c.invs[1])
              /\ \A u \in Open : tx[u].call.kind = "create" => tx[u].call.invs # c.invs
        /\ c.kind \in {"set", "drop"} <=> l # None
        /\ tx' = [tx EXCEPT ![t].pc = "run", ![t].call = c, ![t].line = l]
        /\ met' = met \cup {{t, u} : u \in {v \in Open : Range(tx[v].call.invs) \cap Range(c.invs) # {}}}
    /\ UNCHANGED <<committed, events>>

\* insertInvoiceTx: the number is claimed by an UPSERT, the rest nobody else sees.
InsertInvoice(t) ==
    /\ tx[t].pc = "run" /\ tx[t].call.kind = "create" /\ WaitsFor(t) = {}
    /\ tx' = [tx EXCEPT ![t].pc = "commit", ![t].w.number = next,
                        ![t].w.status = Just(Inv(t), "draft"),
                        ![t].w.total = Just(Inv(t), tx[t].call.amt),
                        ![t].w.add = {NewRow(t)}]
    /\ UNCHANGED <<committed, events, met>>

\* AddInvoiceLine up to the INSERT.
AddLine(t) ==
    /\ tx[t].pc = "run" /\ tx[t].call.kind = "add"
    /\ IF Exists(Inv(t))
       THEN tx' = [tx EXCEPT ![t].pc = "sum",
                             ![t].w.add = {NewRow(t)}]
       ELSE Fail(t)
    /\ UNCHANGED <<committed, events, met>>

\* UpdateInvoiceLine and DeleteInvoiceLine up to the UPDATE or DELETE, which finds no row
\* when the line is gone or is another invoice's.
ChangeLine(t) ==
    /\ tx[t].pc = "run" /\ tx[t].call.kind \in {"set", "drop"} /\ WaitsFor(t) = {}
    /\ LET rows == {row \in Of(lines, Inv(t)) : row.id = tx[t].line}
           new  == IF tx[t].call.kind = "drop" THEN {}
                   ELSE {[row EXCEPT !.amt = tx[t].call.amt] : row \in rows}
       IN  IF rows # {}
           THEN tx' = [tx EXCEPT ![t].pc = "sum", ![t].w.del = rows, ![t].w.add = new]
           ELSE Fail(t)
    /\ UNCHANGED <<committed, events, met>>

\* recomputeInvoiceTotalsTx starts: it sums the lines it can see ...
RecomputeOwn(t) ==  \* the lines of this call only
    /\ tx[t].pc = "sum"
    /\ tx' = [tx EXCEPT ![t].pc = "write", ![t].sum = Sum(Of(tx[t].w.add, Inv(t)))]
    /\ UNCHANGED <<committed, events, met>>

RecomputeTotals(t) ==
    /\ tx[t].pc = "sum"
    /\ tx' = [tx EXCEPT ![t].pc = "write", ![t].sum = Sum(Of(Lines(t), Inv(t)))]
    /\ UNCHANGED <<committed, events, met>>

\* ... and writes that sum once it has the invoice's row.
WriteTotals(t) ==
    /\ tx[t].pc = "write" /\ tx[t].call.kind \in {"add", "set", "drop"} /\ WaitsFor(t) = {}
    /\ tx' = [tx EXCEPT ![t].pc = "commit", ![t].w.total = Just(Inv(t), tx[t].sum)]
    /\ UNCHANGED <<committed, events, met>>

\* updateInvoiceStatusTx for the k-th invoice of a status call: the row is read ...
ReadStatus(t) ==
    /\ tx[t].pc = "run" /\ tx[t].call.kind = "status"
    /\ IF Exists(Inv(t)) /\ tx[t].call.to \in allowedStatusTransitions[Status(t, Inv(t))]
       THEN tx' = [tx EXCEPT ![t].pc = "write", ![t].was = Status(t, Inv(t)),
                             ![t].seen = total[Inv(t)]]
       ELSE Fail(t)
    /\ UNCHANGED <<committed, events, met>>

\* ... and written, whatever has become of it in between.
Last(t) == tx[t].k = Len(tx[t].call.invs)

WriteStatus(t) ==
    /\ tx[t].pc = "write" /\ tx[t].call.kind = "status" /\ WaitsFor(t) = {}
    /\ tx' = [tx EXCEPT ![t].w.status = Over(Just(Inv(t), tx[t].call.to), @),
                        ![t].w.audit = @ \cup {[id |-> t, inv |-> Inv(t), from |-> tx[t].was,
                                                to |-> tx[t].call.to]},
                        ![t].k = IF Last(t) THEN @ ELSE @ + 1,
                        ![t].pc = IF Last(t) THEN "commit" ELSE "run"]
    /\ UNCHANGED <<committed, events, met>>

\* RecordPayment reads the invoice ...
ReadInvoice(t) ==
    /\ tx[t].pc = "run" /\ tx[t].call.kind = "pay"
    /\ IF Exists(Inv(t)) /\ status[Inv(t)] # "cancelled"
       THEN tx' = [tx EXCEPT ![t].pc = "insert", ![t].was = status[Inv(t)],
                             ![t].seen = total[Inv(t)]]
       ELSE Fail(t)
    /\ UNCHANGED <<committed, events, met>>

\* ... inserts the payment, and asks whether all of them cover the total by now ...
Paid(t) == Sum(Of(payments, Inv(t)) \cup {NewRow(t)})

ThenClose(t, close) ==
    /\ tx[t].pc = "insert"
    /\ tx' = [tx EXCEPT ![t].w.pay = {NewRow(t)}, ![t].pc = IF close THEN "write" ELSE "commit"]
    /\ UNCHANGED <<committed, events, met>>

CloseOnExcess(t) == ThenClose(t, Paid(t) > total[Inv(t)] /\ tx[t].was # "paid")
CloseOnFirst(t) == ThenClose(t, tx[t].was # "paid")

InsertPayment(t) == ThenClose(t, Paid(t) >= total[Inv(t)] /\ tx[t].was # "paid")

\* ... and if so closes the invoice, posting the total it read at first to the journal.
\* A journal line's amount is positive (a CHECK of the database).
CloseEmpty(t) ==    \* a total of zero is posted
    /\ tx[t].pc = "write" /\ tx[t].call.kind = "pay" /\ WaitsFor(t) = {}
    /\ tx' = [tx EXCEPT ![t].pc = "commit", ![t].w.status = Just(Inv(t), "paid"),
                        ![t].w.entry = {Row(t, Inv(t), tx[t].seen)}]
    /\ UNCHANGED <<committed, events, met>>

CloseThenPost(t) == \* the status is committed on its own
    /\ tx[t].pc = "write" /\ tx[t].call.kind = "pay" /\ WaitsFor(t) = {}
    /\ IF tx[t].seen > 0
       THEN /\ status' = [status EXCEPT ![Inv(t)] = "paid"]
            /\ tx' = [tx EXCEPT ![t].pc = "commit", ![t].w.entry = {Row(t, Inv(t), tx[t].seen)}]
       ELSE Fail(t) /\ UNCHANGED status
    /\ UNCHANGED <<total, number, lines, payments, entries, audit, next, events, met>>

CloseInvoice(t) ==
    /\ tx[t].pc = "write" /\ tx[t].call.kind = "pay" /\ WaitsFor(t) = {}
    /\ IF tx[t].seen > 0
       THEN tx' = [tx EXCEPT ![t].pc = "commit", ![t].w.status = Just(Inv(t), "paid"),
                       ![t].w.entry = {Row(t, Inv(t), tx[t].seen)}]
       ELSE Fail(t)
    /\ UNCHANGED <<committed, events, met>>

\* WithFirmContext commits.
Commit(t) ==
    /\ tx[t].pc = "commit"
    /\ LET w == tx[t].w  new == w.number # 0  IN
       /\ status' = Over(w.status, status)
       /\ total' = Over(w.total, total)
       /\ number' = IF new THEN [number EXCEPT ![Inv(t)] = w.number] ELSE number
       /\ next' = IF new THEN w.number + 1 ELSE next
       /\ lines' = (lines \ w.del) \cup w.add
       /\ payments' = payments \cup w.pay
       /\ entries' = entries \cup w.entry
       /\ audit' = audit \cup w.audit
       /\ End(t, IF new \/ w.entry # {} THEN "notify" ELSE "done")
    /\ UNCHANGED <<events, met>>

\* webhook.Dispatch, after the commit.
Dispatch(t) ==
    /\ tx[t].pc = "notify"
    /\ events' = events \cup {<<IF tx[t].call.kind = "pay" THEN "invoice.paid" ELSE "invoice.created", t>>}
    /\ End(t, "done")
    /\ UNCHANGED <<committed, met>>

\* A statement fails, or the server stops: the transaction is rolled back, the event lost.
Abort(t) ==
    /\ Faulty /\ tx[t].pc \notin {"idle"} \cup Ended
    /\ IF tx[t].pc = "notify" THEN End(t, "done") ELSE Fail(t)
    /\ UNCHANGED <<committed, events, met>>

\* The database ends a transaction of a set that waits for itself.
BreakDeadlock(t) ==
    /\ \E S \in SUBSET Open : /\ t \in S /\ UNION {WaitsFor(u) : u \in S} = S
                              /\ \A u \in S : WaitsFor(u) # {}
    /\ Fail(t)
    /\ UNCHANGED <<committed, events, met>>

Step(t) ==
    \/ InsertInvoice(t)
    \/ AddLine(t) \/ ChangeLine(t) \/ RecomputeTotals(t) \/ WriteTotals(t)
    \/ ReadStatus(t) \/ WriteStatus(t)
    \/ ReadInvoice(t) \/ InsertPayment(t) \/ CloseInvoice(t)
    \/ Commit(t) \/ Dispatch(t) \/ BreakDeadlock(t)

Next == \E t \in Txns : Begin(t) \/ Step(t) \/ Abort(t)

Spec == Init /\ [][Next]_vars

-------------------------------------------------------------------------------
Rows(I, A) == [id : I, inv : Ids, amt : A]
Nat1 == Nat \ {0}

\* The values of the variables; amounts that the database checks to be positive are.
TypeOK ==
    /\ status \in [Ids -> Statuses] /\ total \in [Ids -> Nat] /\ number \in [Ids -> Nat]
    /\ lines \subseteq Rows(Txns \cup Ids, Nat)
    /\ payments \subseteq Rows(Txns, Nat1) /\ entries \subseteq Rows(Txns, Nat1)
    /\ audit \subseteq [id : Txns, inv : Ids, from : Statuses, to : Statuses]
    /\ next \in Nat1
    /\ events \subseteq {"invoice.created", "invoice.paid"} \X Txns
    /\ \A t, u \in Open : t # u =>
          /\ ~(HoldsSequence(t) /\ HoldsSequence(u))
          /\ \A i \in Ids : ~(HoldsInvoice(t, i) /\ HoldsInvoice(u, i))

\* The invoices of a firm are numbered 1, 2, 3, ... without a duplicate and, a number being
\* claimed in the transaction that uses it, without a gap either (nextInvoiceNumberTx).
NumbersGapless ==
    LET has == {i \in Ids : Exists(i)}
    IN  {number[i] : i \in has} = 1 .. (next - 1) /\ IsInjective(Restrict(number, has))

\* A payment is recorded together with all it brings about (RecordPayment): an entry in the
\* journal belongs to a payment against the same invoice, and no invoice is paid without one.
CloseIsWhole ==
    /\ \A e \in entries : \E p \in payments : p.id = e.id /\ p.inv = e.inv
    /\ \A i \in Ids : status[i] = "paid" => Of(entries, i) # {}

\* A bulk status update moves every invoice it names or none (BulkUpdateInvoiceStatus).
BulkAllOrNothing ==
    \A t \in Txns : tx[t].pc = "done" /\ tx[t].call.kind = "status" =>
        {a.inv : a \in {b \in audit : b.id = t}} = Range(tx[t].call.invs)

\* Nobody is told of a payment in full, or of an invoice, that was rolled back after all
\* (webhook.Dispatch after the commit).
EventsTrue ==
    \A e \in events :
        IF e[1] = "invoice.paid" THEN \E row \in entries : row.id = e[2]
        ELSE Exists(tx[e[2]].call.invs[1])

\* Each transaction is whole: numbers, payments with what they bring about, bulk updates and
\* what is announced, wherever a statement fails and whoever is rolled back.
WholeOrNothing == NumbersGapless /\ CloseIsWhole /\ BulkAllOrNothing /\ EventsTrue

Edits == {"add", "set", "drop"}
Moves == {"pay", "status"}

\* No two calls of these kinds about invoice i have overlapped.
Apart(kinds, i) ==
    \A pair \in met : \E t \in pair :
        tx[t].call.kind \notin kinds \/ i \notin Range(tx[t].call.invs)

\* An invoice's total is the sum of its lines (recomputeInvoiceTotalsTx), whatever payments and
\* status updates run beside the line edits, as long as the edits do not overlap each other.
TotalsFollowLines == \A i \in Ids : Apart(Edits, i) => total[i] = Sum(Of(lines, i))

\* An invoice is paid in full, posted to the journal and announced once at most
\* (RecordPayment: unless it is paid already).
ClosedOnce == \A i \in Ids : Cardinality(Of(entries, i)) <= 1

\* The same of an invoice whose payments and status updates came one after the other.
ClosedOnceApart == \A i \in Ids : Apart(Moves, i) => Cardinality(Of(entries, i)) <= 1

\* What the journal says was received for an invoice was received (RecordPayment), unless
\* calls about the invoice overlapped.
CashIsBacked ==
    \A i \in Ids : Apart(Edits \cup Moves, i) => Sum(Of(entries, i)) <= Sum(Of(payments, i))

\* An invoice about which no calls overlapped adds up: its total, what was posted of it and
\* what was received for it.
QuietInvoicesAddUp == TotalsFollowLines /\ ClosedOnceApart /\ CashIsBacked

\* A step that adds a payment and finds the invoice covered closes it.
PaymentsClose ==
    \A i \in Ids : /\ Apart(Edits \cup Moves, i)
                   /\ Of(payments', i) # Of(payments, i)
                   /\ Sum(Of(payments', i)) >= total'[i]
             => status'[i] = "paid"

\* A payment that brings what is paid up to the total leaves the invoice paid (RecordPayment),
\* unless calls about the invoice overlapped.
CoveringPaymentCloses == [][PaymentsClose]_vars

\* A status changes by an allowed transition, or to paid while the invoice is not cancelled
\* (allowedStatusTransitions, RecordPayment): nothing leaves paid or cancelled, unless
\* payments or status updates of the invoice overlapped.
StatusMachine ==
    [][\A i \in Ids : Apart(Moves, i) /\ Exists(i) /\ status'[i] # status[i]
          => \/ status'[i] \in allowedStatusTransitions[status[i]]
             \/ status'[i] = "paid" /\ status[i] # "cancelled"]_vars

\* The status of an invoice moves as its payments and its owners' updates call for.
StatusFollowsPayments == StatusMachine /\ CoveringPaymentCloses
=============================================================================
