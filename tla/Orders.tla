---------------------------------- MODULE Orders ----------------------------------
(* Documents with a small fixed status machine of their own: sales orders (internal/          *)
(* salesorders/sales.go), purchase orders (internal/procurement/purchase_orders.go) and CRM     *)
(* opportunities (internal/crm/opportunities.go).  Orders are numbered from a sequence per firm   *)
(* and kind; they are created by an owner as drafts, or by a workflow transition's effect inside   *)
(* the engine's transaction.                                                                        *)
(*                                                                                                 *)
(* The two order packages read the status without a lock and write it in a later statement; an      *)
(* opportunity is read FOR UPDATE.                                                                   *)
EXTENDS Naturals, FiniteSets

CONSTANTS
    Documents,  \* identities of rows
    Kind,       \* Documents -> "sale", "purchase" or "deal"
    Staff,      \* requests in flight
    NoDocument

ASSUME DocumentsAssumption ==
    IsFiniteSet(Documents) /\ Kind \in [Documents -> {"sale", "purchase", "deal"}]

VARIABLES
    status,     \* Documents -> the committed status, "none" before
    number,     \* Documents -> the number of a committed order, 0 without
    next,       \* kinds of orders -> next_number of the committed sequence row
    task,       \* Staff -> the call in progress
    raced       \* orders two status updates of which were in progress at once (history)

orderVars == <<status, number, next, task, raced>>

OrderKinds == {"sale", "purchase"}
NoTask == [at |-> "idle", doc |-> NoDocument, to |-> "none", number |-> 0]

\* allowedStatusTransitions of the two packages; a deal moves freely until it is won or lost.
Allowed(kind, from) ==
    CASE kind = "sale" ->
           (CASE from = "draft" -> {"confirmed", "cancelled"} [] from = "confirmed" -> {"picking", "cancelled"}
              [] from = "picking" -> {"shipped", "cancelled"} [] from = "shipped" -> {"delivered", "cancelled"}
              [] OTHER -> {})
      [] kind = "purchase" ->
           (CASE from = "draft" -> {"sent", "cancelled"} [] from = "sent" -> {"received", "cancelled"} [] OTHER -> {})
      [] kind = "deal" ->
           IF from \in {"won", "lost"} THEN {} ELSE {"prospect", "qualified", "proposal", "negotiation", "won", "lost"}
Statuses(kind) ==
    CASE kind = "sale" -> {"draft", "confirmed", "picking", "shipped", "delivered", "cancelled"}
      [] kind = "purchase" -> {"draft", "sent", "received", "cancelled"}
      [] kind = "deal" -> {"prospect", "qualified", "proposal", "negotiation", "won", "lost"}
Terminal(d) == status[d] # "none" /\ Allowed(Kind[d], status[d]) = {}

\* The types of the variables.
OrdersTypeOK ==
    /\ \A d \in Documents : status[d] \in Statuses(Kind[d]) \cup {"none"}
    /\ number \in [Documents -> 0 .. Cardinality(Documents)]
    /\ next \in [OrderKinds -> 1 .. Cardinality(Documents) + 1]
    /\ \A k \in Staff : task[k].at \in {"idle", "created", "checked", "locked"}
    /\ raced \subseteq Documents

OrdersInit ==
    /\ status = [d \in Documents |-> "none"]
    /\ number = [d \in Documents |-> 0]
    /\ next = [k \in OrderKinds |-> 1]
    /\ task = [k \in Staff |-> NoTask]
    /\ raced = {}

Begins(k, at, d, to, n) == task' = [task EXCEPT ![k] = [at |-> at, doc |-> d, to |-> to, number |-> n]]
Ends(k) == task' = [task EXCEPT ![k] = NoTask]
Doing(at, d) == \E k \in Staff : task[k].at = at /\ task[k].doc = d

\* insert...OrderTx: the upsert of the sequence row claims the number and keeps the row locked
\* until the end of the transaction; an owner's order is a draft, a workflow's is confirmed
\* (sale) or sent (purchase).
CreateOrder(k, d, to) ==
    /\ task[k].at = "idle" /\ status[d] = "none" /\ Kind[d] \in OrderKinds
    /\ to \in {"draft"} \cup (IF Kind[d] = "sale" THEN {"confirmed"} ELSE {"sent"})
    /\ \A j \in Staff : ~(task[j].at = "created" /\ Kind[task[j].doc] = Kind[d])
    /\ Begins(k, "created", d, to, next[Kind[d]])
    /\ UNCHANGED <<status, number, next, raced>>

\* The commit of the order, or of the transition that creates it.
OrderCommits(k) ==
    LET d == task[k].doc IN
    /\ task[k].at = "created"
    /\ status' = [status EXCEPT ![d] = task[k].to]
    /\ number' = [number EXCEPT ![d] = task[k].number]
    /\ next' = [next EXCEPT ![Kind[d]] = task[k].number + 1]
    /\ Ends(k)
    /\ UNCHANGED raced

\* CreateOpportunity: the stage is the column's default.
CreateDeal(d) ==
    /\ status[d] = "none" /\ Kind[d] = "deal"
    /\ status' = [status EXCEPT ![d] = "prospect"]
    /\ UNCHANGED <<number, next, task, raced>>

\* Update...OrderStatus: SELECT status, and the table of allowed transitions.
CheckStatus(k, d, to) ==
    /\ task[k].at = "idle" /\ Kind[d] \in OrderKinds
    /\ to \in Allowed(Kind[d], status[d])
    /\ Begins(k, "checked", d, to, 0)
    /\ raced' = IF Doing("checked", d) THEN raced \cup {d} ELSE raced
    /\ UNCHANGED <<status, number, next>>

\* UPDATE ... SET status WHERE id, and COMMIT: what it overwrites is not looked at again.
WriteStatus(k) ==
    /\ task[k].at = "checked"
    /\ status' = [status EXCEPT ![task[k].doc] = task[k].to]
    /\ Ends(k)
    /\ UNCHANGED <<number, next, raced>>

\* Mutant: the stage is read without FOR UPDATE.
DealReads(k, d, to) ==
    /\ task[k].at = "idle" /\ Kind[d] = "deal" /\ status[d] # "none"
    /\ to \in Allowed("deal", status[d])
    /\ Begins(k, "locked", d, to, 0)
    /\ UNCHANGED <<status, number, next, raced>>

\* UpdateOpportunityStage: SELECT ... FOR UPDATE waits for another update of the deal.
LockDeal(k, d, to) ==
    /\ task[k].at = "idle" /\ Kind[d] = "deal" /\ status[d] # "none" /\ ~Doing("locked", d)
    /\ to \in Allowed("deal", status[d])
    /\ Begins(k, "locked", d, to, 0)
    /\ UNCHANGED <<status, number, next, raced>>

MoveDeal(k) ==
    /\ task[k].at = "locked"
    /\ status' = [status EXCEPT ![task[k].doc] = task[k].to]
    /\ Ends(k)
    /\ UNCHANGED <<number, next, raced>>

\* A later statement fails or the request is cancelled: the transaction leaves nothing.
OrderFails(k) ==
    /\ task[k].at # "idle"
    /\ Ends(k)
    /\ UNCHANGED <<status, number, next, raced>>

OrdersStep ==
    \/ \E k \in Staff :
        \/ \E d \in Documents : \E to \in Statuses(Kind[d]) :
              CreateOrder(k, d, to) \/ CheckStatus(k, d, to) \/ LockDeal(k, d, to)
        \/ OrderCommits(k) \/ WriteStatus(k) \/ MoveDeal(k) \/ OrderFails(k)
    \/ \E d \in Documents : CreateDeal(d)
OrdersSpec == OrdersInit /\ [][OrdersStep]_orderVars

--------------------------------------------------------------------------------

\* The committed orders of a kind carry the numbers 1, 2, ... without a gap or a repetition,
\* whatever creations are rolled back or run at once (nextOrderNumberTx).
OrderNumbersGapless ==
    \A kind \in OrderKinds :
        LET Made == {d \in Documents : Kind[d] = kind /\ status[d] # "none"} IN
        {number[d] : d \in Made} = 1 .. Cardinality(Made)

\* A closed deal does not reopen (UpdateOpportunityStage), and a delivered, received or
\* cancelled order stays so as long as no two updates of its status overlap (the comment on
\* allowedStatusTransitions calls these statuses terminal without that condition).
ClosedStaysClosed ==
    [][\A d \in Documents : Terminal(d) /\ d \notin raced' => status'[d] = status[d]]_orderVars

\* Orders and opportunities are kept in order: their numbers, and what is closed.
OrdersInOrder == []OrderNumbersGapless /\ ClosedStaysClosed
================================================================================
