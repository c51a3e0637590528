---------------------------------- MODULE Stock ----------------------------------
(* The stock of one firm and the three kinds of documents that move it:          *)
(* transfers between locations and cycle counts (internal/warehouse), production *)
(* orders (internal/manufacturing).  All of them change a level by               *)
(* inventory.AdjustStockTx and nothing else.                                     *)
(*                                                                               *)
(* A call is one READ COMMITTED transaction: it locks its document, adjusts the  *)
(* levels one after the other, each locked until the end, and writes the rest    *)
(* when it commits.  tx[t].held is what t has made of the levels it has locked.  *)
EXTENDS Integers, Sequences, FiniteSets, SequencesExt, FiniteSetsExt, Functions

CONSTANTS
    Cells,      \* products at locations: the keys of stock_levels
    Docs,       \* identities of documents
    Doc,        \* what each document says
    Opening,    \* the levels at the beginning
    Cost,       \* products.cost_price of each cell's product
    Amounts,    \* what may be counted or produced
    Txns,       \* the transactions there can be at once, each used again for the next call
    Faulty,     \* whether a transaction can fail at any statement
    None

Kind(d) == Doc[d].kind

\* What takes the parts of an order, and what the adjusted lines of a count add: a movement for
\* each line of the document, two of which may be about one cell (no table forbids it).
Parts(d) == [n \in DOMAIN Doc[d].parts |-> [cell |-> Doc[d].parts[n].cell, change |-> -Doc[d].parts[n].qty]]
Variance(l) == IF l.cnt = None THEN 0 ELSE l.cnt - l.sys
Adjustments(d, rows) == [n \in DOMAIN rows |-> [cell |-> Doc[d].cells[n], change |-> Variance(rows[n])]]

\* The sequences of the values of f, each as often as it is one.
InAnyOrder(f) ==
    {[n \in 1 .. Cardinality(DOMAIN f) |-> f[p[n]]] : p \in Bijection(1 .. Cardinality(DOMAIN f), DOMAIN f)}

ASSUME StockAssumption ==
    /\ Opening \in [Cells -> Nat] /\ Cost \in [Cells -> Nat] /\ Amounts \subseteq Nat
    /\ Faulty \in BOOLEAN
ASSUME DocsAssumption ==
    IsFiniteSet(Docs) /\ \A d \in Docs :
        \/ /\ Kind(d) = "transfer" /\ Doc[d].qty \in Nat \ {0}
           /\ Doc[d].from \in Cells /\ Doc[d].to \in Cells \ {Doc[d].from}
        \/ /\ Kind(d) = "order" /\ Doc[d].out \in Cells
           /\ Doc[d].parts \in Seq([cell : Cells, qty : Nat \ {0}])
        \/ /\ Kind(d) = "count" /\ Doc[d].cells \in Seq(Cells) /\ Doc[d].cells # <<>>

VARIABLES
    level,      \* stock_levels.quantity
    moves,      \* stock_movements of each document, in order: [cell, change]
    status,     \* the status of each document, "absent" before it is created
    lines,      \* cycle_count_lines of each count: [sys, cnt, adj] of each line
    issues,     \* production_order_material_issues of each order
    books,      \* the value of each document's journal entries
    tx          \* the transactions

vars == <<level, moves, status, lines, issues, books, tx>>
committed == <<level, moves, status, lines, issues, books>>

\* f, and what it says nothing of as in g.
Over(f, g) == [x \in DOMAIN f \cup DOMAIN g |-> IF x \in DOMAIN f THEN f[x] ELSE g[x]]

Value(ms) == SumFunction([n \in DOMAIN ms |-> ms[n].change * Cost[ms[n].cell]])

\* The status a call gives its document.  (No code makes a transfer in_transit.)
To == [CompleteTransfer |-> "completed", CancelTransfer |-> "cancelled",
       StartProductionOrder |-> "in_progress", CompleteProductionOrder |-> "completed",
       CancelProductionOrder |-> "cancelled",
       CloseCount |-> "completed", AdjustCount |-> "completed", OpenCount |-> "open"]
Locking == DOMAIN To \ {"OpenCount"}

\* The kind of document a call is about.
About(op) ==
    CASE op \in {"CompleteTransfer", "CancelTransfer"} -> "transfer"
      [] op \in {"StartProductionOrder", "CompleteProductionOrder", "CancelProductionOrder"} -> "order"
      [] OTHER -> "count"

Idle == [pc |-> "idle", op |-> None, doc |-> None, line |-> 0, amt |-> 0,
         todo |-> <<>>, held |-> <<>>, log |-> <<>>, rows |-> <<>>]
\* The levels as a transaction sees them.
Sees(x) == Over(x.held, level)
Open == {t \in Txns : tx[t].pc # "idle"}

Init ==
    /\ level = Opening
    /\ moves = [d \in Docs |-> <<>>] /\ issues = moves
    /\ status = [d \in Docs |-> "absent"]
    /\ lines = [d \in Docs |-> <<>>]
    /\ books = [d \in Docs |-> 0]
    /\ tx = [t \in Txns |-> Idle]

\* The transaction that holds a row of stock_levels, of the documents, of cycle_count_lines.
HoldsLevel(u, c) == c \in DOMAIN tx[u].held
HoldsDoc(u, d) == tx[u].doc = d /\ tx[u].op \in Locking /\ tx[u].pc # "run"
HoldsLine(u, d, n) == tx[u].doc = d /\ tx[u].op \in {"RecordCount", "AdjustCount"} /\ n \in DOMAIN tx[u].rows

\* Whom t waits for before its next statement.
WaitsFor(t) ==
    {u \in Txns \ {t} :
        \/ tx[t].pc = "run" /\ tx[t].op \in Locking /\ HoldsDoc(u, tx[t].doc)
        \/ tx[t].pc = "move" /\ tx[t].todo # <<>> /\ HoldsLevel(u, Head(tx[t].todo).cell)
        \/ tx[t].pc = "count" /\ HoldsLine(u, tx[t].doc, tx[t].line)
        \/ tx[t].pc = "lock" /\ \E n \in tx[t].todo : HoldsLine(u, tx[t].doc, n)}

-------------------------------------------------------------------------------
\* WithFirmContext ends, by a commit or a rollback: the locks are released.
End(t) == tx' = [tx EXCEPT ![t] = Idle]

\* A row that nobody sees before it is committed.
CreateRow(d, kind, first) ==
    /\ status[d] = "absent" /\ Kind(d) = kind
    /\ status' = [status EXCEPT ![d] = first]
    /\ UNCHANGED <<level, moves, lines, issues, books, tx>>

CreateTransfer(d) == CreateRow(d, "transfer", "draft")
CreateProductionOrder(d) == CreateRow(d, "order", "planned")

\* A call arrives; amt is what was counted or produced.
Begin(t) ==
    /\ tx[t].pc = "idle"
    /\ \E op \in DOMAIN To \cup {"RecordCount"}, d \in Docs :
        /\ Kind(d) = About(op)
        /\ IF op = "OpenCount" THEN status[d] = "absent" /\ \A u \in Open : tx[u].doc # d
           ELSE status[d] # "absent"
        /\ \E n \in CASE op = "RecordCount" -> Amounts
                      [] op = "CompleteProductionOrder" -> Amounts \ {0}
                      [] OTHER -> {0},
             l \in IF op = "RecordCount" THEN DOMAIN Doc[d].cells ELSE {0} :
             tx' = [tx EXCEPT ![t] = [Idle EXCEPT !.pc = "run", !.op = op, !.doc = d, !.amt = n, !.line = l]]
    /\ UNCHANGED committed

\* CreateCycleCountSession: line after line, what there is of its cell at that moment.
SnapshotLine(t) ==
    /\ tx[t].pc = "run" /\ tx[t].op = "OpenCount"
    /\ Len(tx[t].rows) < Len(Doc[tx[t].doc].cells)
    /\ LET c == Doc[tx[t].doc].cells[Len(tx[t].rows) + 1]
       IN  tx' = [tx EXCEPT ![t].rows = Append(@, [sys |-> level[c], cnt |-> None, adj |-> FALSE])]
    /\ UNCHANGED committed

\* SELECT ... FOR UPDATE of the document and the check of its status; todo are the
\* adjustments that follow.
LockAny(t, op, from, todo) ==   \* whatever the status
    /\ tx[t].pc = "run" /\ tx[t].op = op /\ WaitsFor(t) = {}
    /\ tx' = [tx EXCEPT ![t].todo = todo, ![t].pc = "move"]
    /\ UNCHANGED committed

LockDocument(t, op, from, todo) ==
    /\ tx[t].pc = "run" /\ tx[t].op = op /\ WaitsFor(t) = {}
    /\ IF status[tx[t].doc] \in from
       THEN tx' = [tx EXCEPT ![t].todo = todo, ![t].pc = "move"]
       ELSE End(t)
    /\ UNCHANGED committed

CompleteTransfer(t) ==
    LET doc == Doc[tx[t].doc]
    IN  LockDocument(t, "CompleteTransfer", {"draft"},
                     <<[cell |-> doc.from, change |-> -doc.qty], [cell |-> doc.to, change |-> doc.qty]>>)

CancelTransfer(t) == LockDocument(t, "CancelTransfer", {"draft"}, <<>>)

\* The lines of the bill of material come in any order.
StartProductionOrder(t) ==
    /\ tx[t].op = "StartProductionOrder"
    /\ \E todo \in InAnyOrder(Parts(tx[t].doc)) :
           LockDocument(t, "StartProductionOrder", {"planned"}, todo)

CompleteProductionOrder(t) ==
    LockDocument(t, "CompleteProductionOrder", {"in_progress"},
                 <<[cell |-> Doc[tx[t].doc].out, change |-> tx[t].amt]>>)

\* What was issued stays issued.
CancelProductionOrder(t) == LockDocument(t, "CancelProductionOrder", {"planned", "in_progress"}, <<>>)

\* CompleteCycleCountSession without adjust.
CloseCount(t) == LockDocument(t, "CloseCount", {"open"}, <<>>)

\* CompleteCycleCountSession with adjust: the session is locked, the lines that differ are
\* listed as they are when that statement starts ...
AdjustCount(t) ==
    /\ tx[t].pc = "run" /\ tx[t].op = "AdjustCount" /\ WaitsFor(t) = {}
    /\ IF status[tx[t].doc] = "open" THEN tx' = [tx EXCEPT ![t].pc = "list"] ELSE End(t)
    /\ UNCHANGED committed

ListLines(t) ==
    /\ tx[t].pc = "list"
    /\ LET l == lines[tx[t].doc]
       IN  tx' = [tx EXCEPT ![t].todo = {n \in DOMAIN l : Variance(l[n]) # 0}, ![t].pc = "lock"]
    /\ UNCHANGED committed

AdjustToCount(t) == \* makes the level what was counted
    /\ tx[t].pc = "lock" /\ WaitsFor(t) = {}
    /\ LET d == tx[t].doc
           rows == [n \in {m \in tx[t].todo : Variance(lines[d][m]) # 0} |-> [lines[d][n] EXCEPT !.adj = TRUE]]
           counts == [n \in DOMAIN rows |-> [cell |-> Doc[d].cells[n], change |-> rows[n].cnt - level[Doc[d].cells[n]]]]
       IN  \E todo \in InAnyOrder(counts) :
               tx' = [tx EXCEPT ![t].pc = "move", ![t].todo = todo, ![t].rows = rows]
    /\ UNCHANGED committed

\* ... are locked, left out if they no longer differ, and adjusted in any order.
LockLines(t) ==
    /\ tx[t].pc = "lock" /\ WaitsFor(t) = {}
    /\ LET d == tx[t].doc
           rows == [n \in {m \in tx[t].todo : Variance(lines[d][m]) # 0} |-> [lines[d][n] EXCEPT !.adj = TRUE]]
       IN  \E todo \in InAnyOrder(Adjustments(d, rows)) :
               tx' = [tx EXCEPT ![t].pc = "move", ![t].todo = todo, ![t].rows = rows]
    /\ UNCHANGED committed

AdjustUnlocked(t) ==    \* reads the level without its lock
    /\ tx[t].pc = "move" /\ tx[t].todo # <<>>
    /\ LET m == Head(tx[t].todo)  now == Sees(tx[t])[m.cell] + m.change
       IN  IF now >= 0
           THEN tx' = [tx EXCEPT ![t].todo = Tail(@), ![t].held = Over([c \in {m.cell} |-> now], @), ![t].log = Append(@, m)]
           ELSE End(t)
    /\ UNCHANGED committed

AdjustUnchecked(t) ==   \* below zero too
    /\ tx[t].pc = "move" /\ tx[t].todo # <<>> /\ WaitsFor(t) = {}
    /\ LET m == Head(tx[t].todo)  now == Sees(tx[t])[m.cell] + m.change
       IN  tx' = [tx EXCEPT ![t].todo = Tail(@), ![t].held = Over([c \in {m.cell} |-> now], @), ![t].log = Append(@, m)]
    /\ UNCHANGED committed

\* AdjustStockTx: lock the level, refuse to go below zero, write it and the movement.
AdjustStockTx(t) ==
    /\ tx[t].pc = "move" /\ tx[t].todo # <<>> /\ WaitsFor(t) = {}
    /\ LET m == Head(tx[t].todo)  now == Sees(tx[t])[m.cell] + m.change
       IN  IF now >= 0
           THEN tx' = [tx EXCEPT ![t].todo = Tail(@), ![t].held = Over([c \in {m.cell} |-> now], @), ![t].log = Append(@, m)]
           ELSE End(t)
    /\ UNCHANGED committed

\* RecordCount reads the session's status, without a lock ...
CheckSession(t) ==
    /\ tx[t].pc = "run" /\ tx[t].op = "RecordCount"
    /\ IF status[tx[t].doc] = "open" THEN tx' = [tx EXCEPT ![t].pc = "count"] ELSE End(t)
    /\ UNCHANGED committed

\* ... and updates the line.
RecordCount(t) ==
    /\ tx[t].pc = "count" /\ WaitsFor(t) = {}
    /\ tx' = [tx EXCEPT ![t].pc = "counted",
                        ![t].rows = [n \in {tx[t].line} |-> [lines[tx[t].doc][n] EXCEPT !.cnt = tx[t].amt]]]
    /\ UNCHANGED committed

\* What is posted to the journal: what finished goods are made of, what a count has corrected.
Posted(t) ==
    LET d == tx[t].doc  op == tx[t].op  IN
    CASE op = "CompleteProductionOrder" -> -Value(issues[d])
      [] op = "AdjustCount" -> Value(Adjustments(d, tx[t].rows))
      [] OTHER         -> 0

\* The entry is posted unless it is zero, the status written and everything committed.
Commit(t) ==
    /\ \/ tx[t].pc = "move" /\ tx[t].todo = <<>>
       \/ tx[t].pc = "counted"
       \/ /\ tx[t].pc = "run" /\ tx[t].op = "OpenCount"
          /\ Len(tx[t].rows) = Len(Doc[tx[t].doc].cells)
    /\ LET d == tx[t].doc  op == tx[t].op  IN
       /\ level' = Sees(tx[t])
       /\ moves' = [moves EXCEPT ![d] = @ \o tx[t].log]
       /\ issues' = IF op = "StartProductionOrder" THEN [issues EXCEPT ![d] = tx[t].log] ELSE issues
       /\ lines' = [lines EXCEPT ![d] = Over(tx[t].rows, @)]
       /\ books' = [books EXCEPT ![d] = @ + Posted(t)]
       /\ status' = IF op = "RecordCount" THEN status
                    ELSE [status EXCEPT ![d] = To[op]]
    /\ End(t)

\* A statement fails, or the server stops: the transaction is rolled back.
Abort(t) == Faulty /\ t \in Open /\ End(t) /\ UNCHANGED committed

\* The database ends a transaction of a set that waits for itself.
BreakDeadlock(t) ==
    /\ \E S \in SUBSET Open : /\ t \in S /\ UNION {WaitsFor(u) : u \in S} = S
                              /\ \A u \in S : WaitsFor(u) # {}
    /\ End(t) /\ UNCHANGED committed

Step(t) ==
    \/ CompleteTransfer(t) \/ CancelTransfer(t)
    \/ StartProductionOrder(t) \/ CompleteProductionOrder(t) \/ CancelProductionOrder(t)
    \/ SnapshotLine(t) \/ CheckSession(t) \/ RecordCount(t)
    \/ CloseCount(t) \/ AdjustCount(t) \/ ListLines(t) \/ LockLines(t)
    \/ AdjustStockTx(t) \/ Commit(t) \/ BreakDeadlock(t)

Next == (\E d \in Docs : CreateTransfer(d) \/ CreateProductionOrder(d))
        \/ (\E t \in Txns : Begin(t) \/ Step(t) \/ Abort(t))

Spec == Init /\ [][Next]_vars
-------------------------------------------------------------------------------
Movement == [cell : Cells, change : Int]

\* The values of the variables; no level is below zero, no row has two holders.
TypeOK ==
    /\ level \in [Cells -> Nat] /\ books \in [Docs -> Int]
    /\ \A d \in Docs : moves[d] \in Seq(Movement) /\ issues[d] \in Seq(Movement)
    /\ \A d \in Docs : status[d] \in {"absent"} \cup
         (CASE Kind(d) = "transfer" -> {"draft", "completed", "cancelled"}
            [] Kind(d) = "order"    -> {"planned", "in_progress", "completed", "cancelled"}
            [] Kind(d) = "count"    -> {"open", "completed"})
    /\ \A d \in Docs : \A n \in DOMAIN lines[d] :
         lines[d][n] \in [sys : Nat, cnt : Nat \cup {None}, adj : BOOLEAN]
    /\ \A t, u \in Open : t # u => /\ DOMAIN tx[t].held \cap DOMAIN tx[u].held = {}
                                   /\ \A d \in Docs : ~(HoldsDoc(t, d) /\ HoldsDoc(u, d))

ChangeOf(ms, c) == SumFunction([n \in DOMAIN ms |-> IF ms[n].cell = c THEN ms[n].change ELSE 0])

\* Summing the movements of a cell reconstructs its level (AdjustStockTx, stock_movements),
\* whatever calls of whatever kinds run at once, fail or are ended by the deadlock detector.
StockIsMovements ==
    \A c \in Cells : level[c] = Opening[c] + SumFunction([d \in Docs |-> ChangeOf(moves[d], c)])

\* A document has moved exactly what its status says, once: a transfer out and in when it is
\* completed, an order all of its parts when it was started and then its product, a count one
\* movement for each line that it adjusted and nothing before it is closed (CompleteTransfer,
\* StartProductionOrder, CompleteProductionOrder, CompleteCycleCountSession).
MovesMatchStatus(d) ==
    LET s == status[d]  ms == moves[d]  IN
    CASE Kind(d) = "transfer" ->
           ms = IF s = "completed" THEN <<[cell |-> Doc[d].from, change |-> -Doc[d].qty],
                                         [cell |-> Doc[d].to, change |-> Doc[d].qty]>>
                ELSE <<>>
      [] Kind(d) = "order" ->
           /\ s \in {"absent", "planned"} => ms = <<>>
           /\ s = "in_progress" => ms \in InAnyOrder(Parts(d))
           /\ s = "cancelled" => ms = <<>> \/ ms \in InAnyOrder(Parts(d))
           /\ s = "completed" => /\ ms # <<>> /\ Front(ms) \in InAnyOrder(Parts(d))
                                 /\ Last(ms).cell = Doc[d].out /\ Last(ms).change > 0
      [] Kind(d) = "count" ->
           /\ s # "completed" => ms = <<>>
           /\ LET adjusted == {n \in DOMAIN lines[d] : lines[d][n].adj}
              IN  [n \in DOMAIN ms |-> ms[n].cell] \in InAnyOrder([n \in adjusted |-> Doc[d].cells[n]])

\* The journal follows the stock: a completed order has posted the cost of the parts it was
\* issued, a count the value of what it has moved, and no document anything else
\* (CompleteProductionOrder, CompleteCycleCountSession).
BooksFollowStock(d) ==
    books[d] = CASE Kind(d) = "order" /\ status[d] = "completed" -> -Value(Front(moves[d]))
                 [] Kind(d) = "count" -> Value(moves[d])
                 [] OTHER -> 0

\* What a document has moved and what it has posted are those of its status.
DocumentsTellTheTruth == \A d \in Docs : MovesMatchStatus(d) /\ BooksFollowStock(d)

\* Nothing happens to a document that was completed or cancelled (the status checks under
\* FOR UPDATE), though both are asked for at once.
StatusIsFinal == [][\A d \in Docs : status[d] \in {"completed", "cancelled"} => status'[d] = status[d]]_vars

\* An adjustment keeps what was moved while the count was open: the level of a cell becomes what
\* was counted there, plus everything that came or went since its line was opened, and a level
\* no line of which was adjusted stays (CompleteCycleCountSession adds the variance).  A cell that
\* two lines are adjusted of is excepted: each adds its own variance (cyclecounts.go:137-160
\* takes a cell twice, and migration 0028 allows it).
CountKeepsMovements ==
    [][\A d \in Docs : Kind(d) = "count" /\ status[d] = "open" /\ status'[d] = "completed" =>
          \A c \in Cells :
             LET adjusted == {n \in DOMAIN lines[d] : lines'[d][n].adj /\ Doc[d].cells[n] = c}
             IN  /\ adjusted = {} => level'[c] = level[c]
                 /\ \A n \in adjusted : adjusted = {n} =>
                       level'[c] = lines'[d][n].cnt + (level[c] - lines[d][n].sys)]_vars

\* What is completed stays so, and was completed with what happened meanwhile.
CompletionsStand == StatusIsFinal /\ CountKeepsMovements
================================================================================
