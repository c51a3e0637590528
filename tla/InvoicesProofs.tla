------------------------------- MODULE InvoicesProofs -------------------------------
(* Proofs about Invoices, for every set of invoices, of calls and of transactions.       *)
(* InvoicesInv is the inductive invariant: what each open transaction has written so     *)
(* far, by the kind of its call and the statement it is at (CreateOK, EditOK, StatusOK,   *)
(* PayOK), no row held twice (Disjoint), and what is true of the committed tables          *)
(* (TablesOK).  It holds whatever overlaps.  QuietInv adds what a transaction has read    *)
(* and still counts on, for the invoices about which no calls overlapped.                *)
EXTENDS Invoices, SumLemmas

\* The invariant speaks of a transaction x by itself, and of what is committed by the values
\* of its tables, so that each statement of it can be carried over a step of another.
Working == {"run", "sum", "write", "insert", "commit"}
Own(x) == x.call.invs[x.k]
MyRow(t, x) == Row(t, Own(x), x.call.amt)

IsTx(x) ==
    /\ x = [pc |-> x.pc, call |-> x.call, line |-> x.line, k |-> x.k, was |-> x.was,
            seen |-> x.seen, sum |-> x.sum, w |-> x.w]
    /\ x.w = [number |-> x.w.number, status |-> x.w.status, total |-> x.w.total, add |-> x.w.add,
              del |-> x.w.del, pay |-> x.w.pay, entry |-> x.w.entry, audit |-> x.w.audit]

\* What a transaction of each kind has written, at each of its statements.
CreateOK(t, x, nu, ne) ==
    /\ x.pc \in {"run", "commit"} /\ nu[Own(x)] = 0
    /\ x.w = IF x.pc = "run" THEN Nothing
             ELSE [Nothing EXCEPT !.number = ne, !.status = Just(Own(x), "draft"),
                                  !.total = Just(Own(x), x.call.amt), !.add = {MyRow(t, x)}]

EditOK(t, x, nu) ==
    /\ x.pc \in {"run", "sum", "write", "commit"}
    /\ x.w = [Nothing EXCEPT !.total = IF x.pc = "commit" THEN Just(Own(x), x.sum) ELSE NoneOf,
                             !.add = x.w.add, !.del = x.w.del]
    /\ x.pc = "run" => x.w = Nothing
    /\ x.pc # "run" => nu[Own(x)] # 0
    /\ x.w.add \subseteq Rows(Txns \cup Ids, Nat) /\ IsFiniteSet(x.w.add)
    /\ \A row \in x.w.add \cup x.w.del : row.inv = Own(x)
    /\ x.sum \in Nat

StatusOK(t, x, nu) ==
    /\ x.pc \in {"run", "write", "commit"}
    /\ x.w = [Nothing EXCEPT !.status = x.w.status, !.audit = x.w.audit]
    /\ DOMAIN x.w.status = {x.call.invs[j] : j \in 1 .. (IF x.pc = "commit" THEN x.k ELSE x.k - 1)}
    /\ x.pc = "commit" => x.k = Len(x.call.invs)
    /\ \A i \in DOMAIN x.w.status : x.w.status[i] = x.call.to /\ nu[i] # 0
    /\ {a.inv : a \in x.w.audit} = DOMAIN x.w.status
    /\ x.w.audit \subseteq [id : {t}, inv : Ids, from : Statuses, to : Statuses]
    /\ x.pc = "write" => /\ nu[Own(x)] # 0 /\ x.was \in Statuses
                         /\ x.call.to \in allowedStatusTransitions[x.was]

Received(t, x) == [Nothing EXCEPT !.pay = {MyRow(t, x)}]
Closing(t, x) ==
    [Nothing EXCEPT !.pay = {MyRow(t, x)}, !.status = Just(Own(x), "paid"),
                    !.entry = {Row(t, Own(x), x.seen)}]

PayOK(t, x, nu) ==
    /\ x.pc \in {"run", "insert", "write", "commit"}
    /\ x.pc # "run" => nu[Own(x)] # 0 /\ x.seen \in Nat
    /\ x.pc \in {"run", "insert"} => x.w = Nothing
    /\ x.pc = "write" => x.w = Received(t, x)
    /\ x.pc = "commit" => \/ x.w = Received(t, x)
                          \/ x.w = Closing(t, x) /\ x.seen > 0

WorkOK(t, x, nu, ne) ==
    /\ x.k \in 1 .. Len(x.call.invs)
    /\ x.call.kind = "create" => CreateOK(t, x, nu, ne)
    /\ x.call.kind \in Edits => EditOK(t, x, nu)
    /\ x.call.kind = "status" => StatusOK(t, x, nu)
    /\ x.call.kind = "pay" => PayOK(t, x, nu)

\* What is known of a call that is over, or has only its event to send.
Told(t, x, nu, en) == \/ x.call.kind = "create" /\ nu[x.call.invs[1]] # 0
                      \/ x.call.kind = "pay" /\ \E row \in en : row.id = t

EndOK(t, x, nu, en, au) ==
    /\ x.w = Nothing
    /\ x.pc = "notify" => Told(t, x, nu, en)
    /\ x.pc = "done" /\ x.call.kind = "status" =>
          {a.inv : a \in {b \in au : b.id = t}} = Range(x.call.invs)

TxOK(t, x, nu, ne, en, au, pa) ==
    /\ IsTx(x)
    /\ x.pc \in {"idle", "notify", "done", "failed"} \cup Working
    /\ x.pc = "idle" => x = Idle
    /\ x.pc # "idle" => x.call \in Calls[t]
    /\ x.pc \in Working => WorkOK(t, x, nu, ne)
    /\ x.pc \notin Working => EndOK(t, x, nu, en, au)
    /\ x.pc # "done" => \A a \in au : a.id # t
    /\ x.pc \notin {"notify", "done"} => \A p \in pa : p.id # t

\* No two transactions hold the same row, nor create the same invoice.
Creating(x) == x.pc \in Working /\ x.call.kind = "create"
Held(x) == DOMAIN x.w.status \cup DOMAIN x.w.total
Disjoint(x, y) ==
    /\ ~(x.w.number # 0 /\ y.w.number # 0)
    /\ Held(x) \cap Held(y) = {}
    /\ ~(Creating(x) /\ Creating(y) /\ Own(x) = Own(y))

\* The tables.
TablesOK ==
    /\ status \in [Ids -> Statuses] /\ total \in [Ids -> Nat] /\ number \in [Ids -> Nat]
    /\ lines \subseteq Rows(Txns \cup Ids, Nat) /\ IsFiniteSet(lines)
    /\ \A row \in lines \cup payments \cup entries : number[row.inv] # 0
    /\ payments \subseteq Rows(Txns, Nat1) /\ IsFiniteSet(payments)
    /\ entries \subseteq Rows(Txns, Nat1) /\ IsFiniteSet(entries)
    /\ audit \subseteq [id : Txns, inv : Ids, from : Statuses, to : Statuses]
    /\ next \in Nat1
    /\ NumbersGapless /\ CloseIsWhole

EventsOK ==
    \A e \in events : /\ e \in {"invoice.created", "invoice.paid"} \X Txns
                      /\ tx[e[2]].pc = "done"
                      /\ IF e[1] = "invoice.paid" THEN \E row \in entries : row.id = e[2]
                         ELSE number[tx[e[2]].call.invs[1]] # 0

InvoicesInv ==
    /\ tx = [t \in Txns |-> tx[t]]
    /\ \A t \in Txns : TxOK(t, tx[t], number, next, entries, audit, payments)
    /\ \A t, u \in Txns : t # u => Disjoint(tx[t], tx[u])
    /\ TablesOK /\ EventsOK

\* The history of overlaps is of calls, and knows every pair that is open.
MetOK ==
    /\ \A pair \in met : \A t \in pair : t \in Txns /\ tx[t].pc # "idle"
    /\ \A t, u \in Open : t # u /\ Range(tx[t].call.invs) \cap Range(tx[u].call.invs) # {} => {t, u} \in met

\* What is so of an invoice whose line edits did not overlap.
SumsUp(i, x, li) ==
    x.call.kind \in Edits /\ Own(x) = i /\ x.pc \in {"write", "commit"} =>
        x.sum = Sum(Of((li \ x.w.del) \cup x.w.add, i))

\* Whose payments and status updates did not.
Seen(i, x, s) ==
    /\ x.call.kind = "pay" /\ Own(x) = i /\ x.pc \in {"insert", "write", "commit"} =>
          /\ x.was = s /\ s # "cancelled"
          /\ x.pc = "write" \/ x.w.entry # {} => s # "paid"
    /\ x.call.kind = "status" =>
          /\ i \in DOMAIN x.w.status => x.call.to \in allowedStatusTransitions[s]
          /\ x.pc = "write" /\ Own(x) = i => x.was = s /\ i \notin DOMAIN x.w.status

\* Of whose calls none did.
Covers(t, i, x, to, pa) ==
    x.call.kind = "pay" /\ Own(x) = i /\ x.pc \in {"insert", "write", "commit"} =>
        /\ x.seen = to
        /\ x.pc = "write" \/ x.w.entry # {} => Sum(Of(pa, i) \cup {MyRow(t, x)}) >= to
        /\ x.pc = "commit" /\ x.w.entry = {} =>
              x.was = "paid" \/ Sum(Of(pa, i) \cup {MyRow(t, x)}) < to

Busy == {t \in Txns : tx[t].pc \in Working}
QuietInv ==
    /\ MetOK
    /\ \A i \in Ids : Apart(Edits, i) =>
          total[i] = Sum(Of(lines, i)) /\ \A t \in Busy : SumsUp(i, tx[t], lines)
    /\ \A i \in Ids : Apart(Moves, i) =>
          /\ Of(entries, i) # {} => status[i] = "paid"
          /\ \A e, f \in Of(entries, i) : e = f
          /\ \A t \in Busy : Seen(i, tx[t], status[i])
    /\ \A i \in Ids : Apart(Edits \cup Moves, i) =>
          /\ Sum(Of(entries, i)) <= Sum(Of(payments, i))
          /\ \A t \in Busy : Covers(t, i, tx[t], total[i], payments)

-------------------------------------------------------------------------------------
(* Steps of one transaction that commit nothing keep InvoicesInv. *)

\* A step of t alone, of which the tables know nothing yet.
Steps(t, f, g) == g = [u \in Txns |-> IF u = t THEN g[t] ELSE f[u]]

\* A step of one transaction alone, whose new state is sound and shares no row with the others',
\* keeps the invariant.
LEMMA OwnStep ==
  ASSUME InvoicesInv, NEW t \in Txns, Steps(t, tx, tx'), tx[t].pc # "done",
         TxOK(t, tx'[t], number, next, entries, audit, payments),
         \A u \in Txns : u # t => Disjoint(tx'[t], tx[u]) /\ Disjoint(tx[u], tx'[t]),
         UNCHANGED <<committed, events>>
  PROVE  InvoicesInv'
<1>1. \A u \in Txns : u # t => tx'[u] = tx[u]
  BY DEF Steps
<1>2. tx' = [u \in Txns |-> tx'[u]]
  BY DEF Steps
<1>3. /\ status' = status /\ total' = total /\ number' = number /\ lines' = lines /\ payments' = payments
      /\ entries' = entries /\ audit' = audit /\ next' = next /\ events' = events
  BY DEF committed
<1>4. TablesOK'
  BY <1>3 DEF InvoicesInv, TablesOK, NumbersGapless, CloseIsWhole, Exists, Of
<1>5. EventsOK'
  BY <1>1, <1>3 DEF InvoicesInv, EventsOK
<1>6. \A u \in Txns : TxOK(u, tx'[u], number, next, entries, audit, payments)
  BY <1>1 DEF InvoicesInv
<1>7. \A u, v \in Txns : u # v => Disjoint(tx'[u], tx'[v])
  BY <1>1 DEF InvoicesInv
<1> QED
  BY <1>2, <1>3, <1>4, <1>5, <1>6, <1>7 DEF InvoicesInv

\* A transaction that has nothing written is in nobody's way.
LEMMA NothingDisjoint ==
  ASSUME NEW x, NEW y, x.w = Nothing, ~(Creating(x) /\ Creating(y) /\ Own(x) = Own(y))
  PROVE  Disjoint(x, y) /\ Disjoint(y, x)
BY DEF Disjoint, Held, Nothing, NoneOf

\* Sharing no row is mutual.
LEMMA DisjointSym ==
  ASSUME NEW x, NEW y, Disjoint(x, y)
  PROVE  Disjoint(y, x)
BY DEF Disjoint

\* A transaction by itself.
LEMMA TxnFacts ==
  ASSUME InvoicesInv, NEW t \in Txns
  PROVE  /\ TxOK(t, tx[t], number, next, entries, audit, payments) /\ IsTx(tx[t])
         /\ tx[t].pc # "idle" => tx[t].call \in Calls[t]
         /\ tx[t].pc \in Working => WorkOK(t, tx[t], number, next) /\ Inv(t) = Own(tx[t])
BY DEF InvoicesInv, TxOK, Inv, Own

\* What calls ask for.
LEMMA CallFacts ==
  ASSUME NEW t \in Txns, NEW c \in Calls[t]
  PROVE  /\ c.kind \in {"create", "add", "set", "drop", "status", "pay"}
         /\ c.invs \in Seq(Ids) /\ Len(c.invs) \in Nat \ {0} /\ 1 \in DOMAIN c.invs
         /\ \A k \in 1 .. Len(c.invs) : c.invs[k] \in Ids
         /\ c.kind # "status" => Len(c.invs) = 1 /\ c.amt \in Nat
         /\ c.kind = "pay" => c.amt > 0
         /\ c.kind = "status" => c.to \in Statuses \ {"paid"}
<1>1. /\ c.kind \in {"create", "add", "set", "drop", "status", "pay"}
      /\ c.invs \in Seq(Ids) /\ c.invs # <<>>
      /\ c.kind # "status" => Len(c.invs) = 1 /\ c.amt \in Nat
      /\ c.kind = "pay" => c.amt > 0
      /\ c.kind = "status" => c.to \in Statuses \ {"paid"}
  BY CallsAssumption
<1> QED
  BY <1>1

\* An open call is one of the calls, and the invoice it is at exists as an id.
LEMMA OwnIn ==
  ASSUME InvoicesInv, NEW t \in Txns, tx[t].pc \in Working
  PROVE  Own(tx[t]) \in Ids /\ tx[t].call \in Calls[t]
<1>1. tx[t].call \in Calls[t] /\ tx[t].k \in 1 .. Len(tx[t].call.invs)
  BY TxnFacts DEF Working, WorkOK
<1> QED
  BY <1>1, CallFacts DEF Own

\* A call that is over.
Ends(y, p, c) == y = [Idle EXCEPT !.pc = p, !.call = c]

\* What a call that has ended still holds.
LEMMA CallEnds ==
  ASSUME NEW p, NEW c, NEW y, Ends(y, p, c)
  PROVE  y.pc = p /\ y.call = c /\ y.w = Nothing /\ y.k = 1 /\ IsTx(y)
<1>1. y = [pc |-> p, call |-> c, line |-> None, k |-> 1, was |-> None, seen |-> 0, sum |-> 0, w |-> Nothing]
  BY DEF Idle, Ends
<1>2. Nothing = [number |-> Nothing.number, status |-> Nothing.status, total |-> Nothing.total,
                 add |-> Nothing.add, del |-> Nothing.del, pay |-> Nothing.pay,
                 entry |-> Nothing.entry, audit |-> Nothing.audit]
  BY DEF Nothing
<1>3. /\ y.pc = p /\ y.call = c /\ y.w = Nothing /\ y.k = 1 /\ y.line = None /\ y.was = None
      /\ y.seen = 0 /\ y.sum = 0
  BY DEF Idle, Ends
<1>4. IsTx(y)
  BY <1>1, <1>2, <1>3, Zenon DEF IsTx
<1> QED
  BY <1>3, <1>4

\* A transaction that is rolled back.
LEMMA FailKeeps ==
  ASSUME InvoicesInv, NEW t \in Txns, tx[t].pc \in Working, Fail(t), UNCHANGED <<committed, events>>
  PROVE  InvoicesInv'
<1> DEFINE x == tx[t]
<1>0. PICK y : Ends(y, "failed", tx[t].call)
  BY DEF Ends
<1>1. TxOK(t, x, number, next, entries, audit, payments) /\ x.call \in Calls[t] /\ tx = [u \in Txns |-> tx[u]]
  BY TxnFacts DEF InvoicesInv, Working
<1>2. tx' = [tx EXCEPT ![t] = y]
  BY <1>0 DEF Fail, End, Ends
<1>3. tx'[t] = y /\ Steps(t, tx, tx')
  BY <1>1, <1>2 DEF Steps
<1>4. y.pc = "failed" /\ y.call = x.call /\ y.w = Nothing /\ IsTx(y)
  BY <1>0, CallEnds
<1>5. TxOK(t, y, number, next, entries, audit, payments)
  BY <1>1, <1>4 DEF TxOK, EndOK, Working
<1>6. \A u \in Txns : Disjoint(y, tx[u]) /\ Disjoint(tx[u], y)
  BY <1>4, NothingDisjoint DEF Creating, Working
<1> QED
  BY <1>1, <1>3, <1>5, <1>6, OwnStep DEF Working

\* A transaction whose event is lost, or sent.
LEMMA EndKeeps ==
  ASSUME InvoicesInv, NEW t \in Txns, tx[t].pc = "notify", End(t, "done"), UNCHANGED committed,
         events' = events \/ Dispatch(t)
  PROVE  InvoicesInv'
<1> DEFINE x == tx[t]
<1>0. PICK y : Ends(y, "done", tx[t].call)
  BY DEF Ends
<1>1. TxOK(t, x, number, next, entries, audit, payments) /\ x.call \in Calls[t] /\ tx = [u \in Txns |-> tx[u]]
  BY TxnFacts DEF InvoicesInv
<1>2. tx' = [tx EXCEPT ![t] = y]
  BY <1>0 DEF End, Ends
<1>3. tx'[t] = y /\ Steps(t, tx, tx')
  BY <1>1, <1>2 DEF Steps
<1>4. y.pc = "done" /\ y.call = x.call /\ y.w = Nothing /\ IsTx(y)
  BY <1>0, CallEnds
<1>5. Told(t, x, number, entries)
  BY <1>1 DEF TxOK, EndOK, Working
<1>6. TxOK(t, y, number, next, entries, audit, payments)
  BY <1>1, <1>4, <1>5 DEF TxOK, EndOK, Told, Working
<1>7. \A u \in Txns : Disjoint(y, tx[u]) /\ Disjoint(tx[u], y)
  BY <1>4, NothingDisjoint DEF Creating, Working
<1>8. CASE events' = events
  BY <1>1, <1>3, <1>6, <1>7, <1>8, OwnStep
<1>9. CASE Dispatch(t)
  <2> DEFINE e == <<IF x.call.kind = "pay" THEN "invoice.paid" ELSE "invoice.created", t>>
  <2>1. events' = events \cup {e}
    BY <1>9 DEF Dispatch
  <2>2. /\ e \in {"invoice.created", "invoice.paid"} \X Txns
        /\ e[2] = t /\ (e[1] = "invoice.paid" <=> x.call.kind = "pay")
    OBVIOUS
  <2> HIDE DEF e
  <2>3. \A u \in Txns : u # t => tx'[u] = tx[u]
    BY <1>3 DEF Steps
  <2>4. /\ status' = status /\ total' = total /\ number' = number /\ lines' = lines /\ payments' = payments
        /\ entries' = entries /\ audit' = audit /\ next' = next
    BY DEF committed
  <2>5. EventsOK'
    <3>1. \A f \in events : /\ f \in {"invoice.created", "invoice.paid"} \X Txns
                            /\ f[2] \in Txns /\ f[2] # t
                            /\ tx[f[2]].pc = "done"
                            /\ IF f[1] = "invoice.paid" THEN \E row \in entries : row.id = f[2]
                               ELSE number[tx[f[2]].call.invs[1]] # 0
      BY DEF InvoicesInv, EventsOK
    <3>2. /\ tx'[e[2]].pc = "done"
          /\ IF e[1] = "invoice.paid" THEN \E row \in entries : row.id = e[2]
             ELSE number[tx'[e[2]].call.invs[1]] # 0
      BY <1>3, <1>4, <1>5, <2>2 DEF Told
    <3> QED
      BY <2>1, <2>2, <2>3, <2>4, <3>1, <3>2 DEF EventsOK
  <2>6. TablesOK'
    BY <2>4 DEF InvoicesInv, TablesOK, NumbersGapless, CloseIsWhole, Exists, Of
  <2>7. \A u \in Txns : TxOK(u, tx'[u], number, next, entries, audit, payments)
    BY <1>3, <1>6, <2>3 DEF InvoicesInv
  <2>8. \A u, v \in Txns : u # v => Disjoint(tx'[u], tx'[v])
    BY <1>3, <1>7, <2>3 DEF InvoicesInv
  <2>9. tx' = [u \in Txns |-> tx'[u]]
    BY <1>3 DEF Steps
  <2> QED
    BY <2>4, <2>5, <2>6, <2>7, <2>8, <2>9 DEF InvoicesInv
<1> QED
  BY <1>8, <1>9

\* What Nothing is.
LEMMA NothingIs ==
    /\ Nothing.number = 0 /\ DOMAIN Nothing.status = {} /\ DOMAIN Nothing.total = {}
    /\ Nothing.status = NoneOf /\ Nothing.total = NoneOf
    /\ Nothing.add = {} /\ Nothing.del = {} /\ Nothing.pay = {} /\ Nothing.entry = {}
    /\ Nothing.audit = {}
    /\ Nothing = [Nothing EXCEPT !.total = NoneOf, !.add = {}, !.del = {}]
    /\ Nothing = [Nothing EXCEPT !.status = Nothing.status, !.audit = {}]
<1>1. /\ Nothing.number = 0 /\ Nothing.status = NoneOf /\ Nothing.total = NoneOf
      /\ Nothing.add = {} /\ Nothing.del = {} /\ Nothing.pay = {} /\ Nothing.entry = {}
      /\ Nothing.audit = {}
  BY DEF Nothing
<1>2. DOMAIN NoneOf = {}
  BY DEF NoneOf
<1>3. PICK x : x = [Nothing EXCEPT !.total = NoneOf, !.add = {}, !.del = {}]
  OBVIOUS
<1>4. x = Nothing
  BY <1>3 DEF Nothing
<1>5. PICK y : y = [Nothing EXCEPT !.status = NoneOf, !.audit = {}]
  OBVIOUS
<1>6. y = Nothing
  BY <1>5 DEF Nothing
<1> QED
  BY <1>1, <1>2, <1>3, <1>4, <1>5, <1>6

\* A call before its first statement.
LEMMA FirstStatement ==
  ASSUME NEW t \in Txns, NEW x, x.call \in Calls[t], x.pc = "run", x.k = 1, x.w = Nothing, x.sum = 0,
         NEW nu, NEW ne, x.call.kind = "create" => nu[Own(x)] = 0
  PROVE  WorkOK(t, x, nu, ne)
<1>1. /\ Len(x.call.invs) \in Nat \ {0} /\ x.k \in 1 .. Len(x.call.invs)
  BY CallFacts
<1>2. CreateOK(t, x, nu, ne) \/ x.call.kind # "create"
  BY DEF CreateOK
<1>3. EditOK(t, x, nu)
  BY NothingIs, FS_EmptySet DEF EditOK
<1>4. StatusOK(t, x, nu)
  <2>1. 1 .. (x.k - 1) = {}
    OBVIOUS
  <2>2. {x.call.invs[j] : j \in 1 .. (x.k - 1)} = {}
    BY <2>1
  <2> QED
    BY <2>2, NothingIs DEF StatusOK
<1>5. PayOK(t, x, nu)
  BY DEF PayOK
<1> QED
  BY <1>1, <1>2, <1>3, <1>4, <1>5 DEF WorkOK

\* Begin keeps the invariant: the call has written nothing yet.
LEMMA BeginKeeps ==
  ASSUME InvoicesInv, NEW t \in Txns, Begin(t)
  PROVE  InvoicesInv'
<1>1. PICK c \in Calls[t], l \in {row.id : row \in lines} \cup {None} :
        /\ c.kind = "create" =>
              /\ ~Exists(c.invs[1])
              /\ \A u \in Open : tx[u].call.kind = "create" => tx[u].call.invs # c.invs
        /\ tx' = [tx EXCEPT ![t].pc = "run", ![t].call = c, ![t].line = l]
  BY DEF Begin
<1>2. /\ tx[t] = Idle /\ TxOK(t, tx[t], number, next, entries, audit, payments) /\ tx = [u \in Txns |-> tx[u]]
      /\ UNCHANGED <<committed, events>> /\ tx[t].pc = "idle"
  BY TxnFacts DEF Begin, TxOK, InvoicesInv
<1>3. PICK y : y = [Idle EXCEPT !.pc = "run", !.call = c, !.line = l]
  OBVIOUS
<1>4. tx'[t] = y /\ Steps(t, tx, tx')
  BY <1>1, <1>2, <1>3 DEF Steps
<1>5. /\ y.pc = "run" /\ y.call = c /\ y.w = Nothing /\ y.k = 1 /\ y.line = l /\ y.was = None
      /\ y.seen = 0 /\ y.sum = 0
  BY <1>3 DEF Idle
<1>6. y = [pc |-> "run", call |-> c, line |-> l, k |-> 1, was |-> None, seen |-> 0, sum |-> 0, w |-> Nothing]
  BY <1>3 DEF Idle
<1>7. Nothing = [number |-> Nothing.number, status |-> Nothing.status, total |-> Nothing.total,
                 add |-> Nothing.add, del |-> Nothing.del, pay |-> Nothing.pay,
                 entry |-> Nothing.entry, audit |-> Nothing.audit]
  BY DEF Nothing
<1>8. IsTx(y)
  BY <1>5, <1>6, <1>7, Zenon DEF IsTx
<1>9. WorkOK(t, y, number, next)
  BY <1>1, <1>5, FirstStatement DEF Own, Exists
<1>10. TxOK(t, y, number, next, entries, audit, payments)
  BY <1>2, <1>5, <1>8, <1>9 DEF TxOK, Working
<1>11. ASSUME NEW u \in Txns, u # t
       PROVE  Disjoint(y, tx[u]) /\ Disjoint(tx[u], y)
  <2>1. ~(Creating(y) /\ Creating(tx[u]) /\ Own(y) = Own(tx[u]))
    <3> SUFFICES ASSUME Creating(y), Creating(tx[u]), Own(y) = Own(tx[u]) PROVE FALSE
      OBVIOUS
    <3>1. u \in Open /\ tx[u].call.kind = "create" /\ c.kind = "create"
      BY <1>5 DEF Open, Ended, Creating, Working
    <3>2. tx[u].call \in Calls[u] /\ tx[u].k \in 1 .. Len(tx[u].call.invs)
      BY TxnFacts DEF Creating, Working, WorkOK
    <3>3. tx[u].call.invs \in Seq(Ids) /\ Len(tx[u].call.invs) = 1 /\ c.invs \in Seq(Ids) /\ Len(c.invs) = 1
      BY <3>1, <3>2, CallFacts
    <3>4. tx[u].call.invs[1] = c.invs[1]
      BY <1>5, <3>2, <3>3 DEF Own
    <3>5. tx[u].call.invs = c.invs
      BY <3>3, <3>4
    <3> QED
      BY <1>1, <3>1, <3>5
  <2> QED
    BY <1>5, <2>1, NothingDisjoint
<1> QED
  BY <1>2, <1>4, <1>10, <1>11, OwnStep

\* The rows of invoices that a transaction holds: the one it creates, or some that there are.
LEMMA HeldWho ==
  ASSUME InvoicesInv, NEW t \in Txns, NEW i \in Held(tx[t])
  PROVE  /\ tx[t].pc \in Working
         /\ number[i] # 0 \/ (Creating(tx[t]) /\ i = Own(tx[t]))
<1> DEFINE x == tx[t]
<1>1. TxOK(t, x, number, next, entries, audit, payments)
  BY TxnFacts
<1>2. x.pc \in Working
  BY <1>1, NothingIs DEF TxOK, EndOK, Held
<1>3. WorkOK(t, x, number, next) /\ x.call \in Calls[t]
  BY <1>1, <1>2 DEF TxOK, Working
<1>4. x.call.kind \in {"create", "add", "set", "drop", "status", "pay"}
  BY <1>3, CallFacts
<1>0. i \in DOMAIN x.w.status \/ i \in DOMAIN x.w.total
  BY DEF Held
<1>6. CASE x.call.kind = "create"
  <2>1. CreateOK(t, x, number, next)
    BY <1>3, <1>6 DEF WorkOK
  <2>2. PICK z : z = [Nothing EXCEPT !.number = next, !.status = Just(Own(x), "draft"),
                                     !.total = Just(Own(x), x.call.amt), !.add = {MyRow(t, x)}]
    OBVIOUS
  <2>3. x.w = Nothing \/ x.w = z
    BY <2>1, <2>2, Zenon DEF CreateOK
  <2>4. DOMAIN z.status = {Own(x)} /\ DOMAIN z.total = {Own(x)}
    BY <2>2 DEF Nothing, Just
  <2>5. i = Own(x)
    BY <1>0, <2>3, <2>4, NothingIs
  <2> QED
    BY <1>2, <1>6, <2>5 DEF Creating
<1>7. CASE x.call.kind \in Edits
  <2>1. EditOK(t, x, number)
    BY <1>3, <1>7 DEF WorkOK
  <2>2. x.w.status = NoneOf /\ x.w.total = IF x.pc = "commit" THEN Just(Own(x), x.sum) ELSE NoneOf
    BY <2>1, NothingIs DEF EditOK, Nothing
  <2>3. DOMAIN NoneOf = {} /\ DOMAIN Just(Own(x), x.sum) = {Own(x)}
    BY DEF NoneOf, Just
  <2>4. i = Own(x) /\ x.pc = "commit"
    BY <1>0, <2>2, <2>3
  <2> QED
    BY <1>2, <2>1, <2>4 DEF EditOK
<1>8. CASE x.call.kind = "status"
  <2>1. StatusOK(t, x, number)
    BY <1>3, <1>8 DEF WorkOK
  <2>2. x.w.total = NoneOf /\ DOMAIN NoneOf = {}
    BY <2>1 DEF StatusOK, Nothing, NoneOf
  <2>3. i \in DOMAIN x.w.status
    BY <1>0, <2>2
  <2>4. \A j \in DOMAIN x.w.status : number[j] # 0
    BY <2>1, Zenon DEF StatusOK
  <2>5. number[i] # 0
    BY <2>3, <2>4, Zenon
  <2> QED
    BY <1>2, <2>5, Zenon
<1>9. CASE x.call.kind = "pay"
  <2>1. PayOK(t, x, number)
    BY <1>3, <1>9 DEF WorkOK
  <2>2. x.w = Nothing \/ x.w = Received(t, x) \/ x.w = Closing(t, x)
    BY <1>2, <2>1 DEF PayOK, Working
  <2>3. /\ Received(t, x).status = NoneOf /\ Received(t, x).total = NoneOf
        /\ Closing(t, x).status = Just(Own(x), "paid") /\ Closing(t, x).total = NoneOf
    BY DEF Received, Closing, Nothing
  <2>4. DOMAIN NoneOf = {} /\ DOMAIN Just(Own(x), "paid") = {Own(x)}
    BY DEF NoneOf, Just
  <2>5. DOMAIN Nothing.status = {} /\ DOMAIN Nothing.total = {}
    BY NothingIs
  <2>6. x.w = Closing(t, x) /\ i = Own(x) /\ x.w # Nothing
    BY <1>0, <2>2, <2>3, <2>4, <2>5
  <2>7. x.pc # "run"
    BY <2>1, <2>6 DEF PayOK
  <2> QED
    BY <1>2, <2>1, <2>6, <2>7 DEF PayOK
<1> QED
  BY <1>4, <1>6, <1>7, <1>8, <1>9 DEF Edits

\* A transaction goes on with its call, holding no more than it did, but for an invoice that
\* nobody holds and the sequence when nobody does.
Goes(t, y) == /\ IsTx(y) /\ tx' = [tx EXCEPT ![t] = y]
              /\ y.call = tx[t].call /\ y.pc \in Working /\ WorkOK(t, y, number, next)
              /\ tx[t].call.kind = "create" => y.k = tx[t].k
FreeOf(t, y) == \A u \in Txns \ {t} : /\ y.w.number # 0 => tx[t].w.number # 0 \/ tx[u].w.number = 0
                                      /\ (Held(y) \ Held(tx[t])) \cap Held(tx[u]) = {}

\* A transaction that goes on without taking a row of another keeps the invariant.
LEMMA GoesKeeps ==
  ASSUME InvoicesInv, NEW t \in Txns, tx[t].pc \in Working, NEW y, Goes(t, y), FreeOf(t, y),
         UNCHANGED <<committed, events>>
  PROVE  InvoicesInv'
<1>1. /\ TxOK(t, tx[t], number, next, entries, audit, payments) /\ tx = [u \in Txns |-> tx[u]]
      /\ tx[t].call \in Calls[t]
  BY TxnFacts DEF InvoicesInv, Working
<1>2. tx'[t] = y /\ Steps(t, tx, tx')
  BY <1>1 DEF Goes, Steps
<1>3. TxOK(t, y, number, next, entries, audit, payments)
  BY <1>1 DEF Goes, TxOK, Working
<1>4. ASSUME NEW u \in Txns, u # t
      PROVE  Disjoint(y, tx[u])
  <2>1. Disjoint(tx[t], tx[u])
    BY <1>4 DEF InvoicesInv
  <2>2. ~(y.w.number # 0 /\ tx[u].w.number # 0) /\ Held(y) \cap Held(tx[u]) = {}
    <3>1. /\ ~(tx[t].w.number # 0 /\ tx[u].w.number # 0) /\ Held(tx[t]) \cap Held(tx[u]) = {}
          /\ y.w.number # 0 => tx[t].w.number # 0 \/ tx[u].w.number = 0
          /\ (Held(y) \ Held(tx[t])) \cap Held(tx[u]) = {}
      BY <1>4, <2>1, Zenon DEF Disjoint, FreeOf
    <3> QED
      BY <3>1
  <2>3. Creating(y) => Creating(tx[t]) /\ Own(y) = Own(tx[t])
    BY DEF Goes, Creating, Own
  <2> QED
    BY <2>1, <2>2, <2>3, Zenon DEF Disjoint
<1> QED
  BY <1>1, <1>2, <1>3, <1>4, DisjointSym, OwnStep DEF Working

\* A transaction with some of its fields changed is one still.
IsWritten(w) == w = [number |-> w.number, status |-> w.status, total |-> w.total, add |-> w.add,
                     del |-> w.del, pay |-> w.pay, entry |-> w.entry, audit |-> w.audit]
Becomes(x, y, p, k, was, seen, sum, w) ==
    y = [x EXCEPT !.pc = p, !.k = k, !.was = was, !.seen = seen, !.sum = sum, !.w = w]

\* The fields of a transaction after an update of them.
LEMMA StillTx ==
  ASSUME NEW x, IsTx(x), NEW p, NEW k, NEW was, NEW seen, NEW sum, NEW w, IsWritten(w),
         NEW y, Becomes(x, y, p, k, was, seen, sum, w)
  PROVE  /\ IsTx(y) /\ y.pc = p /\ y.k = k /\ y.was = was /\ y.seen = seen /\ y.sum = sum /\ y.w = w
         /\ y.call = x.call /\ y.line = x.line
<1>1. y = [pc |-> p, call |-> x.call, line |-> x.line, k |-> k, was |-> was, seen |-> seen, sum |-> sum, w |-> w]
  BY DEF IsTx, Becomes
<1>3. /\ y.pc = p /\ y.k = k /\ y.was = was /\ y.seen = seen /\ y.sum = sum /\ y.w = w
      /\ y.call = x.call /\ y.line = x.line
  BY <1>1
<1>4. IsTx(y)
  BY <1>1, <1>3, Zenon DEF IsTx, IsWritten
<1> QED
  BY <1>3, <1>4

\* InsertInvoice keeps the invariant: it writes the next number and the first line.
LEMMA InsertInvoiceKeeps ==
  ASSUME InvoicesInv, NEW t \in Txns, InsertInvoice(t)
  PROVE  InvoicesInv'
<1> DEFINE x == tx[t]
<1>1. /\ IsTx(x) /\ x.call \in Calls[t] /\ x.pc = "run" /\ x.pc \in Working /\ x.call.kind = "create"
      /\ WorkOK(t, x, number, next) /\ Inv(t) = Own(x) /\ tx = [u \in Txns |-> tx[u]]
      /\ UNCHANGED <<committed, events>>
  BY TxnFacts DEF InsertInvoice, Working, InvoicesInv
<1>2. x.w = Nothing /\ number[Own(x)] = 0 /\ x.k \in 1 .. Len(x.call.invs)
  BY <1>1 DEF WorkOK, CreateOK
<1>3. PICK w : w = [Nothing EXCEPT !.number = next, !.status = Just(Own(x), "draft"),
                                   !.total = Just(Own(x), x.call.amt), !.add = {MyRow(t, x)}]
  OBVIOUS
<1>4. PICK y : y = [x EXCEPT !.pc = "commit", !.w = w]
  OBVIOUS
<1>5. tx' = [tx EXCEPT ![t] = y]
  <2>1. PICK z : z = [x EXCEPT !.pc = "commit", !.w.number = next,
                        !.w.status = Just(Inv(t), "draft"),
                        !.w.total = Just(Inv(t), tx[t].call.amt),
                        !.w.add = {NewRow(t)}]
    OBVIOUS
  <2>2. tx' = [tx EXCEPT ![t] = z]
    BY <1>1, <2>1, ZenonT(60) DEF InsertInvoice
  <2>3. z = y
    BY <1>1, <1>2, <1>3, <1>4, <2>1 DEF NewRow, MyRow, IsTx, Nothing
  <2> QED
    BY <2>2, <2>3
<1>6. /\ w.number = next /\ w.status = Just(Own(x), "draft") /\ w.total = Just(Own(x), x.call.amt)
      /\ w.add = {MyRow(t, x)} /\ w.del = {} /\ w.pay = {} /\ w.entry = {} /\ w.audit = {}
      /\ IsWritten(w)
  BY <1>3 DEF Nothing, IsWritten
<1>7. Becomes(x, y, "commit", x.k, x.was, x.seen, x.sum, w)
  BY <1>1, <1>4 DEF IsTx, Becomes
<1>8. /\ IsTx(y) /\ y.pc = "commit" /\ y.k = x.k /\ y.w = w /\ y.call = x.call /\ y.pc \in Working
      /\ Own(y) = Own(x) /\ MyRow(t, y) = MyRow(t, x)
  BY <1>1, <1>6, <1>7, StillTx DEF Own, MyRow, Working
<1>9. WorkOK(t, y, number, next)
  <2>1. CreateOK(t, y, number, next)
    BY <1>2, <1>3, <1>8 DEF CreateOK
  <2> QED
    BY <1>1, <1>2, <1>8, <2>1 DEF WorkOK, Edits
<1>10. Goes(t, y)
  BY <1>1, <1>5, <1>8, <1>9 DEF Goes
<1>11. ASSUME NEW u \in Txns \ {t}
       PROVE  tx[u].w.number = 0 /\ Own(x) \notin Held(tx[u])
  <2>1. ~HoldsSequence(u)
    BY <1>1 DEF InsertInvoice, WaitsFor
  <2>2. Creating(x) /\ ~(Creating(tx[u]) /\ Own(tx[u]) = Own(x))
    BY <1>1 DEF InvoicesInv, Disjoint, Creating
  <2> QED
    BY <1>2, <2>1, <2>2, HeldWho DEF HoldsSequence
<1>12. Held(y) = {Own(x)}
  BY <1>6, <1>8 DEF Held, Just
<1>13. FreeOf(t, y)
  BY <1>11, <1>12 DEF FreeOf
<1> QED
  BY <1>1, <1>10, <1>13, GoesKeeps

\* What an edit has written.
Edited(w, T, A, D) == w = [Nothing EXCEPT !.total = T, !.add = A, !.del = D]

\* The fields of what a line edit has written.
LEMMA EditIs ==
  ASSUME NEW T, NEW A, NEW D, NEW w, Edited(w, T, A, D)
  PROVE  /\ w.number = 0 /\ w.status = NoneOf /\ w.total = T /\ w.add = A /\ w.del = D
         /\ w.pay = {} /\ w.entry = {} /\ w.audit = {}
         /\ Edited(w, w.total, w.add, w.del)
         /\ IsWritten(w)
<1>1. /\ w.number = 0 /\ w.status = NoneOf /\ w.total = T /\ w.add = A /\ w.del = D
      /\ w.pay = {} /\ w.entry = {} /\ w.audit = {}
  BY DEF Nothing, Edited
<1>2. Edited(w, w.total, w.add, w.del)
  BY <1>1 DEF Edited
<1>3. IsWritten(w)
  BY <1>1 DEF Nothing, Edited, IsWritten
<1> QED
  BY <1>1, <1>2, <1>3

\* An edit goes on, and nobody else has the invoice if it takes it.
EditTo(t, p, sum, w) == tx' = [tx EXCEPT ![t] = [tx[t] EXCEPT !.pc = p, !.sum = sum, !.w = w]]
EditFits(t, p, A, D) ==
    /\ A \subseteq Rows(Txns \cup Ids, Nat) /\ IsFiniteSet(A) /\ number[Own(tx[t])] # 0
    /\ \A row \in A \cup D : row.inv = Own(tx[t])
    /\ p = "commit" => \A u \in Txns \ {t} : Own(tx[t]) \notin Held(tx[u])

\* A line edit that goes on as EditOK says keeps the invariant.
LEMMA EditGoes ==
  ASSUME InvoicesInv, NEW t \in Txns, tx[t].pc \in Working, tx[t].call.kind \in Edits,
         NEW p \in {"sum", "write", "commit"}, NEW sum \in Nat, NEW w, NEW T, NEW A, NEW D,
         T = (IF p = "commit" THEN Just(Own(tx[t]), sum) ELSE NoneOf), Edited(w, T, A, D),
         EditFits(t, p, A, D), EditTo(t, p, sum, w), UNCHANGED <<committed, events>>
  PROVE  InvoicesInv'
<1> DEFINE x == tx[t]
<1>1. /\ IsTx(x) /\ x.call \in Calls[t] /\ WorkOK(t, x, number, next) /\ x.call.kind # "create"
      /\ x.call.kind # "status" /\ x.call.kind # "pay"
  BY TxnFacts DEF Working, Edits
<1>2. PICK y : y = [tx[t] EXCEPT !.pc = p, !.sum = sum, !.w = w]
  OBVIOUS
<1>3. tx' = [tx EXCEPT ![t] = y]
  BY <1>2 DEF EditTo
<1>4. /\ w.number = 0 /\ w.status = NoneOf /\ w.total = T
      /\ w.add = A /\ w.del = D
      /\ IsWritten(w)
      /\ Edited(w, w.total, w.add, w.del)
  BY EditIs
<1>5. Becomes(x, y, p, x.k, x.was, x.seen, sum, w)
  BY <1>1, <1>2 DEF IsTx, Becomes
<1>6. /\ IsTx(y) /\ y.pc = p /\ y.k = x.k /\ y.w = w /\ y.call = x.call /\ y.pc \in Working
      /\ Own(y) = Own(x) /\ y.sum = sum
  BY <1>1, <1>4, <1>5, StillTx DEF Own, Working
<1>7. EditOK(t, y, number)
  BY <1>4, <1>6, Zenon DEF EditOK, Edited, EditFits
<1>8. WorkOK(t, y, number, next)
  BY <1>1, <1>6, <1>7 DEF WorkOK
<1>9. Goes(t, y)
  BY <1>1, <1>3, <1>6, <1>8 DEF Goes
<1>10. Held(y) = IF p = "commit" THEN {Own(x)} ELSE {}
  <2>1. DOMAIN NoneOf = {} /\ DOMAIN Just(Own(x), sum) = {Own(x)}
    BY DEF NoneOf, Just
  <2> QED
    BY <1>4, <1>6, <2>1 DEF Held
<1>11. FreeOf(t, y)
  BY <1>4, <1>6, <1>10 DEF FreeOf, EditFits
<1> QED
  BY <1>9, <1>11, GoesKeeps

\* A call that edits lines, by itself.
LEMMA EditFacts ==
  ASSUME InvoicesInv, NEW t \in Txns, tx[t].pc \in Working, tx[t].call.kind \in Edits
  PROVE  /\ EditOK(t, tx[t], number) /\ Inv(t) = Own(tx[t]) /\ Own(tx[t]) \in Ids
         /\ tx[t].call.amt \in Nat /\ tx = [u \in Txns |-> tx[u]] /\ IsTx(tx[t])
<1>1. tx[t].call \in Calls[t] /\ Own(tx[t]) \in Ids /\ WorkOK(t, tx[t], number, next) /\ Inv(t) = Own(tx[t])
      /\ IsTx(tx[t])
  BY TxnFacts, OwnIn
<1>2. tx[t].call.amt \in Nat
  BY <1>1, CallFacts DEF Edits
<1> QED
  BY <1>1, <1>2 DEF WorkOK, InvoicesInv

\* AddLine keeps the invariant.
LEMMA AddLineKeeps ==
  ASSUME InvoicesInv, NEW t \in Txns, AddLine(t)
  PROVE  InvoicesInv'
<1> DEFINE x == tx[t]
<1>1. x.pc = "run" /\ x.pc \in Working /\ x.call.kind \in Edits /\ UNCHANGED <<committed, events>>
  BY DEF AddLine, Working, Edits
<1>2. /\ EditOK(t, x, number) /\ Inv(t) = Own(x) /\ Own(x) \in Ids
      /\ x.call.amt \in Nat /\ tx = [u \in Txns |-> tx[u]] /\ IsTx(x)
  BY <1>1, EditFacts
<1>3. x.w = Nothing /\ x.sum \in Nat
  BY <1>1, <1>2 DEF EditOK
<1>4. CASE Fail(t)
  BY <1>1, <1>4, FailKeeps
<1>5. CASE Exists(Inv(t))
  <2>1. PICK w : Edited(w, NoneOf, {NewRow(t)}, {})
    BY DEF Edited
  <2>2. PICK z : z = [x EXCEPT !.pc = "sum", !.w.add = {NewRow(t)}]
    OBVIOUS
  <2>3. tx' = [tx EXCEPT ![t] = z]
    BY <1>1, <1>2, <1>5, <2>2 DEF AddLine
  <2>4. PICK y : y = [x EXCEPT !.pc = "sum", !.sum = x.sum, !.w = w]
    OBVIOUS
  <2>5. z = y
    <3>1. PICK v : v = [Nothing EXCEPT !.add = {NewRow(t)}]
      OBVIOUS
    <3>2. v = w
      <4>1. v = [number |-> 0, status |-> NoneOf, total |-> NoneOf, add |-> {NewRow(t)}, del |-> {},
                 pay |-> {}, entry |-> {}, audit |-> {}]
        BY <3>1 DEF Nothing
      <4>2. w = [number |-> 0, status |-> NoneOf, total |-> NoneOf, add |-> {NewRow(t)}, del |-> {},
                 pay |-> {}, entry |-> {}, audit |-> {}]
        BY <2>1 DEF Nothing, Edited
      <4> QED
        BY <4>1, <4>2
    <3>3. z = [x EXCEPT !.pc = "sum", !.w = v]
      BY <1>2, <1>3, <2>2, <3>1 DEF IsTx
    <3>4. y = [x EXCEPT !.pc = "sum", !.w = w]
      BY <1>2, <2>4 DEF IsTx
    <3> QED
      BY <3>2, <3>3, <3>4
  <2>6. EditTo(t, "sum", x.sum, w)
    BY <2>3, <2>4, <2>5 DEF EditTo
  <2>7. EditFits(t, "sum", {NewRow(t)}, {})
    <3>1. NewRow(t) \in Rows(Txns \cup Ids, Nat) /\ NewRow(t).inv = Own(x)
      BY <1>2 DEF NewRow, Row, Rows
    <3> QED
      BY <1>2, <1>5, <3>1, FS_Singleton DEF EditFits, Exists
  <2> QED
    BY <1>1, <1>3, <2>1, <2>6, <2>7, EditGoes
<1> QED
  BY <1>4, <1>5 DEF AddLine

\* ChangeLine keeps the invariant: what it deletes and adds are lines of its invoice.
LEMMA ChangeLineKeeps ==
  ASSUME InvoicesInv, NEW t \in Txns, ChangeLine(t)
  PROVE  InvoicesInv'
<1> DEFINE x == tx[t]
           rows == {row \in Of(lines, Inv(t)) : row.id = x.line}
           new == IF x.call.kind = "drop" THEN {} ELSE {[row EXCEPT !.amt = x.call.amt] : row \in rows}
<1>1. x.pc = "run" /\ x.pc \in Working /\ x.call.kind \in Edits /\ UNCHANGED <<committed, events>>
  BY DEF ChangeLine, Working, Edits
<1>2. /\ EditOK(t, x, number) /\ Inv(t) = Own(x) /\ Own(x) \in Ids
      /\ x.call.amt \in Nat /\ tx = [u \in Txns |-> tx[u]] /\ IsTx(x)
  BY <1>1, EditFacts
<1>3. x.w = Nothing /\ x.sum \in Nat
  BY <1>1, <1>2 DEF EditOK
<1>4. CASE Fail(t)
  BY <1>1, <1>4, FailKeeps
<1>5. CASE rows # {} /\ tx' = [tx EXCEPT ![t].pc = "sum", ![t].w.del = rows, ![t].w.add = new]
  <2>1. /\ lines \subseteq Rows(Txns \cup Ids, Nat) /\ IsFiniteSet(lines)
        /\ \A row \in lines : number[row.inv] # 0
    BY DEF InvoicesInv, TablesOK
  <2>2. rows \subseteq lines /\ \A row \in rows : row.inv = Own(x)
    BY <1>2 DEF Of
  <2>3. number[Own(x)] # 0
    BY <1>5, <2>1, <2>2
  <2>4. IsFiniteSet(new)
    <3>1. \A row \in rows : [row EXCEPT !.amt = x.call.amt] = Row(x.line, Own(x), x.call.amt)
      BY <2>1, <2>2 DEF Rows, Row
    <3>2. new \subseteq {Row(x.line, Own(x), x.call.amt)}
      BY <3>1
    <3>3. IsFiniteSet({Row(x.line, Own(x), x.call.amt)})
      BY FS_Singleton
    <3> HIDE DEF new
    <3> QED
      BY <3>2, <3>3, FS_Subset
  <2>5. new \subseteq Rows(Txns \cup Ids, Nat) /\ \A row \in new : row.inv = Own(x)
    BY <1>2, <2>1, <2>2 DEF Rows
  <2>6. PICK w : Edited(w, NoneOf, new, rows)
    BY DEF Edited
  <2>7. EditFits(t, "sum", new, rows)
    BY <2>2, <2>3, <2>4, <2>5 DEF EditFits
  <2> HIDE DEF new, rows
  <2>8. PICK z : z = [x EXCEPT !.pc = "sum", !.w.del = rows, !.w.add = new]
    OBVIOUS
  <2>9. tx' = [tx EXCEPT ![t] = z]
    BY <1>2, <1>5, <2>8
  <2>10. PICK y : y = [x EXCEPT !.pc = "sum", !.sum = x.sum, !.w = w]
    OBVIOUS
  <2>11. z = y
    <3>1. PICK v : v = [Nothing EXCEPT !.del = rows, !.add = new]
      OBVIOUS
    <3>2. v = w
      <4>1. v = [number |-> 0, status |-> NoneOf, total |-> NoneOf, add |-> new, del |-> rows,
                 pay |-> {}, entry |-> {}, audit |-> {}]
        BY <3>1 DEF Nothing
      <4>2. w = [number |-> 0, status |-> NoneOf, total |-> NoneOf, add |-> new, del |-> rows,
                 pay |-> {}, entry |-> {}, audit |-> {}]
        BY <2>6 DEF Nothing, Edited
      <4> QED
        BY <4>1, <4>2
    <3>3. z = [x EXCEPT !.pc = "sum", !.w = v]
      BY <1>2, <1>3, <2>8, <3>1 DEF IsTx
    <3>4. y = [x EXCEPT !.pc = "sum", !.w = w]
      BY <1>2, <2>10 DEF IsTx
    <3> QED
      BY <3>2, <3>3, <3>4
  <2>12. EditTo(t, "sum", x.sum, w)
    BY <2>9, <2>10, <2>11 DEF EditTo
  <2> QED
    BY <1>1, <1>3, <2>6, <2>7, <2>12, EditGoes
<1> QED
  BY <1>4, <1>5 DEF ChangeLine

\* A sum over rows.
Amounts(rows) == [row \in rows |-> row.amt]
\* Sum is the sum of the amounts as a function on the rows, which SumLemmas is about.
LEMMA SumIsOnSet ==
  ASSUME NEW rows
  PROVE  Sum(rows) = SumFunctionOnSet(Amounts(rows), rows)
BY DEF Sum, SumFunction, SumFunctionOnSet, FoldFunction, Amounts

\* The sum of finitely many natural amounts is natural.
LEMMA RowSum ==
  ASSUME NEW rows, IsFiniteSet(rows), \A row \in rows : row.amt \in Nat
  PROVE  Sum(rows) \in Nat
<1>1. \A row \in rows : Amounts(rows)[row] \in Nat
  BY DEF Amounts
<1> QED
  BY <1>1, SumIsOnSet, SumType

\* The rows of one invoice.
LEMMA OfIn ==
  ASSUME NEW rows, IsFiniteSet(rows), NEW i
  PROVE  Of(rows, i) \subseteq rows /\ IsFiniteSet(Of(rows, i))
<1>1. Of(rows, i) \subseteq rows
  BY DEF Of
<1> QED
  BY <1>1, FS_Subset

\* RecomputeTotals keeps the invariant: the sum it reads is natural.
LEMMA RecomputeTotalsKeeps ==
  ASSUME InvoicesInv, NEW t \in Txns, RecomputeTotals(t)
  PROVE  InvoicesInv'
<1> DEFINE x == tx[t]
<1>1. x.pc = "sum" /\ x.pc \in Working /\ UNCHANGED <<committed, events>>
  BY DEF RecomputeTotals, Working, Edits
<1>2. x.call.kind \in Edits
  <2>1. WorkOK(t, x, number, next) /\ x.call \in Calls[t]
    BY <1>1, TxnFacts, OwnIn
  <2>2. x.call.kind \in {"create", "add", "set", "drop", "status", "pay"}
    BY <2>1, CallFacts
  <2> QED
    BY <1>1, <2>1, <2>2 DEF WorkOK, CreateOK, StatusOK, PayOK, Edits
<1>3. /\ EditOK(t, x, number) /\ Inv(t) = Own(x) /\ Own(x) \in Ids
      /\ x.call.amt \in Nat /\ tx = [u \in Txns |-> tx[u]] /\ IsTx(x)
  BY <1>1, <1>2, EditFacts
<1>4. PICK w, A, D : w = x.w /\ A = w.add /\ D = w.del
  OBVIOUS
<1>5. /\ Edited(w, NoneOf, A, D) /\ A \subseteq Rows(Txns \cup Ids, Nat) /\ IsFiniteSet(A)
      /\ number[Own(x)] # 0 /\ \A row \in A \cup D : row.inv = Own(x)
  BY <1>1, <1>3, <1>4 DEF EditOK, Edited
<1>6. PICK sum : sum = Sum(Of(Lines(t), Inv(t)))
  OBVIOUS
<1>7. sum \in Nat
  <2>1. lines \subseteq Rows(Txns \cup Ids, Nat) /\ IsFiniteSet(lines)
    BY DEF InvoicesInv, TablesOK
  <2>2. IsFiniteSet(Lines(t)) /\ Lines(t) \subseteq Rows(Txns \cup Ids, Nat)
    <3>1. IsFiniteSet(lines \ D)
      BY <2>1, FS_Difference
    <3> QED
      BY <1>4, <1>5, <2>1, <3>1, FS_Union DEF Lines
  <2>3. IsFiniteSet(Of(Lines(t), Inv(t))) /\ \A row \in Of(Lines(t), Inv(t)) : row.amt \in Nat
    BY <2>2, OfIn DEF Rows
  <2> QED
    BY <1>6, <2>3, RowSum
<1>8. EditTo(t, "write", sum, w)
  <2>1. tx' = [tx EXCEPT ![t] = [x EXCEPT !.pc = "write", !.sum = sum]]
    BY <1>3, <1>6 DEF RecomputeTotals
  <2>2. [x EXCEPT !.pc = "write", !.sum = sum] = [x EXCEPT !.pc = "write", !.sum = sum, !.w = w]
    BY <1>3, <1>4 DEF IsTx
  <2> QED
    BY <2>1, <2>2 DEF EditTo
<1>9. EditFits(t, "write", A, D)
  BY <1>5 DEF EditFits
<1> QED
  BY <1>1, <1>2, <1>5, <1>7, <1>8, <1>9, EditGoes

\* WriteTotals keeps the invariant: nobody else holds the invoice's row.
LEMMA WriteTotalsKeeps ==
  ASSUME InvoicesInv, NEW t \in Txns, WriteTotals(t)
  PROVE  InvoicesInv'
<1> DEFINE x == tx[t]
<1>1. x.pc = "write" /\ x.pc \in Working /\ x.call.kind \in Edits /\ UNCHANGED <<committed, events>>
  BY DEF WriteTotals, Working, Edits
<1>2. /\ EditOK(t, x, number) /\ Inv(t) = Own(x) /\ Own(x) \in Ids
      /\ x.call.amt \in Nat /\ tx = [u \in Txns |-> tx[u]] /\ IsTx(x)
  BY <1>1, EditFacts
<1>3. PICK v, A, D, sum : v = x.w /\ A = v.add /\ D = v.del /\ sum = x.sum
  OBVIOUS
<1>4. /\ Edited(v, NoneOf, A, D) /\ A \subseteq Rows(Txns \cup Ids, Nat) /\ IsFiniteSet(A)
      /\ number[Own(x)] # 0 /\ (\A row \in A \cup D : row.inv = Own(x)) /\ sum \in Nat
  BY <1>1, <1>2, <1>3 DEF EditOK, Edited
<1>5. PICK w : Edited(w, Just(Own(x), sum), A, D)
  BY DEF Edited
<1>6. EditTo(t, "commit", sum, w)
  <2>1. PICK z : z = [x EXCEPT !.pc = "commit", !.w.total = Just(Own(x), sum)]
    OBVIOUS
  <2>2. tx' = [tx EXCEPT ![t] = z]
    BY <1>2, <1>3, <2>1 DEF WriteTotals
  <2>3. PICK y : y = [v EXCEPT !.total = Just(Own(x), sum)]
    OBVIOUS
  <2>4. y = w
    BY <1>4, <1>5, <2>3 DEF Edited, Nothing
  <2>5. z = [x EXCEPT !.pc = "commit", !.sum = sum, !.w = w]
    BY <1>2, <1>3, <2>1, <2>3, <2>4 DEF IsTx
  <2> QED
    BY <2>2, <2>5 DEF EditTo
<1>7. EditFits(t, "commit", A, D)
  <2>1. \A u \in Txns \ {t} : ~HoldsInvoice(u, Inv(t))
    BY <1>1 DEF WriteTotals, WaitsFor
  <2> QED
    BY <1>2, <1>4, <2>1 DEF EditFits, HoldsInvoice, Held
<1> QED
  BY <1>1, <1>4, <1>5, <1>6, <1>7, EditGoes

\* A call that moves statuses, by itself; and what it has written.
LEMMA StatusFacts ==
  ASSUME InvoicesInv, NEW t \in Txns, tx[t].pc \in Working, tx[t].call.kind = "status"
  PROVE  /\ StatusOK(t, tx[t], number) /\ Inv(t) = Own(tx[t]) /\ Own(tx[t]) \in Ids
         /\ tx[t].call.to \in Statuses \ {"paid"} /\ tx = [u \in Txns |-> tx[u]] /\ IsTx(tx[t])
         /\ tx[t].call \in Calls[t] /\ Len(tx[t].call.invs) \in Nat /\ tx[t].k \in 1 .. Len(tx[t].call.invs)
<1>1. tx[t].call \in Calls[t] /\ Own(tx[t]) \in Ids /\ WorkOK(t, tx[t], number, next) /\ Inv(t) = Own(tx[t])
      /\ IsTx(tx[t])
  BY TxnFacts, OwnIn
<1>2. tx[t].call.to \in Statuses \ {"paid"} /\ Len(tx[t].call.invs) \in Nat
  BY <1>1, CallFacts
<1> QED
  BY <1>1, <1>2 DEF WorkOK, InvoicesInv

Moved(w, s, a) == w = [Nothing EXCEPT !.status = s, !.audit = a]

\* The fields of what a status update has written.
LEMMA MovedIs ==
  ASSUME NEW s, NEW a, NEW w, Moved(w, s, a)
  PROVE  /\ w.number = 0 /\ w.status = s /\ w.total = NoneOf /\ w.add = {} /\ w.del = {}
         /\ w.pay = {} /\ w.entry = {} /\ w.audit = a
         /\ Moved(w, w.status, w.audit) /\ IsWritten(w)
<1>1. /\ w.number = 0 /\ w.status = s /\ w.total = NoneOf /\ w.add = {} /\ w.del = {}
      /\ w.pay = {} /\ w.entry = {} /\ w.audit = a
  BY DEF Nothing, Moved
<1>2. Moved(w, w.status, w.audit)
  BY <1>1 DEF Moved
<1>3. IsWritten(w)
  BY <1>1 DEF Nothing, Moved, IsWritten
<1> QED
  BY <1>1, <1>2, <1>3

\* ReadStatus keeps the invariant: the status it found allows the move.
LEMMA ReadStatusKeeps ==
  ASSUME InvoicesInv, NEW t \in Txns, ReadStatus(t)
  PROVE  InvoicesInv'
<1> DEFINE x == tx[t]
<1>1. x.pc = "run" /\ x.pc \in Working /\ x.call.kind = "status" /\ UNCHANGED <<committed, events>>
  BY DEF ReadStatus, Working
<1>2. /\ StatusOK(t, x, number) /\ Inv(t) = Own(x) /\ Own(x) \in Ids
      /\ x.call.to \in Statuses \ {"paid"} /\ tx = [u \in Txns |-> tx[u]] /\ IsTx(x)
      /\ x.k \in 1 .. Len(x.call.invs)
  BY <1>1, StatusFacts
<1>3. CASE Fail(t)
  BY <1>1, <1>3, FailKeeps
<1>4. CASE Exists(Inv(t)) /\ x.call.to \in allowedStatusTransitions[Status(t, Inv(t))]
  <2>1. PICK was, seen, w : was = Status(t, Inv(t)) /\ seen = total[Inv(t)] /\ w = x.w
    OBVIOUS
  <2>2. was \in Statuses
    <3>1. status[Inv(t)] \in Statuses
      BY <1>2 DEF InvoicesInv, TablesOK
    <3>2. \A i \in DOMAIN x.w.status : x.w.status[i] = x.call.to
      BY <1>2 DEF StatusOK
    <3>3. was = IF Inv(t) \in DOMAIN x.w.status THEN x.w.status[Inv(t)] ELSE status[Inv(t)]
      BY <1>2, <2>1 DEF Status, Over, InvoicesInv, TablesOK
    <3> QED
      BY <1>2, <3>1, <3>2, <3>3
  <2>3. PICK y : y = [x EXCEPT !.pc = "write", !.was = was, !.seen = seen]
    OBVIOUS
  <2>4. tx' = [tx EXCEPT ![t] = y]
    BY <1>2, <1>4, <2>1, <2>3 DEF ReadStatus
  <2>5. Moved(w, w.status, w.audit)
    BY <1>2, <2>1 DEF StatusOK, Moved
  <2>6. Becomes(x, y, "write", x.k, was, seen, x.sum, w)
    BY <1>2, <2>1, <2>3 DEF IsTx, Becomes
  <2>7. /\ IsTx(y) /\ y.pc = "write" /\ y.k = x.k /\ y.w = x.w /\ y.call = x.call /\ y.pc \in Working
        /\ Own(y) = Own(x) /\ y.was = was
    BY <1>2, <2>1, <2>5, <2>6, MovedIs, StillTx, SMTT(90) DEF Own, Working
  <2>8. StatusOK(t, y, number)
    <3>1. y.was \in Statuses /\ y.call.to \in allowedStatusTransitions[y.was] /\ number[Own(y)] # 0
      BY <1>2, <1>4, <2>1, <2>2, <2>7 DEF Exists
    <3>2. /\ DOMAIN x.w.status = {x.call.invs[j] : j \in 1 .. (x.k - 1)}
          /\ \A i \in DOMAIN x.w.status : x.w.status[i] = x.call.to /\ number[i] # 0
          /\ {a.inv : a \in x.w.audit} = DOMAIN x.w.status
          /\ x.w.audit \subseteq [id : {t}, inv : Ids, from : Statuses, to : Statuses]
          /\ x.w = [Nothing EXCEPT !.status = x.w.status, !.audit = x.w.audit]
      BY <1>1, <1>2 DEF StatusOK
    <3>3. DOMAIN y.w.status = {y.call.invs[j] : j \in 1 .. (IF y.pc = "commit" THEN y.k ELSE y.k - 1)}
      BY <2>7, <3>2
    <3>4. y.pc # "commit" /\ y.pc \in {"run", "write", "commit"}
      BY <2>7
    <3>5. /\ \A i \in DOMAIN y.w.status : y.w.status[i] = y.call.to /\ number[i] # 0
          /\ {a.inv : a \in y.w.audit} = DOMAIN y.w.status
          /\ y.w.audit \subseteq [id : {t}, inv : Ids, from : Statuses, to : Statuses]
          /\ y.w = [Nothing EXCEPT !.status = y.w.status, !.audit = y.w.audit]
      BY <2>7, <3>2, Zenon
    <3> QED
      BY <3>1, <3>3, <3>4, <3>5, Zenon DEF StatusOK
  <2>9. WorkOK(t, y, number, next)
    BY <1>1, <1>2, <2>7, <2>8 DEF WorkOK, Edits
  <2>10. Goes(t, y)
    BY <1>1, <2>4, <2>7, <2>9 DEF Goes
  <2>11. FreeOf(t, y)
    BY <2>7 DEF FreeOf, Held
  <2> QED
    BY <1>1, <2>10, <2>11, GoesKeeps
<1> QED
  BY <1>3, <1>4 DEF ReadStatus

\* WriteStatus keeps the invariant: the invoice joins those written, with its audit row.
LEMMA WriteStatusKeeps ==
  ASSUME InvoicesInv, NEW t \in Txns, WriteStatus(t)
  PROVE  InvoicesInv'
<1> DEFINE x == tx[t]
<1>1. x.pc = "write" /\ x.pc \in Working /\ x.call.kind = "status" /\ UNCHANGED <<committed, events>>
  BY DEF WriteStatus, Working
<1>2. /\ StatusOK(t, x, number) /\ Inv(t) = Own(x) /\ Own(x) \in Ids
      /\ x.call.to \in Statuses \ {"paid"} /\ tx = [u \in Txns |-> tx[u]] /\ IsTx(x)
      /\ x.k \in 1 .. Len(x.call.invs) /\ Len(x.call.invs) \in Nat
  BY <1>1, StatusFacts
<1>3. PICK a : a = [id |-> t, inv |-> Own(x), from |-> x.was, to |-> x.call.to]
  OBVIOUS
<1>4. PICK s, log : s = Over(Just(Own(x), x.call.to), x.w.status) /\ log = x.w.audit \cup {a}
  OBVIOUS
<1>5. PICK w : Moved(w, s, log)
  BY DEF Moved
<1>6. PICK k, p : k = (IF Last(t) THEN x.k ELSE x.k + 1) /\ p = (IF Last(t) THEN "commit" ELSE "run")
  OBVIOUS
<1>7. PICK y : y = [x EXCEPT !.pc = p, !.k = k, !.w = w]
  OBVIOUS
<1>8. tx' = [tx EXCEPT ![t] = y]
  <2>1. PICK z : z = [x EXCEPT !.w.status = Over(Just(Inv(t), x.call.to), @),
                        !.w.audit = @ \cup {[id |-> t, inv |-> Inv(t), from |-> x.was, to |-> x.call.to]},
                        !.k = IF Last(t) THEN @ ELSE @ + 1,
                        !.pc = IF Last(t) THEN "commit" ELSE "run"]
    OBVIOUS
  <2>2. tx' = [tx EXCEPT ![t] = z]
    BY <1>2, <2>1, ZenonT(60) DEF WriteStatus
  <2>3. PICK v : v = [x.w EXCEPT !.status = s, !.audit = log]
    OBVIOUS
  <2>4. v = w
    <3>1. x.w = [number |-> 0, status |-> x.w.status, total |-> NoneOf, add |-> {}, del |-> {},
                 pay |-> {}, entry |-> {}, audit |-> x.w.audit]
      BY <1>2 DEF StatusOK, Nothing
    <3> PICK st, au : st = x.w.status /\ au = x.w.audit
      OBVIOUS
    <3>2. v = [number |-> 0, status |-> s, total |-> NoneOf, add |-> {}, del |-> {},
                 pay |-> {}, entry |-> {}, audit |-> log]
      <4>1. PICK r : r = [number |-> 0, status |-> st, total |-> NoneOf, add |-> {}, del |-> {},
                 pay |-> {}, entry |-> {}, audit |-> au]
        OBVIOUS
      <4>2. v = [r EXCEPT !.status = s, !.audit = log]
        BY <2>3, <3>1, <4>1
      <4> QED
        BY <4>1, <4>2
    <3>3. w = [number |-> 0, status |-> s, total |-> NoneOf, add |-> {}, del |-> {},
                 pay |-> {}, entry |-> {}, audit |-> log]
      BY <1>5 DEF Moved, Nothing
    <3> QED
      BY <3>2, <3>3
  <2>5. z = [x EXCEPT !.pc = p, !.k = k, !.w = v]
    BY <1>2, <1>3, <1>4, <1>6, <2>1, <2>3 DEF IsTx
  <2> QED
    BY <1>7, <2>2, <2>4, <2>5
<1>9. /\ w.number = 0 /\ w.status = s /\ w.total = NoneOf /\ w.audit = log
      /\ Moved(w, w.status, w.audit) /\ IsWritten(w)
  BY <1>5, MovedIs
<1>10. Becomes(x, y, p, k, x.was, x.seen, x.sum, w)
  BY <1>2, <1>7 DEF IsTx, Becomes
<1>11. /\ IsTx(y) /\ y.pc = p /\ y.k = k /\ y.w = w /\ y.call = x.call /\ y.pc \in Working
  BY <1>2, <1>6, <1>9, <1>10, StillTx DEF Working
<1>12. /\ DOMAIN s = DOMAIN x.w.status \cup {Own(x)} /\ \A i \in DOMAIN s : s[i] = x.call.to /\ number[i] # 0
  <2>1. (\A i \in DOMAIN x.w.status : x.w.status[i] = x.call.to /\ number[i] # 0) /\ number[Own(x)] # 0
    BY <1>1, <1>2 DEF StatusOK
  <2>2. DOMAIN s = DOMAIN x.w.status \cup {Own(x)}
    BY <1>4 DEF Over, Just
  <2>3. \A i \in DOMAIN s : s[i] = x.call.to
    BY <1>4, <2>1 DEF Over, Just
  <2> QED
    BY <2>1, <2>2, <2>3
<1>13. /\ DOMAIN x.w.status = {x.call.invs[j] : j \in 1 .. (x.k - 1)}
       /\ {b.inv : b \in x.w.audit} = DOMAIN x.w.status
       /\ x.w.audit \subseteq [id : {t}, inv : Ids, from : Statuses, to : Statuses] /\ x.was \in Statuses
  BY <1>1, <1>2 DEF StatusOK
<1>14. StatusOK(t, y, number)
  <2>1. a \in [id : {t}, inv : Ids, from : Statuses, to : Statuses] /\ a.inv = Own(x)
    BY <1>2, <1>3, <1>13
  <2>2. log \subseteq [id : {t}, inv : Ids, from : Statuses, to : Statuses]
    BY <1>4, <1>13, <2>1
  <2>3. {b.inv : b \in log} = DOMAIN s
    BY <1>4, <1>12, <1>13, <2>1
  <2>4. DOMAIN s = {x.call.invs[j] : j \in 1 .. x.k}
    <3>1. 1 .. x.k = 1 .. (x.k - 1) \cup {x.k}
      BY <1>2
    <3> QED
      BY <1>12, <1>13, <3>1 DEF Own
  <2>5. (IF y.pc = "commit" THEN y.k ELSE y.k - 1) = x.k
    BY <1>2, <1>6, <1>11
  <2>6. DOMAIN y.w.status = {y.call.invs[j] : j \in 1 .. (IF y.pc = "commit" THEN y.k ELSE y.k - 1)}
    BY <1>9, <1>11, <2>4, <2>5
  <2>7. y.pc = "commit" => y.k = Len(y.call.invs)
    BY <1>6, <1>11 DEF Last
  <2>8. y.pc \in {"run", "write", "commit"} /\ y.pc # "write"
    BY <1>6, <1>11
  <2>9. \A i \in DOMAIN y.w.status : y.w.status[i] = y.call.to /\ number[i] # 0
    BY <1>9, <1>11, <1>12
  <2>10. {b.inv : b \in y.w.audit} = DOMAIN y.w.status
         /\ y.w.audit \subseteq [id : {t}, inv : Ids, from : Statuses, to : Statuses]
    BY <1>9, <1>11, <2>2, <2>3
  <2>11. y.w = [Nothing EXCEPT !.status = y.w.status, !.audit = y.w.audit]
    BY <1>9, <1>11 DEF Moved
  <2> QED
    BY <2>6, <2>7, <2>8, <2>9, <2>10, <2>11, Zenon DEF StatusOK
<1>15. WorkOK(t, y, number, next)
  <2>1. y.k \in 1 .. Len(y.call.invs)
    BY <1>2, <1>6, <1>11 DEF Last
  <2> QED
    BY <1>1, <1>11, <1>14, <2>1 DEF WorkOK, Edits
<1>16. Goes(t, y)
  BY <1>1, <1>8, <1>11, <1>15 DEF Goes
<1>17. FreeOf(t, y)
  <2>1. \A u \in Txns \ {t} : Own(x) \notin Held(tx[u])
    BY <1>1, <1>2 DEF WriteStatus, WaitsFor, HoldsInvoice, Held
  <2>2. Held(y) = DOMAIN s
    BY <1>9, <1>11 DEF Held, NoneOf
  <2>3. Held(y) \ Held(x) \subseteq {Own(x)}
    BY <1>12, <2>2 DEF Held
  <2> QED
    BY <1>9, <1>11, <2>1, <2>3 DEF FreeOf
<1> QED
  BY <1>1, <1>16, <1>17, GoesKeeps

\* A call that records a payment, by itself.
LEMMA PayFacts ==
  ASSUME InvoicesInv, NEW t \in Txns, tx[t].pc \in Working, tx[t].call.kind = "pay"
  PROVE  /\ PayOK(t, tx[t], number) /\ Inv(t) = Own(tx[t]) /\ Own(tx[t]) \in Ids
         /\ tx[t].call.amt \in Nat1 /\ tx = [u \in Txns |-> tx[u]] /\ IsTx(tx[t])
         /\ tx[t].k \in 1 .. Len(tx[t].call.invs)
<1>1. tx[t].call \in Calls[t] /\ Own(tx[t]) \in Ids /\ WorkOK(t, tx[t], number, next) /\ Inv(t) = Own(tx[t])
      /\ IsTx(tx[t])
  BY TxnFacts, OwnIn
<1>2. tx[t].call.amt \in Nat /\ tx[t].call.amt > 0
  BY <1>1, CallFacts
<1> QED
  BY <1>1, <1>2 DEF WorkOK, InvoicesInv, Nat1

\* What a payment has written.
LEMMA ReceivedIs ==
  ASSUME NEW t, NEW x, NEW w, w = Received(t, x)
  PROVE  /\ w.number = 0 /\ w.status = NoneOf /\ w.total = NoneOf /\ w.add = {} /\ w.del = {}
         /\ w.pay = {MyRow(t, x)} /\ w.entry = {} /\ w.audit = {} /\ IsWritten(w)
<1>1. /\ w.number = 0 /\ w.status = NoneOf /\ w.total = NoneOf /\ w.add = {} /\ w.del = {}
      /\ w.pay = {MyRow(t, x)} /\ w.entry = {} /\ w.audit = {}
  BY DEF Received, Nothing
<1>2. IsWritten(w)
  BY <1>1 DEF Received, Nothing, IsWritten
<1> QED
  BY <1>1, <1>2

\* The fields of what a closing payment has written.
LEMMA ClosingIs ==
  ASSUME NEW t, NEW x, NEW w, w = Closing(t, x)
  PROVE  /\ w.number = 0 /\ w.status = Just(Own(x), "paid") /\ w.total = NoneOf /\ w.add = {} /\ w.del = {}
         /\ w.pay = {MyRow(t, x)} /\ w.entry = {Row(t, Own(x), x.seen)} /\ w.audit = {} /\ IsWritten(w)
<1>1. /\ w.number = 0 /\ w.status = Just(Own(x), "paid") /\ w.total = NoneOf /\ w.add = {} /\ w.del = {}
      /\ w.pay = {MyRow(t, x)} /\ w.entry = {Row(t, Own(x), x.seen)} /\ w.audit = {}
  BY DEF Closing, Nothing
<1>2. IsWritten(w)
  BY <1>1 DEF Closing, Nothing, IsWritten
<1> QED
  BY <1>1, <1>2

\* Nothing has the fields of what a transaction writes.
LEMMA NothingIsWritten == IsWritten(Nothing)
BY DEF IsWritten, Nothing

\* A payment goes on, and nobody else has the invoice if it takes it.
PayTo(t, p, was, seen, w) == tx' = [tx EXCEPT ![t] = [tx[t] EXCEPT !.pc = p, !.was = was, !.seen = seen, !.w = w]]
PayFits(t, p, seen, w) ==
    /\ number[Own(tx[t])] # 0 /\ seen \in Nat
    /\ \/ p = "insert" /\ w = Nothing
       \/ p \in {"write", "commit"} /\ w = Received(t, tx[t])
       \/ /\ p = "commit" /\ seen > 0
          /\ w = [Received(t, tx[t]) EXCEPT !.status = Just(Own(tx[t]), "paid"),
                                            !.entry = {Row(t, Own(tx[t]), seen)}]
          /\ \A u \in Txns \ {t} : Own(tx[t]) \notin Held(tx[u])

\* A payment that goes on as PayOK says keeps the invariant.
LEMMA PayGoes ==
  ASSUME InvoicesInv, NEW t \in Txns, tx[t].pc \in Working, tx[t].call.kind = "pay",
         NEW p, NEW was, NEW seen, NEW w, PayFits(t, p, seen, w), PayTo(t, p, was, seen, w),
         UNCHANGED <<committed, events>>
  PROVE  InvoicesInv'
<1> DEFINE x == tx[t]
<1>1. /\ PayOK(t, x, number) /\ Inv(t) = Own(x) /\ Own(x) \in Ids /\ tx = [u \in Txns |-> tx[u]]
      /\ IsTx(x) /\ x.k \in 1 .. Len(x.call.invs)
  BY PayFacts
<1>2. PICK y : y = [tx[t] EXCEPT !.pc = p, !.was = was, !.seen = seen, !.w = w]
  OBVIOUS
<1>3. tx' = [tx EXCEPT ![t] = y]
  BY <1>2 DEF PayTo
<1>4. Becomes(x, y, p, x.k, was, seen, x.sum, w)
  BY <1>1, <1>2 DEF IsTx, Becomes
<1>5. y.call = x.call /\ y.k = x.k /\ y.seen = seen /\ y.pc = p /\ y.w = w
  BY <1>1, <1>2 DEF IsTx
<1>6. Own(y) = Own(x) /\ MyRow(t, y) = MyRow(t, x)
  BY <1>5 DEF Own, MyRow
<1>7. Received(t, y) = Received(t, x)
  BY <1>6 DEF Received
<1>8. CASE p \in {"insert", "write", "commit"} /\ (p = "insert" => w = Nothing)
           /\ (p # "insert" => w = Received(t, x))
  <2>1. IsWritten(w) /\ w.number = 0 /\ w.status = NoneOf /\ w.total = NoneOf
    BY <1>8, NothingIs, NothingIsWritten, ReceivedIs
  <2>2. IsTx(y) /\ y.pc \in Working
    BY <1>1, <1>4, <1>5, <1>8, <2>1, StillTx DEF Working
  <2>3. PayOK(t, y, number)
    BY <1>5, <1>6, <1>7, <1>8 DEF PayOK, PayFits
  <2>4. WorkOK(t, y, number, next)
    BY <1>1, <1>5, <2>3 DEF WorkOK, Edits
  <2>5. Goes(t, y)
    BY <1>3, <1>5, <2>2, <2>4 DEF Goes
  <2>6. FreeOf(t, y)
    BY <1>5, <2>1 DEF FreeOf, Held, NoneOf
  <2> QED
    BY <2>5, <2>6, GoesKeeps
<1>9. CASE /\ p = "commit" /\ seen > 0
           /\ w = [Received(t, x) EXCEPT !.status = Just(Own(x), "paid"), !.entry = {Row(t, Own(x), seen)}]
           /\ \A u \in Txns \ {t} : Own(x) \notin Held(tx[u])
  <2>1. w = Closing(t, y)
    BY <1>5, <1>6, <1>9 DEF Closing, Received, Nothing
  <2>2. IsWritten(w) /\ w.number = 0 /\ w.status = Just(Own(y), "paid") /\ w.total = NoneOf
    BY <2>1, ClosingIs
  <2>3. IsTx(y) /\ y.pc \in Working
    BY <1>1, <1>4, <1>5, <1>9, <2>2, StillTx DEF Working
  <2>4. PayOK(t, y, number)
    BY <1>5, <1>6, <1>9, <2>1 DEF PayOK, PayFits
  <2>5. WorkOK(t, y, number, next)
    BY <1>1, <1>5, <2>4 DEF WorkOK, Edits
  <2>6. Goes(t, y)
    BY <1>3, <1>5, <2>3, <2>5 DEF Goes
  <2>7. Held(y) = {Own(x)}
    BY <1>5, <1>6, <2>2 DEF Held, NoneOf, Just
  <2>8. FreeOf(t, y)
    BY <1>5, <1>9, <2>2, <2>7 DEF FreeOf
  <2> QED
    BY <2>6, <2>8, GoesKeeps
<1> QED
  BY <1>8, <1>9 DEF PayFits

\* ReadInvoice keeps the invariant.
LEMMA ReadInvoiceKeeps ==
  ASSUME InvoicesInv, NEW t \in Txns, ReadInvoice(t)
  PROVE  InvoicesInv'
<1> DEFINE x == tx[t]
<1>1. x.pc = "run" /\ x.pc \in Working /\ x.call.kind = "pay" /\ UNCHANGED <<committed, events>>
  BY DEF ReadInvoice, Working
<1>2. /\ PayOK(t, x, number) /\ Inv(t) = Own(x) /\ Own(x) \in Ids /\ tx = [u \in Txns |-> tx[u]]
      /\ IsTx(x)
  BY <1>1, PayFacts
<1>3. CASE Fail(t)
  BY <1>1, <1>3, FailKeeps
<1>4. CASE Exists(Inv(t)) /\ status[Inv(t)] # "cancelled"
  <2>1. PICK was, seen, w : was = status[Inv(t)] /\ seen = total[Inv(t)] /\ w = x.w
    OBVIOUS
  <2>2. w = Nothing /\ seen \in Nat
    BY <1>1, <1>2, <2>1 DEF PayOK, InvoicesInv, TablesOK
  <2>3. tx' = [tx EXCEPT ![t] = [x EXCEPT !.pc = "insert", !.was = was, !.seen = seen]]
    BY <1>2, <1>4, <2>1 DEF ReadInvoice
  <2>4. [x EXCEPT !.pc = "insert", !.was = was, !.seen = seen]
        = [x EXCEPT !.pc = "insert", !.was = was, !.seen = seen, !.w = w]
    BY <1>2, <2>1 DEF IsTx
  <2>5. PayTo(t, "insert", was, seen, w)
    BY <2>3, <2>4 DEF PayTo
  <2>6. PayFits(t, "insert", seen, w)
    BY <1>2, <1>4, <2>2 DEF PayFits, Exists
  <2> QED
    BY <1>1, <2>5, <2>6, PayGoes
<1> QED
  BY <1>3, <1>4 DEF ReadInvoice

\* InsertPayment keeps the invariant: the payment is the only thing written.
LEMMA InsertPaymentKeeps ==
  ASSUME InvoicesInv, NEW t \in Txns, InsertPayment(t)
  PROVE  InvoicesInv'
<1> DEFINE x == tx[t]
           close == Paid(t) >= total[Inv(t)] /\ x.was # "paid"
<1>1. x.pc = "insert" /\ x.pc \in Working /\ UNCHANGED <<committed, events>>
  BY DEF InsertPayment, ThenClose, Working
<1>2. x.call.kind = "pay"
  <2>1. WorkOK(t, x, number, next) /\ x.call \in Calls[t]
    BY <1>1, TxnFacts, OwnIn
  <2>2. x.call.kind \in {"create", "add", "set", "drop", "status", "pay"}
    BY <2>1, CallFacts
  <2> QED
    BY <1>1, <2>1, <2>2 DEF WorkOK, CreateOK, StatusOK, EditOK, Edits
<1>3. /\ PayOK(t, x, number) /\ Inv(t) = Own(x) /\ Own(x) \in Ids /\ tx = [u \in Txns |-> tx[u]]
      /\ IsTx(x)
  BY <1>1, <1>2, PayFacts
<1>4. x.w = Nothing /\ x.seen \in Nat /\ number[Own(x)] # 0
  BY <1>1, <1>3 DEF PayOK
<1>5. PICK p : p = IF close THEN "write" ELSE "commit"
  OBVIOUS
<1>6. PICK w : w = Received(t, x)
  OBVIOUS
<1>7. p \in {"write", "commit"}
  BY <1>5
<1>8. tx' = [tx EXCEPT ![t] = [x EXCEPT !.w.pay = {NewRow(t)}, !.pc = p]]
  BY <1>3, <1>5 DEF InsertPayment, ThenClose
<1>9. PayTo(t, p, x.was, x.seen, w)
  <2>1. PICK v : v = [Nothing EXCEPT !.pay = {NewRow(t)}]
    OBVIOUS
  <2>2. v = w
    BY <1>3, <1>6, <2>1 DEF Received, NewRow, MyRow
  <2>3. [x EXCEPT !.w.pay = {NewRow(t)}, !.pc = p] = [x EXCEPT !.pc = p, !.w = v]
    BY <1>3, <1>4, <2>1 DEF IsTx
  <2>4. [x EXCEPT !.pc = p, !.w = w] = [x EXCEPT !.pc = p, !.was = x.was, !.seen = x.seen, !.w = w]
    BY <1>3 DEF IsTx
  <2> QED
    BY <1>8, <2>2, <2>3, <2>4 DEF PayTo
<1>10. PayFits(t, p, x.seen, w)
  BY <1>4, <1>6, <1>7 DEF PayFits
<1> HIDE DEF x
<1> QED
  BY <1>1, <1>2, <1>9, <1>10, PayGoes DEF x

\* CloseInvoice keeps the invariant: status and entry are written together, or neither is.
LEMMA CloseInvoiceKeeps ==
  ASSUME InvoicesInv, NEW t \in Txns, CloseInvoice(t)
  PROVE  InvoicesInv'
<1> DEFINE x == tx[t]
<1>1. x.pc = "write" /\ x.pc \in Working /\ x.call.kind = "pay" /\ UNCHANGED <<committed, events>>
  BY DEF CloseInvoice, Working
<1>2. /\ PayOK(t, x, number) /\ Inv(t) = Own(x) /\ Own(x) \in Ids /\ tx = [u \in Txns |-> tx[u]]
      /\ IsTx(x)
  BY <1>1, PayFacts
<1>3. x.w = Received(t, x) /\ x.seen \in Nat /\ number[Own(x)] # 0
  BY <1>1, <1>2 DEF PayOK
<1>4. CASE Fail(t)
  BY <1>1, <1>4, FailKeeps
<1>5. CASE x.seen > 0
  <2>1. PICK r : r = Received(t, x)
    OBVIOUS
  <2>2. PICK w : w = [r EXCEPT !.status = Just(Own(x), "paid"), !.entry = {Row(t, Own(x), x.seen)}]
    OBVIOUS
  <2>3. tx' = [tx EXCEPT ![t] = [x EXCEPT !.pc = "commit", !.w.status = Just(Inv(t), "paid"),
                                          !.w.entry = {Row(t, Inv(t), x.seen)}]]
    BY <1>2, <1>5 DEF CloseInvoice
  <2>4. PayTo(t, "commit", x.was, x.seen, w)
    <3>1. [x EXCEPT !.pc = "commit", !.w.status = Just(Inv(t), "paid"), !.w.entry = {Row(t, Inv(t), x.seen)}]
          = [x EXCEPT !.pc = "commit", !.w = w]
      BY <1>2, <1>3, <2>1, <2>2 DEF IsTx
    <3>2. [x EXCEPT !.pc = "commit", !.w = w]
          = [x EXCEPT !.pc = "commit", !.was = x.was, !.seen = x.seen, !.w = w]
      BY <1>2 DEF IsTx
    <3> QED
      BY <2>3, <3>1, <3>2 DEF PayTo
  <2>5. \A u \in Txns \ {t} : Own(x) \notin Held(tx[u])
    BY <1>1, <1>2 DEF CloseInvoice, WaitsFor, HoldsInvoice, Held
  <2>6. PayFits(t, "commit", x.seen, w)
    BY <1>3, <1>5, <2>1, <2>2, <2>5 DEF PayFits
  <2> QED
    BY <1>1, <2>4, <2>6, PayGoes
<1> QED
  BY <1>4, <1>5 DEF CloseInvoice

\* The steps that end a transaction without a commit.
LEMMA AbortKeeps ==
  ASSUME InvoicesInv, NEW t \in Txns, Abort(t) \/ BreakDeadlock(t) \/ Dispatch(t)
  PROVE  InvoicesInv'
<1>1. TxOK(t, tx[t], number, next, entries, audit, payments)
  BY TxnFacts
<1>2. CASE Abort(t)
  <2>1. tx[t].pc \in {"notify"} \cup Working /\ UNCHANGED <<committed, events>>
    BY <1>1, <1>2 DEF Abort, Ended, TxOK
  <2> QED
    BY <1>2, <2>1, FailKeeps, EndKeeps DEF Abort, Working
<1>3. CASE BreakDeadlock(t)
  <2>1. tx[t].pc \in Working
    BY <1>1, <1>3 DEF BreakDeadlock, Open, Ended, TxOK
  <2> QED
    BY <1>3, <2>1, FailKeeps DEF BreakDeadlock
<1>4. CASE Dispatch(t)
  BY <1>4, EndKeeps DEF Dispatch
<1> QED
  BY <1>2, <1>3, <1>4

-------------------------------------------------------------------------------------
(* A commit keeps InvoicesInv. *)

\* What a transaction is about to commit, whatever its kind.
Commits(t, x, w) ==
    /\ Own(x) \in Ids
    /\ DOMAIN w.status \subseteq Ids /\ DOMAIN w.total \subseteq Ids
    /\ \A i \in DOMAIN w.status : /\ w.status[i] \in Statuses
                                  /\ w.status[i] = "paid" => \E e \in w.entry : e.inv = i
    /\ \A i \in DOMAIN w.total : w.total[i] \in Nat
    /\ w.number # 0 <=> x.call.kind = "create"
    /\ w.number # 0 => w.number = next /\ number[Own(x)] = 0
    /\ w.add \subseteq Rows(Txns \cup Ids, Nat) /\ IsFiniteSet(w.add)
    /\ \A row \in w.add \cup w.pay \cup w.entry : row.inv = Own(x) /\ (number[Own(x)] # 0 \/ w.number # 0)
    /\ w.pay \subseteq Rows({t}, Nat1) /\ IsFiniteSet(w.pay)
    /\ w.entry \subseteq Rows({t}, Nat1) /\ IsFiniteSet(w.entry)
    /\ w.entry # {} => x.call.kind = "pay"
    /\ \A e \in w.entry : \E p \in w.pay : p.id = e.id /\ p.inv = e.inv
    /\ w.audit \subseteq [id : {t}, inv : Ids, from : Statuses, to : Statuses]
    /\ IF x.call.kind = "status" THEN {a.inv : a \in w.audit} = Range(x.call.invs)
       ELSE w.audit = {} /\ Len(x.call.invs) = 1 /\ Own(x) = x.call.invs[1]

\* A transaction at its commit has written what its kind writes, whole.
LEMMA WhatCommits ==
  ASSUME InvoicesInv, NEW t \in Txns, tx[t].pc = "commit"
  PROVE  Commits(t, tx[t], tx[t].w)
<1> DEFINE x == tx[t]
<1>0. PICK w : w = x.w
  OBVIOUS
<1>1. /\ x.pc \in Working /\ x.call \in Calls[t] /\ Own(x) \in Ids /\ WorkOK(t, x, number, next)
      /\ x.k \in 1 .. Len(x.call.invs)
  BY TxnFacts, OwnIn DEF Working, WorkOK
<1>2. /\ x.call.kind \in {"create", "add", "set", "drop", "status", "pay"}
      /\ x.call.kind # "status" => Len(x.call.invs) = 1 /\ x.call.amt \in Nat
      /\ x.call.kind = "pay" => x.call.amt > 0
      /\ x.call.kind = "status" => x.call.to \in Statuses \ {"paid"}
      /\ x.call.invs \in Seq(Ids)
  BY <1>1, CallFacts
<1>3. x.call.kind # "status" => Own(x) = x.call.invs[1] /\ MyRow(t, x) \in Rows({t}, Nat) /\ MyRow(t, x).inv = Own(x)
  BY <1>1, <1>2 DEF Own, MyRow, Rows, Row
<1>4. next \in Nat1 /\ IsFiniteSet({}) /\ IsFiniteSet({MyRow(t, x)}) /\ IsFiniteSet({Row(t, Own(x), x.seen)})
  BY FS_EmptySet, FS_Singleton DEF InvoicesInv, TablesOK
<1>5. DOMAIN NoneOf = {}
  BY DEF NoneOf
<1>6. CASE x.call.kind = "create"
  <2>1. CreateOK(t, x, number, next)
    BY <1>1, <1>6 DEF WorkOK
  <2>2. /\ w.number = next /\ w.status = Just(Own(x), "draft") /\ w.total = Just(Own(x), x.call.amt)
        /\ w.add = {MyRow(t, x)} /\ w.pay = {} /\ w.entry = {} /\ w.audit = {}
    <3>1. w = [Nothing EXCEPT !.number = next, !.status = Just(Own(x), "draft"),
                              !.total = Just(Own(x), x.call.amt), !.add = {MyRow(t, x)}]
      BY <1>0, <2>1 DEF CreateOK
    <3> QED
      BY <3>1 DEF Nothing
  <2>3. /\ DOMAIN w.status = {Own(x)} /\ w.status[Own(x)] = "draft"
        /\ DOMAIN w.total = {Own(x)} /\ w.total[Own(x)] = x.call.amt
    BY <2>2 DEF Just
  <2>4. number[Own(x)] = 0 /\ w.number # 0
    BY <1>4, <2>1, <2>2 DEF CreateOK, Nat1
  <2>5. "draft" \in Statuses
    BY DEF Statuses, allowedStatusTransitions
  <2>6. MyRow(t, x) \in Rows(Txns \cup Ids, Nat)
    BY <1>1, <1>2, <1>6 DEF Rows, Row, MyRow
  <2> QED
    BY <1>0, <1>1, <1>2, <1>3, <1>4, <1>6, <2>2, <2>3, <2>4, <2>5, <2>6 DEF Commits
<1>7. CASE x.call.kind \in Edits
  <2>1. EditOK(t, x, number)
    BY <1>1, <1>7 DEF WorkOK
  <2>2. Edited(w, Just(Own(x), x.sum), w.add, w.del)
    BY <1>0, <2>1 DEF EditOK, Edited
  <2>3. /\ w.number = 0 /\ w.status = NoneOf /\ w.total = Just(Own(x), x.sum)
        /\ w.pay = {} /\ w.entry = {} /\ w.audit = {}
    BY <2>2 DEF Edited, Nothing
  <2>4. DOMAIN w.total = {Own(x)} /\ w.total[Own(x)] = x.sum
    BY <2>3 DEF Just
  <2>5. /\ w.add \subseteq Rows(Txns \cup Ids, Nat) /\ IsFiniteSet(w.add)
        /\ (\A row \in w.add : row.inv = Own(x)) /\ number[Own(x)] # 0 /\ x.sum \in Nat
    BY <1>0, <2>1 DEF EditOK
  <2> QED
    BY <1>0, <1>1, <1>2, <1>3, <1>4, <1>5, <1>7, <2>3, <2>4, <2>5 DEF Commits, Edits
<1>8. CASE x.call.kind = "status"
  <2>1. StatusOK(t, x, number)
    BY <1>1, <1>8 DEF WorkOK
  <2>2. Moved(w, w.status, w.audit)
    BY <1>0, <2>1 DEF StatusOK, Moved
  <2>3. w.number = 0 /\ w.total = NoneOf /\ w.add = {} /\ w.pay = {} /\ w.entry = {}
    BY <2>2 DEF Moved, Nothing
  <2>4. /\ DOMAIN w.status = {x.call.invs[j] : j \in 1 .. x.k} /\ x.k = Len(x.call.invs)
        /\ \A i \in DOMAIN w.status : w.status[i] = x.call.to
        /\ {a.inv : a \in w.audit} = DOMAIN w.status
        /\ w.audit \subseteq [id : {t}, inv : Ids, from : Statuses, to : Statuses]
    BY <1>0, <2>1 DEF StatusOK
  <2>5. {x.call.invs[j] : j \in 1 .. Len(x.call.invs)} = Range(x.call.invs)
    BY <1>2 DEF Range
  <2>6. Range(x.call.invs) \subseteq Ids
    BY <1>2 DEF Range
  <2> QED
    BY <1>0, <1>1, <1>2, <1>4, <1>5, <1>8, <2>3, <2>4, <2>5, <2>6 DEF Commits
<1>9. CASE x.call.kind = "pay"
  <2>1. PayOK(t, x, number)
    BY <1>1, <1>9 DEF WorkOK
  <2>0. number[Own(x)] # 0
    BY <1>1, <2>1 DEF PayOK
  <2>2. MyRow(t, x) \in Rows({t}, Nat1) /\ MyRow(t, x).id = t
    BY <1>1, <1>2, <1>9 DEF Rows, Row, MyRow, Nat1
  <2>3. CASE w = Received(t, x)
    <3>1. /\ w.number = 0 /\ w.status = NoneOf /\ w.total = NoneOf /\ w.add = {}
          /\ w.pay = {MyRow(t, x)} /\ w.entry = {} /\ w.audit = {}
      BY <2>3, ReceivedIs
    <3> QED
      BY <1>0, <1>1, <1>2, <1>3, <1>4, <1>5, <1>9, <2>0, <2>2, <3>1 DEF Commits
  <2>4. CASE w = Closing(t, x) /\ x.seen > 0
    <3>1. /\ w.number = 0 /\ w.status = Just(Own(x), "paid") /\ w.total = NoneOf /\ w.add = {}
          /\ w.pay = {MyRow(t, x)} /\ w.entry = {Row(t, Own(x), x.seen)} /\ w.audit = {}
      BY <2>4, ClosingIs
    <3>2. DOMAIN w.status = {Own(x)} /\ w.status[Own(x)] = "paid" /\ "paid" \in Statuses
      BY <3>1 DEF Just, Statuses, allowedStatusTransitions
    <3>3. x.seen \in Nat1
      BY <2>1, <2>4 DEF PayOK, Nat1
    <3>4. Row(t, Own(x), x.seen) \in Rows({t}, Nat1) /\ Row(t, Own(x), x.seen).inv = Own(x)
          /\ Row(t, Own(x), x.seen).id = t
      BY <1>1, <3>3 DEF Row, Rows
    <3> QED
      BY <1>0, <1>1, <1>2, <1>3, <1>4, <1>5, <1>9, <2>0, <2>2, <3>1, <3>2, <3>4 DEF Commits
  <2> QED
    BY <1>0, <2>1, <2>3, <2>4 DEF PayOK
<1> QED
  BY <1>2, <1>6, <1>7, <1>8, <1>9 DEF Edits

\* The numbering, element by element.
Gapless(nu, ne) ==
    /\ \A i \in Ids : nu[i] # 0 => nu[i] \in 1 .. (ne - 1)
    /\ \A n \in 1 .. (ne - 1) : \E i \in Ids : nu[i] = n
    /\ \A i, j \in Ids : nu[i] # 0 /\ nu[i] = nu[j] => i = j

Numbered(nu, ne) ==
    LET has == {i \in Ids : nu[i] # 0}
    IN  {nu[i] : i \in has} = 1 .. (ne - 1) /\ IsInjective(Restrict(nu, has))

\* NumbersGapless, by the values of its tables.
LEMMA GaplessIs ==
  ASSUME NEW nu, NEW ne \in Nat1
  PROVE  Numbered(nu, ne) <=> Gapless(nu, ne)
<1> PICK has : has = {i \in Ids : nu[i] # 0}
  OBVIOUS
<1>1. Numbered(nu, ne) <=> /\ {nu[i] : i \in has} = 1 .. (ne - 1) /\ IsInjective(Restrict(nu, has))
  BY DEF Numbered
<1>2. IsInjective(Restrict(nu, has)) <=> \A i, j \in has : nu[i] = nu[j] => i = j
  BY DEF IsInjective, Restrict
<1>3. {nu[i] : i \in has} = 1 .. (ne - 1) <=>
        /\ \A i \in Ids : nu[i] # 0 => nu[i] \in 1 .. (ne - 1)
        /\ \A n \in 1 .. (ne - 1) : \E i \in Ids : nu[i] = n
  <2>1. ASSUME {nu[i] : i \in has} = 1 .. (ne - 1)
        PROVE  /\ \A i \in Ids : nu[i] # 0 => nu[i] \in 1 .. (ne - 1)
               /\ \A n \in 1 .. (ne - 1) : \E i \in Ids : nu[i] = n
    BY <2>1
  <2>2. ASSUME \A i \in Ids : nu[i] # 0 => nu[i] \in 1 .. (ne - 1),
               \A n \in 1 .. (ne - 1) : \E i \in Ids : nu[i] = n
        PROVE  {nu[i] : i \in has} = 1 .. (ne - 1)
    <3>1. \A n \in 1 .. (ne - 1) : n \in {nu[i] : i \in has}
      <4> TAKE n \in 1 .. (ne - 1)
      <4>1. PICK i \in Ids : nu[i] = n
        BY <2>2
      <4>2. nu[i] # 0
        BY <4>1 DEF Nat1
      <4> QED
        BY <4>1, <4>2
    <3>2. \A n \in {nu[i] : i \in has} : n \in 1 .. (ne - 1)
      BY <2>2
    <3> QED
      BY <3>1, <3>2
  <2> QED
    BY <2>1, <2>2
<1>4. (\A i, j \in has : nu[i] = nu[j] => i = j)
      <=> (\A i, j \in Ids : nu[i] # 0 /\ nu[i] = nu[j] => i = j)
  OBVIOUS
<1> QED
  BY <1>1, <1>2, <1>3, <1>4, Zenon DEF Gapless

\* The next number is claimed by an invoice that had none.
LEMMA GaplessGrows ==
  ASSUME NEW nu \in [Ids -> Nat], NEW ne \in Nat1, Gapless(nu, ne), NEW o \in Ids, nu[o] = 0
  PROVE  Gapless([nu EXCEPT ![o] = ne], ne + 1)
<1> PICK mu : mu = [nu EXCEPT ![o] = ne]
  OBVIOUS
<1>1. ne \in Nat /\ ne # 0 /\ (ne + 1) - 1 = ne
  BY DEF Nat1
<1>2. mu[o] = ne /\ \A i \in Ids : i # o => mu[i] = nu[i]
  OBVIOUS
<1>3. \A i \in Ids : nu[i] # 0 => nu[i] \in 1 .. (ne - 1) /\ nu[i] # ne /\ nu[i] \in 1 .. ne
  BY <1>1 DEF Gapless
<1>4. \A i \in Ids : mu[i] # 0 => mu[i] \in 1 .. ne
  BY <1>1, <1>2, <1>3
<1>5. \A n \in 1 .. ne : \E i \in Ids : mu[i] = n
  <2> TAKE n \in 1 .. ne
  <2>1. CASE n = ne
    BY <1>2, <2>1
  <2>2. CASE n # ne
    <3>1. n \in 1 .. (ne - 1) /\ n # 0
      BY <1>1, <2>2
    <3>2. PICK i \in Ids : nu[i] = n
      BY <3>1 DEF Gapless
    <3> QED
      BY <1>2, <3>1, <3>2
  <2> QED
    BY <2>1, <2>2
<1>6. \A i, j \in Ids : mu[i] # 0 /\ mu[i] = mu[j] => i = j
  <2>1. \A i, j \in Ids : nu[i] # 0 /\ nu[i] = nu[j] => i = j
    BY DEF Gapless
  <2> QED
    BY <1>1, <1>2, <1>3, <2>1
<1>7. Gapless(mu, ne + 1)
  BY <1>1, <1>4, <1>5, <1>6 DEF Gapless
<1> QED
  BY <1>7

\* What a commit does to the tables.
Writes(x, w) ==
    /\ status' = Over(w.status, status) /\ total' = Over(w.total, total)
    /\ number' = IF w.number # 0 THEN [number EXCEPT ![Own(x)] = w.number] ELSE number
    /\ next' = IF w.number # 0 THEN w.number + 1 ELSE next
    /\ lines' = (lines \ w.del) \cup w.add /\ payments' = payments \cup w.pay
    /\ entries' = entries \cup w.entry /\ audit' = audit \cup w.audit /\ events' = events

\* What Commit does to the tables.
LEMMA CommitWrites ==
  ASSUME NEW t \in Txns, Commit(t)
  PROVE  Writes(tx[t], tx[t].w)
BY DEF Commit, Writes, Own, Inv

\* The numbers after a commit.
LEMMA CommitNumbers ==
  ASSUME InvoicesInv, NEW t \in Txns, NEW x, NEW w, Commits(t, x, w), Writes(x, w)
  PROVE  /\ number' \in [Ids -> Nat] /\ next' \in Nat1
         /\ \A i \in Ids : number[i] # 0 => number'[i] = number[i]
         /\ \A i \in Ids : number'[i] # number[i] => i = Own(x) /\ w.number # 0
         /\ w.number # 0 => number'[Own(x)] # 0
         /\ next' # next => w.number # 0
         /\ NumbersGapless'
<1>1. number \in [Ids -> Nat] /\ next \in Nat1 /\ NumbersGapless
  BY DEF InvoicesInv, TablesOK
<1>2. Gapless(number, next)
  BY <1>1, GaplessIs DEF NumbersGapless, Numbered, Exists
<1>3. next \in Nat /\ next # 0 /\ Own(x) \in Ids
  BY <1>1 DEF Nat1, Commits
<1>4. CASE w.number # 0
  <2>1. w.number = next /\ number[Own(x)] = 0
    BY <1>4 DEF Commits
  <2>2. number' = [number EXCEPT ![Own(x)] = next] /\ next' = next + 1
    BY <1>4, <2>1 DEF Writes
  <2>3. number' \in [Ids -> Nat] /\ next' \in Nat1
    BY <1>1, <1>3, <2>2 DEF Nat1
  <2>4. Gapless(number', next')
    BY <1>1, <1>2, <1>3, <2>1, <2>2, GaplessGrows
  <2>5. NumbersGapless'
    BY <2>3, <2>4, GaplessIs DEF NumbersGapless, Numbered, Exists
  <2>6. number'[Own(x)] = next /\ \A i \in Ids : i # Own(x) => number'[i] = number[i]
    BY <1>1, <1>3, <2>2
  <2> QED
    BY <1>3, <1>4, <2>1, <2>3, <2>5, <2>6
<1>5. CASE w.number = 0
  <2>1. number' = number /\ next' = next
    BY <1>5 DEF Writes
  <2>2. NumbersGapless'
    BY <1>1, <2>1 DEF NumbersGapless, Exists
  <2> QED
    BY <1>1, <1>5, <2>1, <2>2
<1> QED
  BY <1>4, <1>5

\* The other tables after a commit.
LEMMA CommitTables ==
  ASSUME InvoicesInv, NEW t \in Txns, NEW x, NEW w, Commits(t, x, w), Writes(x, w)
  PROVE  TablesOK'
<1>1. /\ number' \in [Ids -> Nat] /\ next' \in Nat1 /\ NumbersGapless'
      /\ \A i \in Ids : number[i] # 0 => number'[i] = number[i]
      /\ w.number # 0 => number'[Own(x)] # 0
  BY CommitNumbers
<1>2. /\ status \in [Ids -> Statuses] /\ total \in [Ids -> Nat]
      /\ lines \subseteq Rows(Txns \cup Ids, Nat) /\ IsFiniteSet(lines)
      /\ \A row \in lines \cup payments \cup entries : number[row.inv] # 0
      /\ payments \subseteq Rows(Txns, Nat1) /\ IsFiniteSet(payments)
      /\ entries \subseteq Rows(Txns, Nat1) /\ IsFiniteSet(entries)
      /\ audit \subseteq [id : Txns, inv : Ids, from : Statuses, to : Statuses]
      /\ \A e \in entries : \E p \in payments : p.id = e.id /\ p.inv = e.inv
      /\ \A i \in Ids : status[i] = "paid" => \E e \in entries : e.inv = i
  BY DEF InvoicesInv, TablesOK, CloseIsWhole, Of
<1>3. /\ Own(x) \in Ids
      /\ DOMAIN w.status \subseteq Ids /\ DOMAIN w.total \subseteq Ids
      /\ \A i \in DOMAIN w.status : /\ w.status[i] \in Statuses
                                    /\ w.status[i] = "paid" => \E e \in w.entry : e.inv = i
      /\ \A i \in DOMAIN w.total : w.total[i] \in Nat
      /\ w.add \subseteq Rows(Txns \cup Ids, Nat) /\ IsFiniteSet(w.add)
      /\ \A row \in w.add \cup w.pay \cup w.entry : row.inv = Own(x) /\ (number[Own(x)] # 0 \/ w.number # 0)
      /\ w.pay \subseteq Rows({t}, Nat1) /\ IsFiniteSet(w.pay)
      /\ w.entry \subseteq Rows({t}, Nat1) /\ IsFiniteSet(w.entry)
      /\ \A e \in w.entry : \E p \in w.pay : p.id = e.id /\ p.inv = e.inv
      /\ w.audit \subseteq [id : {t}, inv : Ids, from : Statuses, to : Statuses]
  BY DEF Commits
<1>4. status' \in [Ids -> Statuses]
      /\ \A i \in Ids : status'[i] = IF i \in DOMAIN w.status THEN w.status[i] ELSE status[i]
  BY <1>2, <1>3 DEF Writes, Over
<1>5. total' \in [Ids -> Nat]
  BY <1>2, <1>3 DEF Writes, Over
<1>6. /\ lines' \subseteq Rows(Txns \cup Ids, Nat) /\ IsFiniteSet(lines')
      /\ \A row \in lines' \cup payments' \cup entries' : number'[row.inv] # 0
  <2>1. lines' = (lines \ w.del) \cup w.add
    BY DEF Writes
  <2>2. IsFiniteSet(lines \ w.del)
    BY <1>2, FS_Difference
  <2>3. IsFiniteSet(lines')
    BY <1>3, <2>1, <2>2, FS_Union
  <2>4. \A row \in lines \cup payments \cup entries : number'[row.inv] # 0
    BY <1>1, <1>2 DEF Rows
  <2>5. \A row \in w.add \cup w.pay \cup w.entry : number'[row.inv] # 0
    BY <1>1, <1>3
  <2>6. payments' = payments \cup w.pay /\ entries' = entries \cup w.entry
    BY DEF Writes
  <2> QED
    BY <1>2, <1>3, <2>1, <2>3, <2>4, <2>5, <2>6
<1>7. payments' \subseteq Rows(Txns, Nat1) /\ IsFiniteSet(payments')
  <2>1. w.pay \subseteq Rows(Txns, Nat1)
    BY <1>3 DEF Rows
  <2> QED
    BY <1>2, <1>3, <2>1, FS_Union DEF Writes
<1>8. entries' \subseteq Rows(Txns, Nat1) /\ IsFiniteSet(entries')
  <2>1. w.entry \subseteq Rows(Txns, Nat1)
    BY <1>3 DEF Rows
  <2> QED
    BY <1>2, <1>3, <2>1, FS_Union DEF Writes
<1>9. audit' \subseteq [id : Txns, inv : Ids, from : Statuses, to : Statuses]
  BY <1>2, <1>3 DEF Writes
<1>10. CloseIsWhole'
  <2>1. \A e \in entries' : \E p \in payments' : p.id = e.id /\ p.inv = e.inv
    BY <1>2, <1>3 DEF Writes
  <2>2. ASSUME NEW i \in Ids, status'[i] = "paid"
        PROVE  \E e \in entries' : e.inv = i
    BY <1>2, <1>3, <1>4, <2>2 DEF Writes
  <2> QED
    BY <2>1, <2>2 DEF CloseIsWhole, Of
<1> QED
  BY <1>1, <1>4, <1>5, <1>6, <1>7, <1>8, <1>9, <1>10 DEF TablesOK

\* What others rely on is left to them by a commit of t.
Leaves(t, x, nu, ne, en, au, pa) ==
    /\ \A i \in Ids : number[i] # 0 => nu[i] # 0
    /\ entries \subseteq en
    /\ \A a \in au : a \in audit \/ a.id = t
    /\ audit \subseteq au
    /\ \A p \in pa : p \in payments \/ p.id = t
    /\ x.call.kind # "create" => nu = number /\ ne = next
    /\ \A i \in Ids : i # Own(x) => nu[i] = number[i]

\* What is known of a transaction stays so when another commits.
LEMMA OthersStay ==
  ASSUME InvoicesInv, NEW t \in Txns, tx[t].pc = "commit",
         NEW nu, NEW ne, NEW en, NEW au, NEW pa, Leaves(t, tx[t], nu, ne, en, au, pa),
         NEW u \in Txns, u # t
  PROVE  TxOK(u, tx[u], nu, ne, en, au, pa)
<1> DEFINE x == tx[u]
<1>1. TxOK(u, x, number, next, entries, audit, payments)
  BY TxnFacts
<1>2. /\ IsTx(x) /\ x.pc \in {"idle", "notify", "done", "failed"} \cup Working
      /\ x.pc = "idle" => x = Idle
      /\ x.pc # "idle" => x.call \in Calls[u]
      /\ x.pc \in Working => WorkOK(u, x, number, next)
  BY <1>1 DEF TxOK
<1>3. x.pc # "done" => \A a \in au : a.id # u
  BY <1>1 DEF TxOK, Leaves
<1>4. x.pc \notin {"notify", "done"} => \A p \in pa : p.id # u
  BY <1>1 DEF TxOK, Leaves
<1>5. ASSUME x.pc \notin Working
      PROVE  EndOK(u, x, nu, en, au)
  <2>1. EndOK(u, x, number, entries, audit)
    BY <1>1, <1>5 DEF TxOK
  <2>2. x.pc = "notify" => Told(u, x, nu, en)
    <3>1. ASSUME x.pc = "notify", x.call.kind = "create"
          PROVE  x.call.invs[1] \in Ids
      BY <1>2, <3>1, CallFacts
    <3> QED
      BY <2>1, <3>1 DEF EndOK, Told, Leaves
  <2>3. {b \in au : b.id = u} = {b \in audit : b.id = u}
    BY DEF Leaves
  <2> QED
    BY <2>1, <2>2, <2>3 DEF EndOK
<1>6. ASSUME x.pc \in Working
      PROVE  WorkOK(u, x, nu, ne)
  <2>1. WorkOK(u, x, number, next) /\ Own(x) \in Ids
    BY <1>2, <1>6, OwnIn
  <2>2. Disjoint(tx[t], x)
    BY DEF InvoicesInv
  <2>3. ASSUME x.call.kind = "create"
        PROVE  CreateOK(u, x, nu, ne)
    <3>1. CreateOK(u, x, number, next)
      BY <2>1, <2>3 DEF WorkOK
    <3>2. Creating(tx[t]) => Own(x) # Own(tx[t])
      BY <1>6, <2>2, <2>3 DEF Disjoint, Creating
    <3>3. tx[t].call.kind = "create" => Creating(tx[t])
      BY DEF Creating, Working
    <3>4. nu[Own(x)] = 0
      BY <2>1, <3>1, <3>2, <3>3 DEF CreateOK, Leaves
    <3>5. CASE tx[t].call.kind # "create"
      BY <3>1, <3>5 DEF Leaves
    <3>6. CASE tx[t].call.kind = "create"
      <4>1. Commits(t, tx[t], tx[t].w)
        BY WhatCommits
      <4>2. tx[t].w.number # 0
        BY <3>6, <4>1 DEF Commits
      <4>3. x.w.number = 0
        BY <2>2, <4>2 DEF Disjoint
      <4>4. CASE x.pc = "run"
        BY <3>1, <3>4, <4>4 DEF CreateOK
      <4>5. CASE x.pc # "run"
        <5>1. PICK w : w = [Nothing EXCEPT !.number = next, !.status = Just(Own(x), "draft"),
                                  !.total = Just(Own(x), x.call.amt), !.add = {MyRow(u, x)}]
          OBVIOUS
        <5>2. x.w = w
          BY <3>1, <4>5, <5>1 DEF CreateOK
        <5>3. w.number = next
          BY <5>1 DEF Nothing
        <5>4. next # 0
          BY DEF InvoicesInv, TablesOK, Nat1
        <5> QED
          BY <4>3, <5>2, <5>3, <5>4
      <4> QED
        BY <4>4, <4>5
    <3> QED
      BY <3>5, <3>6
  <2>4. ASSUME x.call.kind \in Edits
        PROVE  EditOK(u, x, nu)
    <3>1. EditOK(u, x, number)
      BY <2>1, <2>4 DEF WorkOK
    <3>2. x.pc # "run" => nu[Own(x)] # 0
      BY <2>1, <3>1 DEF EditOK, Leaves
    <3> QED
      BY <3>1, <3>2, Zenon DEF EditOK
  <2>5. ASSUME x.call.kind = "status"
        PROVE  StatusOK(u, x, nu)
    <3>1. StatusOK(u, x, number)
      BY <2>1, <2>5 DEF WorkOK
    <3>2. DOMAIN x.w.status \subseteq Ids
      <4>1. /\ DOMAIN x.w.status = {a.inv : a \in x.w.audit}
            /\ x.w.audit \subseteq [id : {u}, inv : Ids, from : Statuses, to : Statuses]
        BY <3>1, Zenon DEF StatusOK
      <4> QED
        BY <4>1
    <3>3. \A i \in DOMAIN x.w.status : x.w.status[i] = x.call.to /\ nu[i] # 0
      BY <3>1, <3>2 DEF StatusOK, Leaves
    <3>4. x.pc = "write" => nu[Own(x)] # 0
      BY <2>1, <3>1 DEF StatusOK, Leaves
    <3> QED
      BY <3>1, <3>3, <3>4, Zenon DEF StatusOK
  <2>6. ASSUME x.call.kind = "pay"
        PROVE  PayOK(u, x, nu)
    <3>1. PayOK(u, x, number)
      BY <2>1, <2>6 DEF WorkOK
    <3>2. x.pc # "run" => nu[Own(x)] # 0
      BY <2>1, <3>1 DEF PayOK, Leaves
    <3> QED
      BY <3>1, <3>2, Zenon DEF PayOK
  <2> QED
    BY <2>1, <2>3, <2>4, <2>5, <2>6 DEF WorkOK
<1> QED
  BY <1>2, <1>3, <1>4, <1>5, <1>6 DEF TxOK

\* Commit keeps the invariant.
LEMMA CommitKeeps ==
  ASSUME InvoicesInv, NEW t \in Txns, Commit(t)
  PROVE  InvoicesInv'
<1> DEFINE x == tx[t]
<1>0. PICK w : w = x.w
  OBVIOUS
<1>1. x.pc = "commit" /\ x.call \in Calls[t] /\ TxOK(t, x, number, next, entries, audit, payments)
      /\ tx = [u \in Txns |-> tx[u]] /\ Own(x) \in Ids
  BY TxnFacts, OwnIn DEF Commit, InvoicesInv, Working
<1>2. Commits(t, x, w) /\ Writes(x, w)
  BY <1>0, <1>1, WhatCommits, CommitWrites
<1>3. /\ \A i \in Ids : number[i] # 0 => number'[i] = number[i]
      /\ \A i \in Ids : number'[i] # number[i] => i = Own(x) /\ w.number # 0
      /\ w.number # 0 => number'[Own(x)] # 0
      /\ next' # next => w.number # 0
      /\ number \in [Ids -> Nat] /\ number' \in [Ids -> Nat]
  BY <1>2, CommitNumbers DEF InvoicesInv, TablesOK
<1>4. TablesOK'
  BY <1>2, CommitTables
<1>5. /\ entries' = entries \cup w.entry /\ audit' = audit \cup w.audit /\ payments' = payments \cup w.pay
      /\ events' = events
  BY <1>2 DEF Writes
<1>6. /\ w.number # 0 <=> x.call.kind = "create"
      /\ \A e \in w.entry : e.id = t
      /\ \A a \in w.audit : a.id = t
      /\ \A p \in w.pay : p.id = t
      /\ w.entry # {} => x.call.kind = "pay"
      /\ IF x.call.kind = "status" THEN {a.inv : a \in w.audit} = Range(x.call.invs)
         ELSE w.audit = {} /\ Own(x) = x.call.invs[1]
  BY <1>2 DEF Commits, Rows
<1>7. PICK p : p = IF w.number # 0 \/ w.entry # {} THEN "notify" ELSE "done"
  OBVIOUS
<1>8. PICK y : Ends(y, p, tx[t].call)
  BY DEF Ends
<1>9. tx' = [tx EXCEPT ![t] = y]
  BY <1>0, <1>7, <1>8 DEF Commit, End, Ends
<1>10. tx'[t] = y /\ \A u \in Txns : u # t => tx'[u] = tx[u]
  BY <1>1, <1>9
<1>11. y.pc = p /\ y.call = x.call /\ y.w = Nothing /\ IsTx(y)
  BY <1>8, CallEnds
<1>12. TxOK(t, y, number', next', entries', audit', payments')
  <2>1. p = "notify" => Told(t, y, number', entries')
    BY <1>3, <1>5, <1>6, <1>7, <1>11 DEF Told
  <2>2. \A a \in audit : a.id # t
    BY <1>1 DEF TxOK
  <2>3. p = "done" /\ y.call.kind = "status" => {a.inv : a \in {b \in audit' : b.id = t}} = Range(y.call.invs)
    <3> SUFFICES ASSUME x.call.kind = "status" PROVE {a.inv : a \in {b \in audit' : b.id = t}} = Range(x.call.invs)
      BY <1>11
    <3>1. {b \in audit' : b.id = t} = w.audit
      BY <1>5, <1>6, <2>2
    <3> QED
      BY <1>6, <3>1
  <2>4. p # "done" => \A a \in audit' : a.id # t
    BY <1>5, <1>6, <1>7, <2>2
  <2>5. EndOK(t, y, number', entries', audit')
    BY <1>11, <2>1, <2>3 DEF EndOK
  <2>6. p \in {"notify", "done"} /\ p \notin Working
    BY <1>7 DEF Working
  <2> QED
    BY <1>1, <1>11, <2>4, <2>5, <2>6 DEF TxOK
<1>13. ASSUME NEW u \in Txns, u # t
       PROVE  TxOK(u, tx[u], number', next', entries', audit', payments')
  <2>1. Leaves(t, x, number', next', entries', audit', payments')
    BY <1>2, <1>3, <1>5, <1>6 DEF Leaves, Writes
  <2> QED
    BY <1>1, <1>13, <2>1, OthersStay
<1>14. \A u \in Txns : TxOK(u, tx'[u], number', next', entries', audit', payments')
  BY <1>10, <1>12, <1>13
<1>15. ASSUME NEW u \in Txns, NEW v \in Txns, u # v
       PROVE  Disjoint(tx'[u], tx'[v])
  <2>1. ~Creating(y)
    BY <1>7, <1>11 DEF Creating, Working
  <2> QED
    BY <1>10, <1>11, <1>15, <2>1, NothingDisjoint DEF InvoicesInv
<1>16. EventsOK'
  <2>1. \A f \in events : /\ f \in {"invoice.created", "invoice.paid"} \X Txns
                          /\ f[2] \in Txns /\ f[2] # t
                          /\ tx[f[2]].pc = "done"
                          /\ IF f[1] = "invoice.paid" THEN \E row \in entries : row.id = f[2]
                             ELSE number[tx[f[2]].call.invs[1]] # 0
    BY <1>1 DEF InvoicesInv, EventsOK
  <2>2. ASSUME NEW f \in events, f[1] # "invoice.paid"
        PROVE  number'[tx'[f[2]].call.invs[1]] # 0
    <3>1. tx'[f[2]] = tx[f[2]]
      BY <1>10, <2>1
    <3>2. tx[f[2]].call \in Calls[f[2]]
      BY <2>1, TxnFacts
    <3>3. tx[f[2]].call.invs[1] \in Ids
      BY <2>1, <3>2, CallFacts
    <3> QED
      BY <1>3, <2>1, <2>2, <3>1, <3>3
  <2> QED
    BY <1>5, <1>10, <2>1, <2>2 DEF EventsOK
<1>17. tx' = [u \in Txns |-> tx'[u]]
  BY <1>1, <1>9
<1> QED
  BY <1>4, <1>14, <1>15, <1>16, <1>17 DEF InvoicesInv

\* Every step keeps the invariant.
LEMMA InvoicesNext ==
  ASSUME InvoicesInv, [Next]_vars
  PROVE  InvoicesInv'
<1>1. CASE Next
  <2>1. PICK t \in Txns : Begin(t) \/ Step(t) \/ Abort(t)
    BY <1>1 DEF Next
  <2> QED
    BY <2>1, BeginKeeps, InsertInvoiceKeeps, AddLineKeeps, ChangeLineKeeps, RecomputeTotalsKeeps,
       WriteTotalsKeeps, ReadStatusKeeps, WriteStatusKeeps, ReadInvoiceKeeps, InsertPaymentKeeps,
       CloseInvoiceKeeps, CommitKeeps, AbortKeeps DEF Step
<1>2. CASE UNCHANGED vars
  <2>1. /\ status' = status /\ total' = total /\ number' = number /\ lines' = lines /\ payments' = payments
        /\ entries' = entries /\ audit' = audit /\ next' = next /\ events' = events /\ tx' = tx
    BY <1>2 DEF vars
  <2>2. TablesOK'
    BY <2>1 DEF InvoicesInv, TablesOK, NumbersGapless, CloseIsWhole, Exists, Of
  <2>3. EventsOK'
    BY <2>1 DEF InvoicesInv, EventsOK
  <2> QED
    BY <2>1, <2>2, <2>3 DEF InvoicesInv
<1> QED
  BY <1>1, <1>2

-------------------------------------------------------------------------------------
(* InvoicesInv holds in every state. *)

\* Distinct numbers from 1 to the number of invoices are all of them.
LEMMA GaplessStarts ==
  ASSUME NEW has \in SUBSET Ids, NEW nu \in [Ids -> 0 .. Cardinality(has)],
         {i \in Ids : nu[i] # 0} = has, IsInjective(Restrict(nu, has))
  PROVE  /\ IsFiniteSet(has) /\ Cardinality(has) \in Nat
         /\ Gapless(nu, Cardinality(has) + 1) /\ nu \in [Ids -> Nat] /\ Cardinality(has) + 1 \in Nat1
<1>1. IsFiniteSet(has) /\ Cardinality(has) \in Nat
  BY BoundsAssumption, FS_Subset, FS_CardinalityType
<1> PICK n : n = Cardinality(has)
  OBVIOUS
<1> PICK f : f = Restrict(nu, has)
  OBVIOUS
<1>2. f \in [has -> 1 .. n] /\ \A i \in has : f[i] = nu[i]
  BY <1>1 DEF Restrict
<1>3. IsFiniteSet(1 .. n) /\ Cardinality(1 .. n) = n
  BY <1>1, FS_Interval
<1>4. f \in Injection(has, 1 .. n)
  BY <1>2 DEF Injection, IsInjective
<1>5. f \in Surjection(has, 1 .. n)
  BY <1>3, <1>4, FS_Injection
<1>6. \A m \in 1 .. n : \E i \in Ids : nu[i] = m
  BY <1>2, <1>5 DEF Surjection
<1>7. \A i, j \in Ids : nu[i] # 0 /\ nu[i] = nu[j] => i = j
  BY <1>2 DEF IsInjective
<1>8. \A i \in Ids : nu[i] # 0 => nu[i] \in 1 .. n
  BY <1>2
<1>9. (n + 1) - 1 = n /\ n + 1 \in Nat1
  BY <1>1 DEF Nat1
<1>10. Gapless(nu, n + 1)
  BY <1>6, <1>7, <1>8, <1>9 DEF Gapless
<1> QED
  BY <1>1, <1>9, <1>10

\* The invariant holds at first.
LEMMA InvoicesInit ==
  ASSUME Init
  PROVE  InvoicesInv
<1>1. PICK has \in SUBSET Ids :
        /\ number \in [Ids -> 0 .. Cardinality(has)]
        /\ {i \in Ids : number[i] # 0} = has /\ IsInjective(Restrict(number, has))
        /\ next = Cardinality(has) + 1
        /\ status \in [Ids -> {"draft", "sent"}]
        /\ total = [i \in Ids |-> IF i \in has THEN Opening ELSE 0]
        /\ lines = {Row(i, i, Opening) : i \in has}
  BY DEF Init
<1>2. /\ payments = {} /\ entries = {} /\ audit = {} /\ events = {} /\ met = {}
      /\ tx = [t \in Txns |-> Idle]
  BY DEF Init
<1>3. /\ IsFiniteSet(has) /\ Gapless(number, next) /\ number \in [Ids -> Nat] /\ next \in Nat1
  BY <1>1, GaplessStarts
<1>4. NumbersGapless
  BY <1>3, GaplessIs DEF NumbersGapless, Numbered, Exists
<1>5. Opening \in Nat /\ IsFiniteSet({})
  BY BoundsAssumption, FS_EmptySet
<1>6. lines \subseteq Rows(Txns \cup Ids, Nat) /\ \A row \in lines \cup payments \cup entries : number[row.inv] # 0
  BY <1>1, <1>2, <1>5 DEF Row, Rows
<1>7. IsFiniteSet(lines)
  <2> PICK f : f = [i \in has |-> Row(i, i, Opening)]
    OBVIOUS
  <2>1. f \in Surjection(has, lines)
    BY <1>1 DEF Surjection
  <2> QED
    BY <1>3, <2>1, FS_Surjection
<1>8. status \in [Ids -> Statuses] /\ \A i \in Ids : status[i] # "paid"
  BY <1>1 DEF Statuses, allowedStatusTransitions
<1>9. total \in [Ids -> Nat]
  BY <1>1, <1>5
<1>10. TablesOK
  BY <1>2, <1>3, <1>4, <1>5, <1>6, <1>7, <1>8, <1>9 DEF TablesOK, CloseIsWhole
<1>11. EventsOK
  BY <1>2 DEF EventsOK
<1>12. PICK y : y = Idle
  OBVIOUS
<1>13. y.pc = "idle" /\ y.w = Nothing
  BY <1>12 DEF Idle
<1>14. IsTx(y)
  <2>1. IsWritten(Nothing)
    BY NothingIsWritten
  <2>2. /\ y = [pc |-> "idle", call |-> None, line |-> None, k |-> 1, was |-> None,
                seen |-> 0, sum |-> 0, w |-> Nothing]
        /\ y.call = None /\ y.line = None /\ y.k = 1 /\ y.was = None /\ y.seen = 0 /\ y.sum = 0
    BY <1>12 DEF Idle
  <2> QED
    BY <1>13, <2>1, <2>2, Zenon DEF IsTx, IsWritten
<1>15. \A t \in Txns : TxOK(t, y, number, next, entries, audit, payments)
  BY <1>2, <1>12, <1>13, <1>14 DEF TxOK, EndOK, Working
<1>16. Disjoint(y, y)
  BY <1>13, NothingDisjoint DEF Creating, Working
<1>17. tx = [t \in Txns |-> tx[t]] /\ \A t \in Txns : tx[t] = y
  BY <1>2, <1>12
<1> QED
  BY <1>10, <1>11, <1>15, <1>16, <1>17 DEF InvoicesInv

\* The invariant gives the types.
LEMMA TypeFrom ==
  ASSUME InvoicesInv
  PROVE  TypeOK
<1>1. /\ status \in [Ids -> Statuses] /\ total \in [Ids -> Nat] /\ number \in [Ids -> Nat]
      /\ lines \subseteq Rows(Txns \cup Ids, Nat)
      /\ payments \subseteq Rows(Txns, Nat1) /\ entries \subseteq Rows(Txns, Nat1)
      /\ audit \subseteq [id : Txns, inv : Ids, from : Statuses, to : Statuses]
      /\ next \in Nat1
  BY DEF InvoicesInv, TablesOK
<1>2. events \subseteq {"invoice.created", "invoice.paid"} \X Txns
  BY DEF InvoicesInv, EventsOK
<1>3. ASSUME NEW t \in Open, NEW u \in Open, t # u
      PROVE  /\ ~(HoldsSequence(t) /\ HoldsSequence(u))
             /\ \A i \in Ids : ~(HoldsInvoice(t, i) /\ HoldsInvoice(u, i))
  <2>1. Disjoint(tx[t], tx[u])
    BY <1>3 DEF InvoicesInv, Open
  <2> QED
    BY <2>1 DEF Disjoint, Held, HoldsSequence, HoldsInvoice
<1> QED
  BY <1>1, <1>2, <1>3 DEF TypeOK

\* The invariant gives whole transactions, gapless numbers and true events.
LEMMA WholeFrom ==
  ASSUME InvoicesInv
  PROVE  WholeOrNothing
<1>1. NumbersGapless /\ CloseIsWhole
  BY DEF InvoicesInv, TablesOK
<1>2. BulkAllOrNothing
  <2> SUFFICES ASSUME NEW t \in Txns, tx[t].pc = "done", tx[t].call.kind = "status"
               PROVE  {a.inv : a \in {b \in audit : b.id = t}} = Range(tx[t].call.invs)
    BY DEF BulkAllOrNothing
  <2>1. EndOK(t, tx[t], number, entries, audit)
    BY DEF InvoicesInv, TxOK, Working
  <2> QED
    BY <2>1 DEF EndOK
<1>3. EventsTrue
  BY DEF InvoicesInv, EventsOK, EventsTrue, Exists
<1> QED
  BY <1>1, <1>2, <1>3 DEF WholeOrNothing

\* InvoicesInv holds in every state, whatever overlaps (WithFirmContext's transactions).
THEOREM InvoicesHold == Spec => []InvoicesInv
<1>1. Init => InvoicesInv
  BY InvoicesInit
<1>2. InvoicesInv /\ [Next]_vars => InvoicesInv'
  BY InvoicesNext
<1> QED
  BY <1>1, <1>2, PTL DEF Spec

\* Every table and every transaction has its type (invoicing's rows).
THEOREM InvoicesAreTyped == Spec => []TypeOK
BY InvoicesHold, TypeFrom, PTL

\* What one transaction of invoicing does is whole: a closing has its status and its entry, a bulk
\* update all of its invoices, numbers have no gaps and events are true (RecordPayment,
\* BulkUpdateInvoiceStatus, insertInvoiceTx).
THEOREM TransactionsAreWhole == Spec => []WholeOrNothing
BY InvoicesHold, WholeFrom, PTL

\* Whether calls overlapped is found out once and for all: it is remembered, and calls stay what
\* they are.
LEMMA OpenIsBusy ==
  ASSUME InvoicesInv
  PROVE  Open = Busy /\ Busy \subseteq Txns
<1>1. \A t \in Txns : tx[t].pc \in {"idle", "notify", "done", "failed"} \cup Working
  BY DEF InvoicesInv, TxOK
<1> QED
  BY <1>1 DEF Open, Busy, Ended, Working

-------------------------------------------------------------------------------------
(* What does not overlap: steps that commit nothing keep QuietInv. *)

Remembers == /\ met \subseteq met'
             /\ \A u \in Txns : tx[u].pc # "idle" => tx'[u].call = tx[u].call /\ tx'[u].pc # "idle"

\* Calls that have not overlapped had not before.
LEMMA ApartBefore ==
  ASSUME MetOK, Remembers, NEW kinds, NEW i, Apart(kinds, i)'
  PROVE  Apart(kinds, i)
<1> SUFFICES ASSUME NEW pair \in met
             PROVE  \E t \in pair : tx[t].call.kind \notin kinds \/ i \notin Range(tx[t].call.invs)
  BY DEF Apart
<1>1. PICK t \in pair : tx'[t].call.kind \notin kinds \/ i \notin Range(tx'[t].call.invs)
  BY DEF Apart, Remembers
<1>2. t \in Txns /\ tx[t].pc # "idle"
  BY DEF MetOK
<1> QED
  BY <1>1, <1>2 DEF Remembers

\* Of two open calls about an invoice whose calls of some kinds did not overlap, one is of
\* another kind.
About(x, i) == i \in Range(x.call.invs)
\* Of calls about i that do not overlap at most one is open.
LEMMA Alone ==
  ASSUME InvoicesInv, MetOK, NEW kinds, NEW i, Apart(kinds, i), NEW t \in Busy, NEW u \in Busy, t # u,
         tx[t].call.kind \in kinds, tx[u].call.kind \in kinds, About(tx[t], i), About(tx[u], i)
  PROVE  FALSE
<1>1. t \in Open /\ u \in Open
  BY OpenIsBusy
<1>2. Range(tx[t].call.invs) \cap Range(tx[u].call.invs) # {}
  BY DEF About
<1>3. {t, u} \in met
  BY <1>1, <1>2 DEF MetOK
<1> QED
  BY <1>3 DEF Apart, About

\* The invoice a call is at is one it is about.
LEMMA OwnAbout ==
  ASSUME InvoicesInv, NEW t \in Busy
  PROVE  About(tx[t], Own(tx[t]))
<1>1. /\ t \in Txns /\ tx[t].call \in Calls[t] /\ tx[t].k \in 1 .. Len(tx[t].call.invs)
  BY TxnFacts DEF Busy, WorkOK, Working
<1>2. tx[t].call.invs \in Seq(Ids)
  BY <1>1, CallFacts
<1>3. tx[t].k \in DOMAIN tx[t].call.invs
  BY <1>1, <1>2
<1> QED
  BY <1>3 DEF About, Own, Range

\* So is one it has a status for.
LEMMA MovedAbout ==
  ASSUME InvoicesInv, NEW t \in Busy, tx[t].call.kind = "status", NEW i \in DOMAIN tx[t].w.status
  PROVE  About(tx[t], i)
<1>1. /\ t \in Txns /\ tx[t].call \in Calls[t] /\ tx[t].k \in 1 .. Len(tx[t].call.invs)
      /\ StatusOK(t, tx[t], number)
  BY TxnFacts DEF Busy, WorkOK, Working
<1>2. tx[t].call.invs \in Seq(Ids)
  BY <1>1, CallFacts
<1>3. DOMAIN tx[t].w.status = {tx[t].call.invs[j] : j \in 1 .. (IF tx[t].pc = "commit" THEN tx[t].k ELSE tx[t].k - 1)}
  BY <1>1, Zenon DEF StatusOK
<1>4. PICK j \in 1 .. (IF tx[t].pc = "commit" THEN tx[t].k ELSE tx[t].k - 1) : i = tx[t].call.invs[j]
  BY <1>3
<1>5. j \in DOMAIN tx[t].call.invs
  BY <1>1, <1>2, <1>4
<1> QED
  BY <1>4, <1>5 DEF About, Range

\* What a statement of t has to keep, while the tables stay.
Carries(t) ==
    \A i \in Ids : tx'[t].pc \in Working =>
      /\ (tx[t].pc \in Working => SumsUp(i, tx[t], lines)) => SumsUp(i, tx'[t], lines)
      /\ (tx[t].pc \in Working => Seen(i, tx[t], status[i])) => Seen(i, tx'[t], status[i])
      /\ (tx[t].pc \in Working => Covers(t, i, tx[t], total[i], payments))
         => Covers(t, i, tx'[t], total[i], payments)

\* A step of one transaction that commits nothing and carries what it relies on keeps QuietInv.
LEMMA QuietStep ==
  ASSUME InvoicesInv, QuietInv, NEW t \in Txns, Steps(t, tx, tx'), Remembers, MetOK', Carries(t),
         UNCHANGED committed
  PROVE  QuietInv'
<1>1. \A u \in Txns : u # t => tx'[u] = tx[u]
  BY DEF Steps
<1>2. status' = status /\ total' = total /\ lines' = lines /\ payments' = payments /\ entries' = entries
  BY DEF committed
<1>3. MetOK
  BY DEF QuietInv
<1>4. \A u \in Busy' : u \in Txns /\ tx'[u].pc \in Working
  BY DEF Busy
<1>5. \A u \in Busy' : u # t => u \in Busy
  BY <1>1 DEF Busy
<1>6. ASSUME NEW i \in Ids, Apart(Edits, i)'
      PROVE  total'[i] = Sum(Of(lines', i)) /\ \A u \in Busy' : SumsUp(i, tx'[u], lines')
  <2>1. Apart(Edits, i)
    BY <1>3, <1>6, ApartBefore
  <2>2. total[i] = Sum(Of(lines, i)) /\ \A u \in Busy : SumsUp(i, tx[u], lines)
    BY <2>1 DEF QuietInv
  <2>3. ASSUME t \in Busy' PROVE SumsUp(i, tx'[t], lines)
    BY <1>4, <2>2, <2>3 DEF Carries, Busy
  <2> QED
    BY <1>1, <1>2, <1>4, <1>5, <2>2, <2>3
<1>7. ASSUME NEW i \in Ids, Apart(Moves, i)'
      PROVE  /\ Of(entries', i) # {} => status'[i] = "paid"
             /\ \A e, f \in Of(entries', i) : e = f
             /\ \A u \in Busy' : Seen(i, tx'[u], status'[i])
  <2>1. Apart(Moves, i)
    BY <1>3, <1>7, ApartBefore
  <2>2. /\ Of(entries, i) # {} => status[i] = "paid"
        /\ \A e, f \in Of(entries, i) : e = f
        /\ \A u \in Busy : Seen(i, tx[u], status[i])
    BY <2>1 DEF QuietInv
  <2>3. ASSUME t \in Busy' PROVE Seen(i, tx'[t], status[i])
    BY <1>4, <2>2, <2>3 DEF Carries, Busy
  <2> QED
    BY <1>1, <1>2, <1>4, <1>5, <2>2, <2>3
<1>8. ASSUME NEW i \in Ids, Apart(Edits \cup Moves, i)'
      PROVE  /\ Sum(Of(entries', i)) <= Sum(Of(payments', i))
             /\ \A u \in Busy' : Covers(u, i, tx'[u], total'[i], payments')
  <2>1. Apart(Edits \cup Moves, i)
    BY <1>3, <1>8, ApartBefore
  <2>2. /\ Sum(Of(entries, i)) <= Sum(Of(payments, i))
        /\ \A u \in Busy : Covers(u, i, tx[u], total[i], payments)
    BY <2>1 DEF QuietInv
  <2>3. ASSUME t \in Busy' PROVE Covers(t, i, tx'[t], total[i], payments)
    BY <1>4, <2>2, <2>3 DEF Carries, Busy
  <2> QED
    BY <1>1, <1>2, <1>4, <1>5, <2>2, <2>3
<1> QED
  BY <1>6, <1>7, <1>8 DEF QuietInv

\* A step of an open call, but for a commit.
Proceeds(t) == /\ Steps(t, tx, tx') /\ tx[t].pc \in Working /\ tx'[t].pc # "idle"
               /\ tx'[t].call = tx[t].call /\ met' = met /\ UNCHANGED committed

\* A transaction that goes on, or ends, meets nobody new.
LEMMA ProceedsRemembers ==
  ASSUME InvoicesInv, MetOK, NEW t \in Txns, Steps(t, tx, tx'), tx'[t].call = tx[t].call, met' = met,
         tx[t].pc # "idle", tx'[t].pc # "idle", t \in Open' => t \in Open
  PROVE  Remembers /\ MetOK'
<1>1. \A u \in Txns : u # t => tx'[u] = tx[u]
  BY DEF Steps
<1>2. \A u \in Txns : tx'[u].call = tx[u].call
  BY <1>1
<1>3. \A u \in Txns : tx[u].pc # "idle" => tx'[u].pc # "idle"
  BY <1>1
<1>4. \A u \in Open' : u \in Open /\ u \in Txns
  BY <1>1 DEF Open
<1>5. Remembers
  BY <1>2, <1>3 DEF Remembers
<1>6. MetOK'
  BY <1>2, <1>3, <1>4 DEF MetOK
<1> QED
  BY <1>5, <1>6

\* A statement after which the transaction may still rely on what it did keeps QuietInv.
LEMMA ProceedsKeeps ==
  ASSUME InvoicesInv, QuietInv, NEW t \in Txns, Proceeds(t), Carries(t)
  PROVE  QuietInv'
<1>1. tx[t].pc # "idle" /\ t \in Open
  BY DEF Proceeds, Working, Open, Ended
<1>2. Remembers /\ MetOK'
  BY <1>1, ProceedsRemembers DEF Proceeds, QuietInv
<1> QED
  BY <1>2, QuietStep DEF Proceeds

\* A call that is rolled back, or over.
LEMMA EndQuiet ==
  ASSUME InvoicesInv, QuietInv, NEW t \in Txns, NEW p \in {"failed", "done"}, End(t, p),
         tx[t].pc \in Working \cup {"notify"}, met' = met, UNCHANGED committed
  PROVE  QuietInv'
<1>0. PICK y : Ends(y, p, tx[t].call)
  BY DEF Ends
<1>1. tx = [u \in Txns |-> tx[u]] /\ tx' = [tx EXCEPT ![t] = y]
  BY <1>0 DEF InvoicesInv, End, Ends
<1>2. tx'[t] = y /\ Steps(t, tx, tx')
  BY <1>1 DEF Steps
<1>3. y.pc = p /\ y.call = tx[t].call
  BY <1>0, CallEnds
<1>4. tx'[t].pc \notin Working /\ tx'[t].pc # "idle" /\ tx[t].pc # "idle" /\ t \notin Open'
  BY <1>2, <1>3 DEF Working, Open, Ended
<1>5. Remembers /\ MetOK'
  BY <1>2, <1>3, <1>4, ProceedsRemembers DEF QuietInv
<1>6. Carries(t)
  BY <1>4 DEF Carries
<1> QED
  BY <1>2, <1>5, <1>6, QuietStep

\* Calls of one kind have nothing to do with what is so of the others.
LEMMA OfOtherKinds ==
  ASSUME NEW x, NEW t, NEW i, NEW li, NEW s, NEW to, NEW pa
  PROVE  /\ x.call.kind \notin Edits => SumsUp(i, x, li)
         /\ x.call.kind \notin Moves => Seen(i, x, s)
         /\ x.call.kind # "pay" => Covers(t, i, x, to, pa)
BY DEF SumsUp, Seen, Covers, Moves

\* A line edit only has sums to carry.
LEMMA EditQuiet ==
  ASSUME InvoicesInv, QuietInv, NEW t \in Txns, Proceeds(t), tx[t].call.kind \in Edits,
         \A i \in Ids : SumsUp(i, tx[t], lines) => SumsUp(i, tx'[t], lines)
  PROVE  QuietInv'
<1>1. tx'[t].call.kind \notin Moves /\ tx'[t].call.kind # "pay" /\ tx[t].pc \in Working
  BY DEF Proceeds, Edits, Moves
<1>2. Carries(t)
  BY <1>1, OfOtherKinds DEF Carries
<1> QED
  BY <1>2, ProceedsKeeps

\* A status update only has the statuses it has seen to carry.
LEMMA StatusQuiet ==
  ASSUME InvoicesInv, QuietInv, NEW t \in Txns, Proceeds(t), tx[t].call.kind = "status",
         \A i \in Ids : Seen(i, tx[t], status[i]) => Seen(i, tx'[t], status[i])
  PROVE  QuietInv'
<1>1. tx'[t].call.kind \notin Edits /\ tx'[t].call.kind # "pay" /\ tx[t].pc \in Working
  BY DEF Proceeds, Edits
<1>2. Carries(t)
  BY <1>1, OfOtherKinds DEF Carries
<1> QED
  BY <1>2, ProceedsKeeps

\* A payment has the status and the total it has seen to carry.
LEMMA PayQuiet ==
  ASSUME InvoicesInv, QuietInv, NEW t \in Txns, Proceeds(t), tx[t].call.kind = "pay",
         \A i \in Ids : Seen(i, tx[t], status[i]) => Seen(i, tx'[t], status[i]),
         \A i \in Ids : Covers(t, i, tx[t], total[i], payments) => Covers(t, i, tx'[t], total[i], payments)
  PROVE  QuietInv'
<1>1. tx'[t].call.kind \notin Edits /\ tx[t].pc \in Working
  BY DEF Proceeds, Edits
<1>2. Carries(t)
  BY <1>1, OfOtherKinds DEF Carries
<1> QED
  BY <1>2, ProceedsKeeps

\* The statements.
LEMMA InsertInvoiceQuiet ==
  ASSUME InvoicesInv, QuietInv, NEW t \in Txns, InsertInvoice(t)
  PROVE  QuietInv'
<1>1. tx = [u \in Txns |-> tx[u]] /\ IsTx(tx[t])
  BY TxnFacts DEF InvoicesInv
<1>2. tx'[t].pc = "commit" /\ tx'[t].call = tx[t].call /\ tx[t].call.kind = "create"
  BY <1>1 DEF InsertInvoice, IsTx
<1>3. Proceeds(t)
  <2>1. Steps(t, tx, tx')
    <3>1. \A u \in Txns : u # t => tx'[u] = tx[u]
      BY <1>1 DEF InsertInvoice
    <3>2. tx' = [u \in Txns |-> tx'[u]]
      BY <1>1, ZenonT(60) DEF InsertInvoice
    <3> QED
      BY <3>1, <3>2 DEF Steps
  <2> QED
    BY <1>2, <2>1 DEF InsertInvoice, Proceeds, Working
<1>4. tx'[t].call.kind \notin Edits /\ tx'[t].call.kind \notin Moves /\ tx'[t].call.kind # "pay"
  BY <1>2 DEF Edits, Moves
<1>5. Carries(t)
  BY <1>4, OfOtherKinds DEF Carries
<1> QED
  BY <1>3, <1>5, ProceedsKeeps

\* AddLine relies on nothing yet.
LEMMA AddLineQuiet ==
  ASSUME InvoicesInv, QuietInv, NEW t \in Txns, AddLine(t)
  PROVE  QuietInv'
<1>1. tx = [u \in Txns |-> tx[u]] /\ IsTx(tx[t]) /\ tx[t].pc \in Working
  BY TxnFacts DEF InvoicesInv, AddLine, Working
<1>2. CASE Fail(t)
  BY <1>1, <1>2, EndQuiet DEF Fail, AddLine
<1>3. CASE tx' = [tx EXCEPT ![t].pc = "sum", ![t].w.add = {NewRow(t)}]
  <2>1. tx'[t].pc = "sum" /\ tx'[t].call = tx[t].call /\ tx[t].call.kind \in Edits
    BY <1>1, <1>3 DEF AddLine, IsTx, Edits
  <2>2. Proceeds(t)
    BY <1>1, <1>3, <2>1 DEF AddLine, Proceeds, Steps
  <2>3. \A i \in Ids : SumsUp(i, tx'[t], lines)
    BY <2>1 DEF SumsUp
  <2> QED
    BY <2>1, <2>2, <2>3, EditQuiet
<1> QED
  BY <1>2, <1>3 DEF AddLine

\* ChangeLine relies on nothing yet.
LEMMA ChangeLineQuiet ==
  ASSUME InvoicesInv, QuietInv, NEW t \in Txns, ChangeLine(t)
  PROVE  QuietInv'
<1> DEFINE old == {row \in Of(lines, Inv(t)) : row.id = tx[t].line}
           edited == IF tx[t].call.kind = "drop" THEN {}
                     ELSE {[row EXCEPT !.amt = tx[t].call.amt] : row \in old}
<1>0. Fail(t) \/ tx' = [tx EXCEPT ![t].pc = "sum", ![t].w.del = old, ![t].w.add = edited]
  BY DEF ChangeLine
<1>1. tx = [u \in Txns |-> tx[u]] /\ IsTx(tx[t]) /\ tx[t].pc \in Working
  BY TxnFacts DEF InvoicesInv, ChangeLine, Working
<1>2. CASE Fail(t)
  BY <1>1, <1>2, EndQuiet DEF Fail, ChangeLine
<1>3. CASE \E rows, new : tx' = [tx EXCEPT ![t].pc = "sum", ![t].w.del = rows, ![t].w.add = new]
  <2>1. PICK rows, new : tx' = [tx EXCEPT ![t].pc = "sum", ![t].w.del = rows, ![t].w.add = new]
    BY <1>3
  <2>2. tx'[t].pc = "sum" /\ tx'[t].call = tx[t].call /\ tx[t].call.kind \in Edits
    BY <1>1, <2>1 DEF ChangeLine, IsTx, Edits
  <2>3. Proceeds(t)
    BY <1>1, <2>1, <2>2, ZenonT(60) DEF ChangeLine, Proceeds, Steps
  <2>4. \A i \in Ids : SumsUp(i, tx'[t], lines)
    BY <2>2 DEF SumsUp
  <2> QED
    BY <2>2, <2>3, <2>4, EditQuiet
<1> HIDE DEF old, edited
<1> QED
  BY <1>0, <1>2, <1>3

\* RecomputeTotals sums the committed lines and its own.
LEMMA RecomputeTotalsQuiet ==
  ASSUME InvoicesInv, QuietInv, NEW t \in Txns, RecomputeTotals(t)
  PROVE  QuietInv'
<1>1. /\ tx = [u \in Txns |-> tx[u]] /\ IsTx(tx[t]) /\ tx[t].pc \in Working /\ Inv(t) = Own(tx[t])
      /\ WorkOK(t, tx[t], number, next) /\ tx[t].call \in Calls[t] /\ tx[t].pc = "sum"
  BY TxnFacts, OwnIn DEF InvoicesInv, RecomputeTotals, Working
<1>2. tx[t].call.kind \in Edits
  <2>1. tx[t].call.kind \in {"create", "add", "set", "drop", "status", "pay"}
    BY <1>1, CallFacts
  <2> QED
    BY <1>1, <2>1 DEF WorkOK, CreateOK, StatusOK, PayOK, Edits
<1>3. /\ tx'[t].pc = "write" /\ tx'[t].call = tx[t].call /\ tx'[t].k = tx[t].k /\ tx'[t].w = tx[t].w
      /\ tx'[t].sum = Sum(Of(Lines(t), Inv(t)))
  BY <1>1 DEF RecomputeTotals, IsTx
<1>4. Proceeds(t)
  BY <1>1, <1>3 DEF RecomputeTotals, Proceeds, Steps
<1>5. \A i \in Ids : SumsUp(i, tx'[t], lines)
  <2>1. Own(tx'[t]) = Inv(t)
    BY <1>1, <1>3 DEF Own
  <2> QED
    BY <1>3, <2>1 DEF SumsUp, Lines
<1> QED
  BY <1>2, <1>4, <1>5, EditQuiet

\* WriteTotals writes the sum it read, which nobody has changed since.
LEMMA WriteTotalsQuiet ==
  ASSUME InvoicesInv, QuietInv, NEW t \in Txns, WriteTotals(t)
  PROVE  QuietInv'
<1>1. /\ tx = [u \in Txns |-> tx[u]] /\ IsTx(tx[t]) /\ tx[t].pc \in Working /\ tx[t].pc = "write"
      /\ tx[t].call.kind \in Edits
  BY TxnFacts DEF InvoicesInv, WriteTotals, Working, Edits
<1>2. /\ tx'[t].pc = "commit" /\ tx'[t].call = tx[t].call /\ tx'[t].k = tx[t].k
      /\ tx'[t].w.add = tx[t].w.add /\ tx'[t].w.del = tx[t].w.del /\ tx'[t].sum = tx[t].sum
  BY <1>1 DEF WriteTotals, IsTx
<1>3. Proceeds(t)
  BY <1>1, <1>2 DEF WriteTotals, Proceeds, Steps
<1>4. \A i \in Ids : SumsUp(i, tx[t], lines) => SumsUp(i, tx'[t], lines)
  BY <1>1, <1>2 DEF SumsUp, Own
<1> QED
  BY <1>1, <1>3, <1>4, EditQuiet

\* No status is reached from itself, and none from paid.
LEMMA Transitions ==
    /\ \A s \in Statuses : s \notin allowedStatusTransitions[s]
    /\ allowedStatusTransitions["paid"] = {}
BY DEF Statuses, allowedStatusTransitions

\* ReadStatus reads the committed status, for it has not written it.
LEMMA ReadStatusQuiet ==
  ASSUME InvoicesInv, QuietInv, NEW t \in Txns, ReadStatus(t)
  PROVE  QuietInv'
<1> DEFINE x == tx[t]
<1>1. x.pc \in Working /\ x.call.kind = "status" /\ x.pc = "run"
  BY DEF ReadStatus, Working
<1>2. /\ StatusOK(t, x, number) /\ Inv(t) = Own(x) /\ Own(x) \in Ids
      /\ x.call.to \in Statuses \ {"paid"} /\ tx = [u \in Txns |-> tx[u]] /\ IsTx(x)
  BY <1>1, StatusFacts
<1>3. CASE Fail(t)
  BY <1>1, <1>3, EndQuiet DEF Fail, ReadStatus
<1>4. CASE /\ x.call.to \in allowedStatusTransitions[Status(t, Inv(t))]
           /\ tx' = [tx EXCEPT ![t].pc = "write", ![t].was = Status(t, Inv(t)), ![t].seen = total[Inv(t)]]
  <2>1. /\ tx'[t].pc = "write" /\ tx'[t].call = x.call /\ tx'[t].k = x.k /\ tx'[t].w = x.w
        /\ tx'[t].was = Status(t, Inv(t))
    BY <1>2, <1>4 DEF IsTx
  <2>2. Proceeds(t)
    BY <1>1, <1>2, <1>4, <2>1 DEF ReadStatus, Proceeds, Steps
  <2>3. Own(tx'[t]) = Own(x)
    BY <2>1 DEF Own
  <2>4. /\ \A i \in DOMAIN x.w.status : x.w.status[i] = x.call.to
        /\ status[Own(x)] \in Statuses /\ DOMAIN status = Ids
    BY <1>2 DEF StatusOK, InvoicesInv, TablesOK
  <2>5. Status(t, Own(x)) = IF Own(x) \in DOMAIN x.w.status THEN x.w.status[Own(x)] ELSE status[Own(x)]
    BY <1>2, <2>4 DEF Status, Over
  <2>6. Own(x) \notin DOMAIN x.w.status
    BY <1>2, <1>4, <2>4, <2>5, Transitions
  <2>7. Status(t, Own(x)) = status[Own(x)]
    BY <2>5, <2>6
  <2>8. \A i \in Ids : Seen(i, x, status[i]) => Seen(i, tx'[t], status[i])
    BY <1>1, <1>2, <2>1, <2>3, <2>6, <2>7 DEF Seen
  <2> QED
    BY <1>1, <2>2, <2>8, StatusQuiet
<1> QED
  BY <1>3, <1>4 DEF ReadStatus

\* WriteStatus moves from the status it read.
LEMMA WriteStatusQuiet ==
  ASSUME InvoicesInv, QuietInv, NEW t \in Txns, WriteStatus(t)
  PROVE  QuietInv'
<1> DEFINE x == tx[t]
<1>1. x.pc \in Working /\ x.call.kind = "status" /\ x.pc = "write"
  BY DEF WriteStatus, Working
<1>2. /\ StatusOK(t, x, number) /\ Inv(t) = Own(x) /\ Own(x) \in Ids
      /\ x.call.to \in Statuses \ {"paid"} /\ tx = [u \in Txns |-> tx[u]] /\ IsTx(x)
  BY <1>1, StatusFacts
<1>3. /\ tx'[t].pc \in {"run", "commit"} /\ tx'[t].call = x.call
      /\ tx'[t].w.status = Over(Just(Inv(t), x.call.to), x.w.status)
  BY <1>2 DEF WriteStatus, IsTx
<1>4. Proceeds(t)
  <2>1. Steps(t, tx, tx')
    <3>1. \A u \in Txns : u # t => tx'[u] = tx[u]
      BY <1>2 DEF WriteStatus
    <3>2. tx' = [u \in Txns |-> tx'[u]]
      BY <1>2, ZenonT(60) DEF WriteStatus
    <3> QED
      BY <3>1, <3>2 DEF Steps
  <2> QED
    BY <1>1, <1>3, <2>1 DEF WriteStatus, Proceeds
<1>5. DOMAIN tx'[t].w.status = DOMAIN x.w.status \cup {Own(x)}
  BY <1>2, <1>3 DEF Over, Just
<1>6. \A i \in Ids : Seen(i, x, status[i]) => Seen(i, tx'[t], status[i])
  <2> SUFFICES ASSUME NEW i \in Ids, Seen(i, x, status[i]) PROVE Seen(i, tx'[t], status[i])
    OBVIOUS
  <2>1. tx'[t].call.kind = "status" /\ tx'[t].pc # "write"
    BY <1>1, <1>3
  <2>2. x.was \in Statuses /\ x.call.to \in allowedStatusTransitions[x.was]
    BY <1>1, <1>2 DEF StatusOK
  <2>3. i \in DOMAIN x.w.status => x.call.to \in allowedStatusTransitions[status[i]]
    BY <1>1 DEF Seen
  <2>4. i = Own(x) => x.was = status[i]
    BY <1>1 DEF Seen
  <2>5. i \in DOMAIN tx'[t].w.status => tx'[t].call.to \in allowedStatusTransitions[status[i]]
    BY <1>3, <1>5, <2>2, <2>3, <2>4
  <2> QED
    BY <2>1, <2>5 DEF Seen
<1> QED
  BY <1>1, <1>4, <1>6, StatusQuiet

\* ReadInvoice reads the committed status and total.
LEMMA ReadInvoiceQuiet ==
  ASSUME InvoicesInv, QuietInv, NEW t \in Txns, ReadInvoice(t)
  PROVE  QuietInv'
<1> DEFINE x == tx[t]
<1>1. x.pc \in Working /\ x.call.kind = "pay" /\ x.pc = "run"
  BY DEF ReadInvoice, Working
<1>2. /\ PayOK(t, x, number) /\ Inv(t) = Own(x) /\ Own(x) \in Ids /\ tx = [u \in Txns |-> tx[u]] /\ IsTx(x)
  BY <1>1, PayFacts
<1>3. x.w = Nothing
  BY <1>1, <1>2 DEF PayOK
<1>4. CASE Fail(t)
  BY <1>1, <1>4, EndQuiet DEF Fail, ReadInvoice
<1>5. CASE /\ status[Inv(t)] # "cancelled"
           /\ tx' = [tx EXCEPT ![t].pc = "insert", ![t].was = status[Inv(t)], ![t].seen = total[Inv(t)]]
  <2>1. /\ tx'[t].pc = "insert" /\ tx'[t].call = x.call /\ tx'[t].k = x.k /\ tx'[t].w = Nothing
        /\ tx'[t].was = status[Inv(t)] /\ tx'[t].seen = total[Inv(t)]
    BY <1>2, <1>3, <1>5 DEF IsTx
  <2>2. Proceeds(t)
    BY <1>1, <1>2, <1>5, <2>1 DEF ReadInvoice, Proceeds, Steps
  <2>3. Own(tx'[t]) = Own(x)
    BY <2>1 DEF Own
  <2>4. tx'[t].w.entry = {}
    BY <2>1, NothingIs
  <2>5. \A i \in Ids : Seen(i, tx'[t], status[i])
    BY <1>1, <1>2, <1>5, <2>1, <2>3, <2>4 DEF Seen
  <2>6. \A i \in Ids : Covers(t, i, tx'[t], total[i], payments)
    BY <1>1, <1>2, <1>5, <2>1, <2>3, <2>4 DEF Covers
  <2> QED
    BY <1>1, <2>2, <2>5, <2>6, PayQuiet
<1> QED
  BY <1>4, <1>5 DEF ReadInvoice

\* InsertPayment decides by the committed payments and its own.
LEMMA InsertPaymentQuiet ==
  ASSUME InvoicesInv, QuietInv, NEW t \in Txns, InsertPayment(t)
  PROVE  QuietInv'
<1> DEFINE x == tx[t]
<1>1. x.pc = "insert" /\ x.pc \in Working
  BY DEF InsertPayment, ThenClose, Working
<1>2. x.call.kind = "pay"
  <2>1. WorkOK(t, x, number, next) /\ x.call \in Calls[t]
    BY <1>1, TxnFacts, OwnIn
  <2>2. x.call.kind \in {"create", "add", "set", "drop", "status", "pay"}
    BY <2>1, CallFacts
  <2> QED
    BY <1>1, <2>1, <2>2 DEF WorkOK, CreateOK, StatusOK, EditOK, Edits
<1>3. /\ PayOK(t, x, number) /\ Inv(t) = Own(x) /\ Own(x) \in Ids /\ tx = [u \in Txns |-> tx[u]]
      /\ IsTx(x) /\ x.call.amt \in Nat1
  BY <1>1, <1>2, PayFacts
<1>4. x.w = Nothing /\ x.w.entry = {}
  BY <1>1, <1>3, NothingIs DEF PayOK
<1>5. PICK close \in BOOLEAN : close <=> (Paid(t) >= total[Inv(t)] /\ x.was # "paid")
  OBVIOUS
<1>6. tx' = [tx EXCEPT ![t].w.pay = {NewRow(t)}, ![t].pc = IF close THEN "write" ELSE "commit"]
  BY <1>5 DEF InsertPayment, ThenClose
<1>7. /\ tx'[t].pc = (IF close THEN "write" ELSE "commit") /\ tx'[t].call = x.call /\ tx'[t].k = x.k
      /\ tx'[t].was = x.was /\ tx'[t].seen = x.seen /\ tx'[t].w.entry = {}
  BY <1>3, <1>4, <1>6 DEF IsTx
<1>8. Proceeds(t)
  BY <1>1, <1>3, <1>6, <1>7 DEF InsertPayment, ThenClose, Proceeds, Steps
<1>9. Own(tx'[t]) = Own(x) /\ MyRow(t, tx'[t]) = NewRow(t) /\ MyRow(t, x) = NewRow(t)
  BY <1>3, <1>7 DEF Own, MyRow, NewRow
<1>10. \A i \in Ids : Seen(i, x, status[i]) => Seen(i, tx'[t], status[i])
  <2> SUFFICES ASSUME NEW i \in Ids, Seen(i, x, status[i]) PROVE Seen(i, tx'[t], status[i])
    OBVIOUS
  <2>1. i = Own(x) => x.was = status[i] /\ status[i] # "cancelled"
    BY <1>1, <1>2 DEF Seen
  <2>2. tx'[t].pc = "write" => x.was # "paid"
    BY <1>5, <1>7
  <2> QED
    BY <1>2, <1>7, <1>9, <2>1, <2>2 DEF Seen
<1>11. \A i \in Ids : Covers(t, i, x, total[i], payments) => Covers(t, i, tx'[t], total[i], payments)
  <2> SUFFICES ASSUME NEW i \in Ids, i = Own(x), x.seen = total[i]
               PROVE  Covers(t, i, tx'[t], total[i], payments)
    BY <1>1, <1>2, <1>9 DEF Covers
  <2>1. Paid(t) = Sum(Of(payments, i) \cup {NewRow(t)})
    BY <1>3 DEF Paid
  <2>2. Paid(t) \in Nat /\ total[i] \in Nat
    <3>1. payments \subseteq Rows(Txns, Nat1) /\ IsFiniteSet(payments) /\ total[i] \in Nat
      BY DEF InvoicesInv, TablesOK
    <3>2. NewRow(t).amt \in Nat
      BY <1>3 DEF NewRow, Row, Nat1
    <3>3. Of(payments, i) \subseteq payments /\ IsFiniteSet(Of(payments, i))
      BY <3>1, OfIn
    <3>4. IsFiniteSet(Of(payments, i) \cup {NewRow(t)})
      BY <3>3, FS_AddElement
    <3>5. \A row \in Of(payments, i) \cup {NewRow(t)} : row.amt \in Nat
      BY <3>1, <3>2, <3>3 DEF Rows, Nat1
    <3> QED
      BY <2>1, <3>1, <3>4, <3>5, RowSum
  <2>3. CASE close
    BY <1>5, <1>7, <1>9, <1>3, <2>1, <2>3 DEF Covers
  <2>4. CASE ~close
    <3>1. x.was = "paid" \/ Paid(t) < total[i]
      BY <1>3, <1>5, <2>2, <2>4
    <3> QED
      BY <1>7, <1>9, <2>1, <2>4, <3>1 DEF Covers
  <2> QED
    BY <2>3, <2>4
<1> QED
  BY <1>2, <1>8, <1>10, <1>11, PayQuiet

\* CloseInvoice closes an invoice that is covered and was not paid.
LEMMA CloseInvoiceQuiet ==
  ASSUME InvoicesInv, QuietInv, NEW t \in Txns, CloseInvoice(t)
  PROVE  QuietInv'
<1> DEFINE x == tx[t]
<1>1. x.pc \in Working /\ x.call.kind = "pay" /\ x.pc = "write"
  BY DEF CloseInvoice, Working
<1>2. /\ PayOK(t, x, number) /\ Inv(t) = Own(x) /\ Own(x) \in Ids /\ tx = [u \in Txns |-> tx[u]] /\ IsTx(x)
  BY <1>1, PayFacts
<1>4. CASE Fail(t)
  BY <1>1, <1>4, EndQuiet DEF Fail, CloseInvoice
<1>5. CASE tx' = [tx EXCEPT ![t].pc = "commit", ![t].w.status = Just(Inv(t), "paid"),
                            ![t].w.entry = {Row(t, Inv(t), x.seen)}]
  <2>1. /\ tx'[t].pc = "commit" /\ tx'[t].call = x.call /\ tx'[t].k = x.k
        /\ tx'[t].was = x.was /\ tx'[t].seen = x.seen /\ tx'[t].w.entry # {}
    BY <1>2, <1>5 DEF IsTx
  <2>2. Proceeds(t)
    BY <1>1, <1>2, <1>5, <2>1 DEF CloseInvoice, Proceeds, Steps
  <2>3. Own(tx'[t]) = Own(x) /\ MyRow(t, tx'[t]) = MyRow(t, x)
    BY <2>1 DEF Own, MyRow
  <2>4. \A i \in Ids : Seen(i, x, status[i]) => Seen(i, tx'[t], status[i])
    BY <1>1, <2>1, <2>3 DEF Seen
  <2>5. \A i \in Ids : Covers(t, i, x, total[i], payments) => Covers(t, i, tx'[t], total[i], payments)
    BY <1>1, <2>1, <2>3 DEF Covers
  <2> QED
    BY <1>1, <2>2, <2>4, <2>5, PayQuiet
<1> QED
  BY <1>4, <1>5 DEF CloseInvoice

\* Begin remembers whom the new call meets, which has nothing to rely on yet.
LEMMA BeginQuiet ==
  ASSUME InvoicesInv, QuietInv, NEW t \in Txns, Begin(t)
  PROVE  QuietInv'
<1>1. PICK c \in Calls[t], l \in {row.id : row \in lines} \cup {None} :
        /\ tx' = [tx EXCEPT ![t].pc = "run", ![t].call = c, ![t].line = l]
        /\ met' = met \cup {{t, u} : u \in {v \in Open : Range(tx[v].call.invs) \cap Range(c.invs) # {}}}
  BY DEF Begin
<1>2. tx[t] = Idle /\ tx = [u \in Txns |-> tx[u]] /\ UNCHANGED committed /\ tx[t].pc = "idle"
  BY TxnFacts DEF Begin, TxOK, InvoicesInv
<1>3. PICK y : y = [Idle EXCEPT !.pc = "run", !.call = c, !.line = l]
  OBVIOUS
<1>4. tx'[t] = y /\ Steps(t, tx, tx')
  BY <1>1, <1>2, <1>3 DEF Steps
<1>5. y.pc = "run" /\ y.call = c /\ y.w = Nothing
  BY <1>3 DEF Idle
<1>6. \A u \in Txns : u # t => tx'[u] = tx[u]
  BY <1>4 DEF Steps
<1>7. Remembers
  BY <1>1, <1>2, <1>6 DEF Remembers
<1>8. MetOK'
  <2>1. MetOK /\ t \notin Open /\ \A u \in Open : u \in Txns /\ tx[u].pc # "idle"
    BY <1>2 DEF QuietInv, Open
  <2>2. \A u \in Open' : u = t \/ u \in Open
    BY <1>6 DEF Open
  <2>3. ASSUME NEW pair \in met', NEW u \in pair
        PROVE  u \in Txns /\ tx'[u].pc # "idle"
    <3>1. CASE pair \in met
      BY <1>7, <2>1, <3>1 DEF MetOK, Remembers
    <3>2. CASE \E v \in Open : pair = {t, v}
      BY <1>4, <1>5, <1>7, <2>1, <3>2 DEF Remembers
    <3> QED
      BY <1>1, <3>1, <3>2
  <2>4. ASSUME NEW u \in Open', NEW v \in Open', u # v,
               Range(tx'[u].call.invs) \cap Range(tx'[v].call.invs) # {}
        PROVE  {u, v} \in met'
    <3>1. CASE u = t
      <4>1. v \in Open /\ tx'[v] = tx[v] /\ tx'[t].call = c
        BY <1>4, <1>5, <1>6, <2>1, <2>2, <2>4, <3>1
      <4> QED
        BY <1>1, <2>4, <3>1, <4>1
    <3>2. CASE v = t
      <4>1. u \in Open /\ tx'[u] = tx[u] /\ tx'[t].call = c
        BY <1>4, <1>5, <1>6, <2>1, <2>2, <2>4, <3>2
      <4>2. {u, v} = {t, u} /\ Range(tx[u].call.invs) \cap Range(c.invs) # {}
        BY <2>4, <3>2, <4>1
      <4> QED
        BY <1>1, <4>1, <4>2
    <3>3. CASE u # t /\ v # t
      <4>1. u \in Open /\ v \in Open /\ tx'[u] = tx[u] /\ tx'[v] = tx[v]
        BY <1>6, <2>1, <2>2, <3>3
      <4> QED
        BY <1>7, <2>1, <2>4, <4>1 DEF MetOK, Remembers
    <3> QED
      BY <3>1, <3>2, <3>3
  <2> QED
    BY <2>3, <2>4 DEF MetOK
<1>9. Carries(t)
  BY <1>4, <1>5, NothingIs DEF Carries, SumsUp, Seen, Covers
<1> QED
  BY <1>2, <1>4, <1>7, <1>8, <1>9, QuietStep

\* What ends without a commit keeps QuietInv.
LEMMA AbortQuiet ==
  ASSUME InvoicesInv, QuietInv, NEW t \in Txns, Abort(t) \/ BreakDeadlock(t) \/ Dispatch(t)
  PROVE  QuietInv'
<1>1. TxOK(t, tx[t], number, next, entries, audit, payments)
  BY TxnFacts
<1>2. CASE Abort(t)
  <2>1. tx[t].pc \in {"notify"} \cup Working
    BY <1>1, <1>2 DEF Abort, Ended, TxOK
  <2> QED
    BY <1>2, <2>1, EndQuiet DEF Abort, Fail
<1>3. CASE BreakDeadlock(t)
  <2>1. tx[t].pc \in Working
    BY <1>1, <1>3 DEF BreakDeadlock, Open, Ended, TxOK
  <2> QED
    BY <1>3, <2>1, EndQuiet DEF BreakDeadlock, Fail
<1>4. CASE Dispatch(t)
  BY <1>4, EndQuiet DEF Dispatch
<1> QED
  BY <1>2, <1>3, <1>4

-------------------------------------------------------------------------------------
(* A commit keeps QuietInv. *)

\* Sums of no row, of one, and of one more.
LEMMA SumNone == Sum({}) = 0
<1>1. IsFiniteSet({})
  BY FS_EmptySet
<1> QED
  BY <1>1, SumIsOnSet, SumRecursion

\* A sum with one more row.
LEMMA SumMore ==
  ASSUME NEW rows, IsFiniteSet(rows), NEW r, r \notin rows, \A row \in rows \cup {r} : row.amt \in Nat
  PROVE  Sum(rows \cup {r}) = r.amt + Sum(rows) /\ Sum(rows) \in Nat
<1> PICK all : all = rows \cup {r}
  OBVIOUS
<1>1. IsFiniteSet(all) /\ \A x \in all : Amounts(all)[x] = x.amt
  BY FS_AddElement DEF Amounts
<1>2. \A x \in all : Amounts(all)[x] \in Int
  BY <1>1
<1>3. r \in all /\ all \ {r} = rows
  OBVIOUS
<1>4. SumFunctionOnSet(Amounts(all), all) = Amounts(all)[r] + SumFunctionOnSet(Amounts(all), rows)
  <2> PICK f : f = Amounts(all)
    OBVIOUS
  <2>1. \A x \in all : f[x] \in Int
    BY <1>2
  <2>2. SumFunctionOnSet(f, all) = f[r] + SumFunctionOnSet(f, all \ {r})
    BY <1>1, <1>3, <2>1, SumPick
  <2> QED
    BY <1>3, <2>2
<1>5. \A x \in rows : Amounts(all)[x] = Amounts(rows)[x]
  BY DEF Amounts
<1>6. SumFunctionOnSet(Amounts(all), rows) = SumFunctionOnSet(Amounts(rows), rows)
  BY <1>5, SumSame
<1>7. Sum(rows) \in Nat
  BY RowSum
<1> QED
  BY <1>1, <1>3, <1>4, <1>6, <1>7, SumIsOnSet

\* The sum of one row.
LEMMA SumOne ==
  ASSUME NEW r, r.amt \in Nat
  PROVE  Sum({r}) = r.amt
<1>1. IsFiniteSet({}) /\ {} \cup {r} = {r}
  BY FS_EmptySet
<1>2. Sum({} \cup {r}) = r.amt + Sum({})
  BY <1>1, SumMore
<1> QED
  BY <1>1, <1>2, SumNone

\* What an open call has to do with an invoice that is not there, or that it is not about.
LEMMA Existing ==
  ASSUME InvoicesInv, NEW u \in Busy
  PROVE  /\ tx[u].call.kind \in Edits \cup {"pay"} /\ tx[u].pc # "run" => number[Own(tx[u])] # 0
         /\ tx[u].call.kind = "status" /\ tx[u].pc = "write" => number[Own(tx[u])] # 0
         /\ tx[u].call.kind = "status" => \A i \in DOMAIN tx[u].w.status : number[i] # 0
<1>1. u \in Txns /\ WorkOK(u, tx[u], number, next)
  BY TxnFacts DEF Busy
<1>2. tx[u].call.kind \in Edits => EditOK(u, tx[u], number)
  BY <1>1 DEF WorkOK
<1>3. tx[u].call.kind = "pay" => PayOK(u, tx[u], number)
  BY <1>1 DEF WorkOK
<1>4. tx[u].call.kind = "status" => StatusOK(u, tx[u], number)
  BY <1>1 DEF WorkOK
<1>5. tx[u].call.kind = "status" => \A i \in DOMAIN tx[u].w.status : number[i] # 0
  BY <1>4, Zenon DEF StatusOK
<1> QED
  BY <1>2, <1>3, <1>4, <1>5 DEF EditOK, PayOK, StatusOK

\* Calls of another kind, about another invoice or of one that does not exist rely on nothing.
LEMMA Vacuous ==
  ASSUME InvoicesInv, NEW u \in Busy, NEW i
  PROVE  /\ tx[u].call.kind \notin Edits \/ ~About(tx[u], i) \/ number[i] = 0
            => \A li : SumsUp(i, tx[u], li)
         /\ tx[u].call.kind \notin Moves \/ ~About(tx[u], i) \/ number[i] = 0
            => \A s : Seen(i, tx[u], s)
         /\ tx[u].call.kind # "pay" \/ ~About(tx[u], i) \/ number[i] = 0
            => \A to, pa : Covers(u, i, tx[u], to, pa)
<1>1. About(tx[u], Own(tx[u]))
  BY OwnAbout
<1>2. tx[u].call.kind = "status" => \A j \in DOMAIN tx[u].w.status : About(tx[u], j) /\ number[j] # 0
  BY MovedAbout, Existing
<1>3. /\ tx[u].call.kind \in Edits \cup {"pay"} /\ tx[u].pc # "run" => number[Own(tx[u])] # 0
      /\ tx[u].call.kind = "status" /\ tx[u].pc = "write" => number[Own(tx[u])] # 0
  BY Existing
<1>4. tx[u].call.kind \notin Edits \/ ~About(tx[u], i) \/ number[i] = 0 => \A li : SumsUp(i, tx[u], li)
  BY <1>1, <1>3 DEF SumsUp
<1>5. tx[u].call.kind \notin Moves \/ ~About(tx[u], i) \/ number[i] = 0 => \A s : Seen(i, tx[u], s)
  BY <1>1, <1>2, <1>3 DEF Seen, Moves
<1>6. tx[u].call.kind # "pay" \/ ~About(tx[u], i) \/ number[i] = 0 => \A to, pa : Covers(u, i, tx[u], to, pa)
  BY <1>1, <1>3 DEF Covers
<1> QED
  BY <1>4, <1>5, <1>6

\* What a commit leaves of the tables as it was.
SameLines(i) == total'[i] = total[i] /\ \A A, D : Of((lines' \ D) \cup A, i) = Of((lines \ D) \cup A, i)
SameMoney(i) == Of(payments', i) = Of(payments, i) /\ Of(entries', i) = Of(entries, i)

\* What it writes, by its kind.
Kinds(t, x, w, i) ==
    /\ x.call.kind = "create" =>
          /\ i = Own(x) => /\ number[i] = 0 /\ total'[i] = x.call.amt
                           /\ lines' = lines \cup {MyRow(t, x)} /\ x.call.amt \in Nat
          /\ i # Own(x) => SameLines(i) /\ status'[i] = status[i]
          /\ SameMoney(i)
    /\ x.call.kind \in Edits =>
          /\ i = Own(x) => total'[i] = x.sum /\ lines' = (lines \ w.del) \cup w.add
          /\ i # Own(x) => SameLines(i)
          /\ status'[i] = status[i] /\ SameMoney(i)
    /\ x.call.kind = "status" =>
          /\ status'[i] = IF i \in DOMAIN w.status THEN x.call.to ELSE status[i]
          /\ SameLines(i) /\ SameMoney(i)
    /\ x.call.kind = "pay" =>
          /\ SameLines(i)
          /\ i # Own(x) => SameMoney(i) /\ status'[i] = status[i]
          /\ i = Own(x) => /\ payments' = payments \cup {MyRow(t, x)} /\ MyRow(t, x) \in Rows({t}, Nat1)
                           /\ MyRow(t, x).inv = i
                           /\ \/ w.entry = {} /\ entries' = entries /\ status'[i] = status[i]
                              \/ /\ entries' = entries \cup w.entry /\ w.entry = {Row(t, i, x.seen)}
                                 /\ status'[i] = "paid" /\ x.seen \in Nat1

\* Tables that stay the same leave the lines and the money of i alone.
LEMMA SameIs ==
  ASSUME NEW i
  PROVE  /\ total'[i] = total[i] /\ lines' = lines => SameLines(i)
         /\ payments' = payments /\ entries' = entries => SameMoney(i)
BY DEF SameLines, SameMoney

\* Edits of the lines of another invoice leave those of i alone.
LEMMA OtherLines ==
  ASSUME NEW i, NEW A, NEW D, lines' = (lines \ D) \cup A, \A row \in A \cup D : row.inv # i,
         total'[i] = total[i]
  PROVE  SameLines(i)
<1> SUFFICES ASSUME NEW B, NEW E PROVE Of((lines' \ E) \cup B, i) = Of((lines \ E) \cup B, i)
  BY DEF SameLines
<1> QED
  BY DEF Of

\* What a commit does to the invoice i, by the kind of the call.
LEMMA CommitKinds ==
  ASSUME InvoicesInv, NEW t \in Txns, tx[t].pc = "commit", NEW w, w = tx[t].w, Writes(tx[t], w), NEW i \in Ids
  PROVE  Kinds(t, tx[t], w, i)
<1> DEFINE x == tx[t]
<1>1. /\ x.pc \in Working /\ x.call \in Calls[t] /\ Own(x) \in Ids /\ WorkOK(t, x, number, next)
  BY TxnFacts, OwnIn DEF Working, WorkOK
<1>2. x.call.kind # "status" => x.call.amt \in Nat
  BY <1>1, CallFacts
<1>3. status \in [Ids -> Statuses] /\ total \in [Ids -> Nat]
  BY DEF InvoicesInv, TablesOK
<1>4. /\ status'[i] = (IF i \in DOMAIN w.status THEN w.status[i] ELSE status[i])
      /\ total'[i] = (IF i \in DOMAIN w.total THEN w.total[i] ELSE total[i])
  BY <1>3 DEF Writes, Over
<1>5. /\ lines' = (lines \ w.del) \cup w.add /\ payments' = payments \cup w.pay
      /\ entries' = entries \cup w.entry
  BY DEF Writes
<1>6. DOMAIN NoneOf = {}
  BY DEF NoneOf
<1>7. ASSUME x.call.kind = "create"
      PROVE  /\ i = Own(x) => /\ number[i] = 0 /\ total'[i] = x.call.amt
                              /\ lines' = lines \cup {MyRow(t, x)} /\ x.call.amt \in Nat
             /\ i # Own(x) => SameLines(i) /\ status'[i] = status[i]
             /\ SameMoney(i)
  <2>1. CreateOK(t, x, number, next)
    BY <1>1, <1>7 DEF WorkOK
  <2>2. w = [Nothing EXCEPT !.number = next, !.status = Just(Own(x), "draft"),
                            !.total = Just(Own(x), x.call.amt), !.add = {MyRow(t, x)}]
    BY <2>1 DEF CreateOK
  <2>3. /\ w.status = Just(Own(x), "draft") /\ w.total = Just(Own(x), x.call.amt)
        /\ w.add = {MyRow(t, x)} /\ w.del = {} /\ w.pay = {} /\ w.entry = {}
    BY <2>2 DEF Nothing
  <2>4. DOMAIN w.status = {Own(x)} /\ DOMAIN w.total = {Own(x)} /\ w.total[Own(x)] = x.call.amt
    BY <2>3 DEF Just
  <2>5. lines' = lines \cup {MyRow(t, x)} /\ lines' = (lines \ {}) \cup {MyRow(t, x)}
    BY <1>5, <2>3
  <2>6. MyRow(t, x).inv = Own(x)
    BY DEF MyRow, Row
  <2>7. i # Own(x) => SameLines(i)
    <3> SUFFICES ASSUME i # Own(x) PROVE SameLines(i)
      OBVIOUS
    <3> PICK A, D : A = {MyRow(t, x)} /\ D = {}
      OBVIOUS
    <3>1. lines' = (lines \ D) \cup A /\ (\A row \in A \cup D : row.inv # i) /\ total'[i] = total[i]
      BY <1>4, <2>4, <2>5, <2>6
    <3> QED
      BY <3>1, OtherLines, ZenonT(60)
  <2>8. SameMoney(i)
    BY <1>5, <2>3, SameIs
  <2>9. number[Own(x)] = 0
    BY <2>1 DEF CreateOK
  <2> QED
    BY <1>2, <1>4, <1>7, <2>4, <2>5, <2>7, <2>8, <2>9
<1>8. ASSUME x.call.kind \in Edits
      PROVE  /\ i = Own(x) => total'[i] = x.sum /\ lines' = (lines \ w.del) \cup w.add
             /\ i # Own(x) => SameLines(i)
             /\ status'[i] = status[i] /\ SameMoney(i)
  <2>1. EditOK(t, x, number)
    BY <1>1, <1>8 DEF WorkOK
  <2>2. Edited(w, Just(Own(x), x.sum), w.add, w.del)
    BY <2>1 DEF EditOK, Edited
  <2>3. w.status = NoneOf /\ w.total = Just(Own(x), x.sum) /\ w.pay = {} /\ w.entry = {}
    BY <2>2 DEF Edited, Nothing
  <2>4. DOMAIN w.total = {Own(x)} /\ w.total[Own(x)] = x.sum
    BY <2>3 DEF Just
  <2>5. \A row \in w.add \cup w.del : row.inv = Own(x)
    BY <2>1 DEF EditOK
  <2>6. i # Own(x) => SameLines(i)
    <3> SUFFICES ASSUME i # Own(x) PROVE SameLines(i)
      OBVIOUS
    <3> PICK A, D : A = w.add /\ D = w.del
      OBVIOUS
    <3>1. lines' = (lines \ D) \cup A
      BY <1>5
    <3>2. \A row \in A \cup D : row.inv # i
      BY <2>5
    <3>3. total'[i] = total[i]
      BY <1>4, <2>4
    <3> QED
      BY <3>1, <3>2, <3>3, OtherLines, ZenonT(60)
  <2>7. SameMoney(i)
    BY <1>5, <2>3, SameIs
  <2> QED
    BY <1>4, <1>5, <1>6, <2>3, <2>4, <2>6, <2>7
<1>9. ASSUME x.call.kind = "status"
      PROVE  /\ status'[i] = IF i \in DOMAIN w.status THEN x.call.to ELSE status[i]
             /\ SameLines(i) /\ SameMoney(i)
  <2>1. StatusOK(t, x, number)
    BY <1>1, <1>9 DEF WorkOK
  <2>2. Moved(w, w.status, w.audit)
    BY <2>1 DEF StatusOK, Moved
  <2>3. w.total = NoneOf /\ w.add = {} /\ w.del = {} /\ w.pay = {} /\ w.entry = {}
    BY <2>2 DEF Moved, Nothing
  <2>4. \A j \in DOMAIN w.status : w.status[j] = x.call.to
    BY <2>1 DEF StatusOK
  <2>5. lines' = lines /\ payments' = payments /\ entries' = entries
    BY <1>5, <2>3
  <2> QED
    BY <1>4, <1>6, <2>3, <2>4, <2>5, SameIs
<1>10. ASSUME x.call.kind = "pay"
       PROVE  /\ SameLines(i)
              /\ i # Own(x) => SameMoney(i) /\ status'[i] = status[i]
              /\ i = Own(x) => /\ payments' = payments \cup {MyRow(t, x)} /\ MyRow(t, x) \in Rows({t}, Nat1)
                               /\ MyRow(t, x).inv = i
                               /\ \/ w.entry = {} /\ entries' = entries /\ status'[i] = status[i]
                                  \/ /\ entries' = entries \cup w.entry /\ w.entry = {Row(t, i, x.seen)}
                                     /\ status'[i] = "paid" /\ x.seen \in Nat1
  <2>1. PayOK(t, x, number) /\ x.call.amt \in Nat1
    BY <1>1, <1>10, PayFacts
  <2>2. MyRow(t, x) \in Rows({t}, Nat1) /\ MyRow(t, x).inv = Own(x)
    BY <1>1, <2>1 DEF Rows, Row, MyRow
  <2>3. CASE w = Received(t, x)
    <3>1. /\ w.status = NoneOf /\ w.total = NoneOf /\ w.add = {} /\ w.del = {}
          /\ w.pay = {MyRow(t, x)} /\ w.entry = {}
      BY <2>3, ReceivedIs
    <3>2. lines' = lines /\ total'[i] = total[i] /\ entries' = entries /\ payments' = payments \cup {MyRow(t, x)}
          /\ status'[i] = status[i]
      BY <1>4, <1>5, <1>6, <3>1
    <3>3. i # Own(x) => SameMoney(i)
      BY <2>2, <3>2 DEF SameMoney, Of
    <3> QED
      BY <2>2, <3>1, <3>2, <3>3, SameIs
  <2>4. CASE w = Closing(t, x) /\ x.seen > 0
    <3>1. /\ w.status = Just(Own(x), "paid") /\ w.total = NoneOf /\ w.add = {} /\ w.del = {}
          /\ w.pay = {MyRow(t, x)} /\ w.entry = {Row(t, Own(x), x.seen)}
      BY <2>4, ClosingIs
    <3>2. DOMAIN w.status = {Own(x)} /\ w.status[Own(x)] = "paid"
      BY <3>1 DEF Just
    <3>3. x.seen \in Nat1
      BY <2>1, <2>4 DEF PayOK, Nat1
    <3>4. lines' = lines /\ total'[i] = total[i] /\ entries' = entries \cup w.entry
          /\ payments' = payments \cup {MyRow(t, x)}
          /\ status'[i] = IF i = Own(x) THEN "paid" ELSE status[i]
      BY <1>4, <1>5, <1>6, <3>1, <3>2
    <3>5. Row(t, Own(x), x.seen).inv = Own(x)
      BY DEF Row
    <3>6. i # Own(x) => SameMoney(i)
      BY <2>2, <3>1, <3>4, <3>5 DEF SameMoney, Of
    <3> QED
      BY <2>2, <3>1, <3>3, <3>4, <3>6, SameIs
  <2> QED
    BY <2>1, <2>3, <2>4 DEF PayOK
<1> QED
  BY <1>7, <1>8, <1>9, <1>10 DEF Kinds

\* A call that is about to commit, and the kinds there are.
LEMMA Committing ==
  ASSUME InvoicesInv, NEW t \in Txns, tx[t].pc = "commit"
  PROVE  /\ t \in Busy /\ Own(tx[t]) \in Ids /\ About(tx[t], Own(tx[t]))
         /\ tx[t].call.kind \in {"create", "status", "pay"} \cup Edits
         /\ WorkOK(t, tx[t], number, next)
<1>1. t \in Busy
  BY DEF Busy, Working
<1>2. Own(tx[t]) \in Ids /\ tx[t].call \in Calls[t] /\ WorkOK(t, tx[t], number, next)
  BY OwnIn, TxnFacts DEF Working
<1> QED
  BY <1>1, <1>2, OwnAbout, CallFacts DEF Edits

\* Totals after a commit.
LEMMA CommitSums ==
  ASSUME InvoicesInv, MetOK, NEW t \in Txns, tx[t].pc = "commit", NEW w, w = tx[t].w,
         NEW i \in Ids, Apart(Edits, i), Kinds(t, tx[t], w, i),
         total[i] = Sum(Of(lines, i)) /\ \A u \in Busy : SumsUp(i, tx[u], lines)
  PROVE  total'[i] = Sum(Of(lines', i)) /\ \A u \in Busy \ {t} : SumsUp(i, tx[u], lines')
<1> DEFINE x == tx[t]
<1>1. /\ t \in Busy /\ Own(x) \in Ids /\ About(x, Own(x)) /\ WorkOK(t, x, number, next)
      /\ x.call.kind \in {"create", "status", "pay"} \cup Edits
  BY Committing
<1>2. CASE SameLines(i)
  <2>1. Of((lines' \ {}) \cup {}, i) = Of((lines \ {}) \cup {}, i)
    BY <1>2 DEF SameLines
  <2>2. Of(lines', i) = Of(lines, i)
    BY <2>1
  <2>3. \A u \in Busy : SumsUp(i, tx[u], lines')
    BY <1>2 DEF SumsUp, SameLines
  <2> QED
    BY <1>2, <2>2, <2>3 DEF SameLines
<1>3. CASE x.call.kind = "create" /\ i = Own(x)
  <2>1. /\ number[i] = 0 /\ total'[i] = x.call.amt
        /\ lines' = lines \cup {MyRow(t, x)} /\ x.call.amt \in Nat
    BY <1>3 DEF Kinds
  <2>2. Of(lines, i) = {}
    BY <2>1 DEF InvoicesInv, TablesOK, Of
  <2>3. MyRow(t, x).inv = i /\ MyRow(t, x).amt = x.call.amt
    BY <1>3 DEF MyRow, Row
  <2>4. Of(lines', i) = {MyRow(t, x)}
    BY <2>1, <2>2, <2>3 DEF Of
  <2>5. total'[i] = Sum(Of(lines', i))
    BY <2>1, <2>3, <2>4, SumOne
  <2>6. \A u \in Busy : SumsUp(i, tx[u], lines')
    BY <2>1, Vacuous
  <2> QED
    BY <2>5, <2>6
<1>4. CASE x.call.kind \in Edits /\ i = Own(x)
  <2>1. total'[i] = x.sum /\ lines' = (lines \ w.del) \cup w.add
    BY <1>4 DEF Kinds
  <2>2. SumsUp(i, x, lines)
    BY <1>1
  <2>3. x.sum = Sum(Of((lines \ w.del) \cup w.add, i))
    BY <1>4, <2>2 DEF SumsUp
  <2>4. ASSUME NEW u \in Busy \ {t} PROVE SumsUp(i, tx[u], lines')
    <3>1. tx[u].call.kind \notin Edits \/ ~About(tx[u], i)
      BY <1>1, <1>4, Alone
    <3> QED
      BY <3>1, Vacuous
  <2> QED
    BY <2>1, <2>3, <2>4
<1> QED
  BY <1>1, <1>2, <1>3, <1>4 DEF Kinds

\* The journal after a commit.
LEMMA CommitSeen ==
  ASSUME InvoicesInv, MetOK, NEW t \in Txns, tx[t].pc = "commit", NEW w, w = tx[t].w,
         NEW i \in Ids, Apart(Moves, i), Kinds(t, tx[t], w, i),
         Of(entries, i) # {} => status[i] = "paid",
         \A e, f \in Of(entries, i) : e = f,
         \A u \in Busy : Seen(i, tx[u], status[i])
  PROVE  /\ Of(entries', i) # {} => status'[i] = "paid"
         /\ \A e, f \in Of(entries', i) : e = f
         /\ \A u \in Busy \ {t} : Seen(i, tx[u], status'[i])
<1> DEFINE x == tx[t]
<1>1. /\ t \in Busy /\ Own(x) \in Ids /\ About(x, Own(x)) /\ WorkOK(t, x, number, next)
      /\ x.call.kind \in {"create", "status", "pay"} \cup Edits /\ Seen(i, x, status[i])
  BY Committing
<1>2. CASE SameMoney(i) /\ status'[i] = status[i]
  BY <1>2 DEF SameMoney
<1>3. ASSUME x.call.kind \in Moves, About(x, i), NEW u \in Busy \ {t}
      PROVE  Seen(i, tx[u], status'[i])
  <2>1. tx[u].call.kind \notin Moves \/ ~About(tx[u], i)
    BY <1>1, <1>3, Alone
  <2> QED
    BY <2>1, Vacuous
<1>4. CASE x.call.kind = "create" /\ i = Own(x)
  <2>1. number[i] = 0 /\ SameMoney(i)
    BY <1>4 DEF Kinds
  <2>2. Of(entries, i) = {}
    BY <2>1 DEF InvoicesInv, TablesOK, Of
  <2>3. \A u \in Busy : Seen(i, tx[u], status'[i])
    BY <2>1, Vacuous
  <2> QED
    BY <2>1, <2>2, <2>3 DEF SameMoney
<1>5. CASE x.call.kind = "status" /\ i \in DOMAIN w.status
  <2>1. SameMoney(i) /\ status'[i] = x.call.to /\ About(x, i) /\ x.call.kind \in Moves
    BY <1>1, <1>5, MovedAbout DEF Kinds, Moves
  <2>2. x.call.to \in allowedStatusTransitions[status[i]]
    BY <1>1, <1>5 DEF Seen
  <2>3. Of(entries, i) = {}
    BY <2>2, Transitions
  <2> QED
    BY <1>3, <2>1, <2>3 DEF SameMoney
<1>6. CASE x.call.kind = "status" /\ i \notin DOMAIN w.status
  BY <1>2, <1>6 DEF Kinds
<1>7. CASE x.call.kind = "pay" /\ i = Own(x)
  <2>1. About(x, i) /\ x.call.kind \in Moves
    BY <1>1, <1>7 DEF Moves
  <2>2. CASE w.entry = {} /\ entries' = entries /\ status'[i] = status[i]
    BY <1>3, <2>1, <2>2
  <2>3. CASE entries' = entries \cup w.entry /\ w.entry = {Row(t, i, x.seen)} /\ status'[i] = "paid"
    <3>1. status[i] # "paid"
      BY <1>1, <1>7, <2>3 DEF Seen
    <3>2. Of(entries, i) = {}
      BY <3>1
    <3>3. Of(entries', i) \subseteq {Row(t, i, x.seen)}
      BY <2>3, <3>2 DEF Of
    <3> QED
      BY <1>3, <2>1, <2>3, <3>3
  <2> QED
    BY <1>7, <2>2, <2>3 DEF Kinds
<1> QED
  BY <1>1, <1>2, <1>4, <1>5, <1>6, <1>7 DEF Kinds

\* The payments of an invoice after one more.
Grows(t, i, r) == r \in Rows({t}, Nat1) /\ r.inv = i /\ payments' = payments \cup {r}

\* A payment that commits adds its amount to what was received.
LEMMA PaymentAdds ==
  ASSUME InvoicesInv, NEW t \in Txns, tx[t].pc = "commit", NEW i \in Ids, NEW r, Grows(t, i, r)
  PROVE  /\ Of(payments', i) = Of(payments, i) \cup {r} /\ r \notin payments
         /\ Sum(Of(payments, i)) \in Nat /\ Sum(Of(payments', i)) \in Nat
         /\ Sum(Of(payments, i)) <= Sum(Of(payments', i))
<1>1. payments \subseteq Rows(Txns, Nat1) /\ IsFiniteSet(payments) /\ \A p \in payments : p.id # t
  BY DEF InvoicesInv, TablesOK, TxOK
<1>2. Of(payments', i) = Of(payments, i) \cup {r} /\ r.id = t /\ r.amt \in Nat
  BY DEF Grows, Of, Rows, Nat1
<1>3. r \notin payments
  BY <1>1, <1>2
<1>4. Of(payments, i) \subseteq payments /\ IsFiniteSet(Of(payments, i))
  BY <1>1, OfIn
<1>5. \A row \in Of(payments, i) \cup {r} : row.amt \in Nat
  BY <1>1, <1>2, <1>4 DEF Rows, Nat1
<1>6. /\ Sum(Of(payments, i) \cup {r}) = r.amt + Sum(Of(payments, i)) /\ Sum(Of(payments, i)) \in Nat
  BY <1>3, <1>4, <1>5, SumMore
<1>7. Sum(Of(payments', i)) = r.amt + Sum(Of(payments, i))
  BY <1>2, <1>6
<1>8. \A a, b \in Nat : a + b \in Nat /\ b <= a + b
  OBVIOUS
<1>9. Sum(Of(payments', i)) \in Nat /\ Sum(Of(payments, i)) <= Sum(Of(payments', i))
  BY <1>2, <1>6, <1>7, <1>8
<1> QED
  BY <1>2, <1>3, <1>6, <1>9

\* What was received after a commit.
LEMMA CommitCovers ==
  ASSUME InvoicesInv, MetOK, NEW t \in Txns, tx[t].pc = "commit", NEW w, w = tx[t].w,
         NEW i \in Ids, Apart(Edits \cup Moves, i), Kinds(t, tx[t], w, i),
         Of(entries, i) # {} => status[i] = "paid",
         Seen(i, tx[t], status[i]),
         Sum(Of(entries, i)) <= Sum(Of(payments, i)),
         \A u \in Busy : Covers(u, i, tx[u], total[i], payments)
  PROVE  /\ Sum(Of(entries', i)) <= Sum(Of(payments', i))
         /\ \A u \in Busy \ {t} : Covers(u, i, tx[u], total'[i], payments')
<1> DEFINE x == tx[t]
<1>1. /\ t \in Busy /\ Own(x) \in Ids /\ About(x, Own(x)) /\ WorkOK(t, x, number, next)
      /\ x.call.kind \in {"create", "status", "pay"} \cup Edits /\ Covers(t, i, x, total[i], payments)
  BY Committing
<1>2. CASE SameMoney(i) /\ total'[i] = total[i]
  <2>1. \A u \in Busy : Covers(u, i, tx[u], total'[i], payments')
    BY <1>2 DEF Covers, SameMoney
  <2> QED
    BY <1>2, <2>1 DEF SameMoney
<1>3. ASSUME x.call.kind \in Edits \cup Moves, About(x, i), NEW u \in Busy \ {t}
      PROVE  Covers(u, i, tx[u], total'[i], payments')
  <2>1. tx[u].call.kind \notin Edits \cup Moves \/ ~About(tx[u], i)
    BY <1>1, <1>3, Alone
  <2> QED
    BY <2>1, Vacuous DEF Moves
<1>4. CASE x.call.kind = "create" /\ i = Own(x)
  <2>1. number[i] = 0 /\ SameMoney(i)
    BY <1>4 DEF Kinds
  <2>2. \A u \in Busy : Covers(u, i, tx[u], total'[i], payments')
    BY <2>1, Vacuous
  <2> QED
    BY <2>1, <2>2 DEF SameMoney
<1>5. CASE x.call.kind \in Edits /\ i = Own(x)
  <2>1. SameMoney(i) /\ About(x, i)
    BY <1>1, <1>5 DEF Kinds
  <2> QED
    BY <1>3, <1>5, <2>1 DEF SameMoney
<1>6. CASE x.call.kind = "pay" /\ i = Own(x)
  <2>1. /\ payments' = payments \cup {MyRow(t, x)} /\ MyRow(t, x) \in Rows({t}, Nat1) /\ MyRow(t, x).inv = i
        /\ \/ w.entry = {} /\ entries' = entries
           \/ /\ entries' = entries \cup w.entry /\ w.entry = {Row(t, i, x.seen)} /\ x.seen \in Nat1
    BY <1>6 DEF Kinds
  <2>2. /\ Of(payments', i) = Of(payments, i) \cup {MyRow(t, x)}
        /\ Sum(Of(payments, i)) \in Nat /\ Sum(Of(payments', i)) \in Nat
        /\ Sum(Of(payments, i)) <= Sum(Of(payments', i))
    <3> PICK r : r = MyRow(t, x)
      OBVIOUS
    <3>1. Grows(t, i, r)
      BY <2>1 DEF Grows
    <3>2. /\ Of(payments', i) = Of(payments, i) \cup {r}
          /\ Sum(Of(payments, i)) \in Nat /\ Sum(Of(payments', i)) \in Nat
          /\ Sum(Of(payments, i)) <= Sum(Of(payments', i))
      BY <3>1, PaymentAdds
    <3> QED
      BY <3>2
  <2>3. Sum(Of(entries, i)) \in Nat
    <3>1. entries \subseteq Rows(Txns, Nat1) /\ IsFiniteSet(entries)
      BY DEF InvoicesInv, TablesOK
    <3>2. IsFiniteSet(Of(entries, i)) /\ \A row \in Of(entries, i) : row.amt \in Nat
      BY <3>1, OfIn DEF Rows, Nat1
    <3> QED
      BY <3>2, RowSum
  <2>4. Sum(Of(entries', i)) <= Sum(Of(payments', i))
    <3>1. CASE entries' = entries
      BY <2>2, <2>3, <3>1
    <3>2. CASE entries' = entries \cup w.entry /\ w.entry = {Row(t, i, x.seen)} /\ x.seen \in Nat1
      <4>1. Of(entries, i) = {}
        BY <1>6, <3>2 DEF Seen
      <4>2. Row(t, i, x.seen).inv = i /\ Row(t, i, x.seen).amt = x.seen /\ x.seen \in Nat
        BY <3>2 DEF Row, Nat1
      <4>3. Of(entries', i) = {Row(t, i, x.seen)}
        BY <3>2, <4>1, <4>2 DEF Of
      <4>4. Sum(Of(entries', i)) = x.seen
        BY <4>2, <4>3, SumOne
      <4>5. x.seen = total[i] /\ Sum(Of(payments, i) \cup {MyRow(t, x)}) >= total[i]
        BY <1>1, <1>6, <3>2 DEF Covers
      <4> QED
        BY <2>2, <4>4, <4>5
    <3> QED
      BY <2>1, <3>1, <3>2
  <2>5. About(x, i) /\ x.call.kind \in Edits \cup Moves
    BY <1>1, <1>6 DEF Moves
  <2> QED
    BY <1>3, <2>4, <2>5
<1> QED
  BY <1>1, <1>2, <1>4, <1>5, <1>6 DEF Kinds, SameLines

\* Fewer kinds are apart when more are.
LEMMA ApartFewer ==
  ASSUME NEW i, Apart(Edits \cup Moves, i)
  PROVE  Apart(Edits, i) /\ Apart(Moves, i)
BY DEF Apart

\* Commit keeps QuietInv.
LEMMA CommitQuiet ==
  ASSUME InvoicesInv, QuietInv, NEW t \in Txns, Commit(t)
  PROVE  QuietInv'
<1> DEFINE x == tx[t]
<1>0. PICK w : w = x.w
  OBVIOUS
<1>1. x.pc = "commit" /\ tx = [u \in Txns |-> tx[u]] /\ met' = met /\ MetOK
  BY DEF Commit, InvoicesInv, QuietInv
<1>2. Writes(x, w)
  BY <1>0, CommitWrites
<1>3. PICK p \in {"notify", "done"} : End(t, p)
  BY DEF Commit
<1>4. PICK y : Ends(y, p, tx[t].call)
  BY DEF Ends
<1>5. tx' = [tx EXCEPT ![t] = y]
  BY <1>3, <1>4 DEF End, Ends
<1>6. tx'[t] = y /\ Steps(t, tx, tx')
  BY <1>1, <1>5 DEF Steps
<1>7. y.pc = p /\ y.call = x.call
  BY <1>4, CallEnds
<1>8. tx'[t].pc \notin Working /\ tx'[t].pc # "idle" /\ t \in Open /\ x.pc # "idle"
  BY <1>1, <1>3, <1>6, <1>7 DEF Working, Open, Ended
<1>9. Remembers /\ MetOK'
  BY <1>1, <1>6, <1>7, <1>8, ProceedsRemembers
<1>10. \A u \in Txns : u # t => tx'[u] = tx[u]
  BY <1>6 DEF Steps
<1>11. \A u \in Busy' : u \in Busy \ {t} /\ tx'[u] = tx[u]
  BY <1>8, <1>10 DEF Busy
<1>12. \A i \in Ids : Kinds(t, x, w, i)
  BY <1>0, <1>1, <1>2, CommitKinds
<1>13. t \in Busy
  BY <1>1, Committing
<1>14. ASSUME NEW i \in Ids, Apart(Edits, i)'
       PROVE  total'[i] = Sum(Of(lines', i)) /\ \A u \in Busy' : SumsUp(i, tx'[u], lines')
  <2>1. Apart(Edits, i)
    BY <1>1, <1>9, <1>14, ApartBefore
  <2>2. total[i] = Sum(Of(lines, i)) /\ \A u \in Busy : SumsUp(i, tx[u], lines)
    BY <2>1 DEF QuietInv
  <2>3. total'[i] = Sum(Of(lines', i)) /\ \A u \in Busy \ {t} : SumsUp(i, tx[u], lines')
    BY <1>0, <1>1, <1>12, <2>1, <2>2, CommitSums
  <2> QED
    BY <1>11, <2>3
<1>15. ASSUME NEW i \in Ids, Apart(Moves, i)'
       PROVE  /\ Of(entries', i) # {} => status'[i] = "paid"
              /\ \A e, f \in Of(entries', i) : e = f
              /\ \A u \in Busy' : Seen(i, tx'[u], status'[i])
  <2>1. Apart(Moves, i)
    BY <1>1, <1>9, <1>15, ApartBefore
  <2>2. /\ Of(entries, i) # {} => status[i] = "paid"
        /\ \A e, f \in Of(entries, i) : e = f
        /\ \A u \in Busy : Seen(i, tx[u], status[i])
    BY <2>1 DEF QuietInv
  <2>3. /\ Of(entries', i) # {} => status'[i] = "paid"
        /\ \A e, f \in Of(entries', i) : e = f
        /\ \A u \in Busy \ {t} : Seen(i, tx[u], status'[i])
    BY <1>0, <1>1, <1>12, <2>1, <2>2, CommitSeen
  <2> QED
    BY <1>11, <2>3
<1>16. ASSUME NEW i \in Ids, Apart(Edits \cup Moves, i)'
       PROVE  /\ Sum(Of(entries', i)) <= Sum(Of(payments', i))
              /\ \A u \in Busy' : Covers(u, i, tx'[u], total'[i], payments')
  <2>1. Apart(Edits \cup Moves, i) /\ Apart(Moves, i)
    BY <1>1, <1>9, <1>16, ApartBefore, ApartFewer
  <2>2. /\ Of(entries, i) # {} => status[i] = "paid"
        /\ \A u \in Busy : Seen(i, tx[u], status[i])
        /\ Sum(Of(entries, i)) <= Sum(Of(payments, i))
        /\ \A u \in Busy : Covers(u, i, tx[u], total[i], payments)
    BY <2>1 DEF QuietInv
  <2>3. Seen(i, x, status[i])
    BY <1>13, <2>2
  <2>4. /\ Sum(Of(entries', i)) <= Sum(Of(payments', i))
        /\ \A u \in Busy \ {t} : Covers(u, i, tx[u], total'[i], payments')
    BY <1>0, <1>1, <1>12, <2>1, <2>2, <2>3, CommitCovers
  <2> QED
    BY <1>11, <2>4
<1> QED
  BY <1>9, <1>14, <1>15, <1>16 DEF QuietInv

-------------------------------------------------------------------------------------
(* QuietInv holds in every state. *)

\* QuietInv holds at first: nothing is open and totals are the sums of lines.
LEMMA QuietInit ==
  ASSUME Init
  PROVE  QuietInv
<1>1. PICK has \in SUBSET Ids :
        /\ total = [i \in Ids |-> IF i \in has THEN Opening ELSE 0]
        /\ lines = {Row(i, i, Opening) : i \in has}
  BY DEF Init
<1>2. /\ payments = {} /\ entries = {} /\ met = {} /\ tx = [t \in Txns |-> Idle]
  BY DEF Init
<1>3. Idle.pc = "idle"
  BY DEF Idle
<1>4. Busy = {} /\ Open = {}
  BY <1>2, <1>3 DEF Busy, Open, Working
<1>5. MetOK
  BY <1>2, <1>4 DEF MetOK
<1>6. ASSUME NEW i \in Ids
      PROVE  total[i] = Sum(Of(lines, i))
  <2>1. CASE i \in has
    <3>1. Of(lines, i) = {Row(i, i, Opening)}
      BY <1>1, <2>1 DEF Of, Row
    <3>2. Row(i, i, Opening).amt = Opening /\ Opening \in Nat
      BY BoundsAssumption DEF Row
    <3> QED
      BY <1>1, <2>1, <3>1, <3>2, SumOne
  <2>2. CASE i \notin has
    <3>1. Of(lines, i) = {}
      BY <1>1, <2>2 DEF Of, Row
    <3> QED
      BY <1>1, <2>2, <3>1, SumNone
  <2> QED
    BY <2>1, <2>2
<1>7. \A i \in Ids : Of(entries, i) = {} /\ Of(payments, i) = {}
  BY <1>2 DEF Of
<1>8. \A i \in Ids : Sum(Of(entries, i)) <= Sum(Of(payments, i))
  BY <1>7, SumNone
<1> QED
  BY <1>4, <1>5, <1>6, <1>7, <1>8 DEF QuietInv

\* Every step keeps both invariants.
LEMMA QuietNext ==
  ASSUME InvoicesInv, QuietInv, [Next]_vars
  PROVE  QuietInv'
<1>1. CASE Next
  <2>1. PICK t \in Txns : Begin(t) \/ Step(t) \/ Abort(t)
    BY <1>1 DEF Next
  <2> QED
    BY <2>1, BeginQuiet, InsertInvoiceQuiet, AddLineQuiet, ChangeLineQuiet, RecomputeTotalsQuiet,
       WriteTotalsQuiet, ReadStatusQuiet, WriteStatusQuiet, ReadInvoiceQuiet, InsertPaymentQuiet,
       CloseInvoiceQuiet, CommitQuiet, AbortQuiet DEF Step
<1>2. CASE UNCHANGED vars
  <2>1. /\ status' = status /\ total' = total /\ lines' = lines /\ payments' = payments
        /\ entries' = entries /\ tx' = tx /\ met' = met
    BY <1>2 DEF vars
  <2>2. Busy' = Busy /\ Open' = Open
    BY <2>1 DEF Busy, Open
  <2>3. \A kinds, i : Apart(kinds, i)' <=> Apart(kinds, i)
    BY <2>1 DEF Apart
  <2>4. MetOK'
    BY <2>1, <2>2 DEF QuietInv, MetOK
  <2> QED
    BY <2>1, <2>2, <2>3, <2>4 DEF QuietInv
<1> QED
  BY <1>1, <1>2

\* What the invariant says of the sums.
LEMMA QuietFrom ==
  ASSUME InvoicesInv, QuietInv
  PROVE  QuietInvoicesAddUp
<1>1. TotalsFollowLines
  BY DEF QuietInv, TotalsFollowLines
<1>2. CashIsBacked
  BY DEF QuietInv, CashIsBacked
<1>3. ASSUME NEW i \in Ids, Apart(Moves, i)
      PROVE  Cardinality(Of(entries, i)) <= 1
  <2>1. \A e, f \in Of(entries, i) : e = f
    BY <1>3 DEF QuietInv
  <2>2. CASE Of(entries, i) = {}
    BY <2>2, FS_EmptySet
  <2>3. CASE Of(entries, i) # {}
    <3>1. PICK e : e \in Of(entries, i)
      BY <2>3
    <3>2. Of(entries, i) = {e}
      BY <2>1, <3>1
    <3>3. Cardinality({e}) = 1
      BY FS_Singleton
    <3> QED
      BY <3>2, <3>3
  <2> QED
    BY <2>2, <2>3
<1> QED
  BY <1>1, <1>2, <1>3 DEF QuietInvoicesAddUp, ClosedOnceApart

\* Only a commit changes a table.
LEMMA OnlyCommits ==
  ASSUME [Next]_vars, ~(\E t \in Txns : Commit(t))
  PROVE  UNCHANGED <<status, total, payments>>
<1>1. CASE UNCHANGED vars
  BY <1>1 DEF vars
<1>2. CASE Next
  <2>1. PICK t \in Txns : Begin(t) \/ Step(t) \/ Abort(t)
    BY <1>2 DEF Next
  <2>2. UNCHANGED committed
    BY <2>1 DEF Begin, Step, Abort, InsertInvoice, AddLine, ChangeLine, RecomputeTotals, WriteTotals,
       ReadStatus, WriteStatus, ReadInvoice, InsertPayment, ThenClose, CloseInvoice, Dispatch, BreakDeadlock
  <2> QED
    BY <2>2 DEF committed
<1> QED
  BY <1>1, <1>2

\* A step that changes the status of a quiet invoice takes an allowed transition or closes it.
LEMMA StatusStep ==
  ASSUME InvoicesInv, QuietInv, [Next]_vars, NEW i \in Ids, Apart(Moves, i), Exists(i), status'[i] # status[i]
  PROVE  \/ status'[i] \in allowedStatusTransitions[status[i]]
         \/ status'[i] = "paid" /\ status[i] # "cancelled"
<1>1. PICK t \in Txns : Commit(t)
  BY OnlyCommits
<1> DEFINE x == tx[t]
<1>2. PICK w : w = x.w
  OBVIOUS
<1>3. x.pc = "commit" /\ Kinds(t, x, w, i)
  BY <1>1, <1>2, CommitWrites, CommitKinds DEF Commit
<1>4. t \in Busy /\ x.call.kind \in {"create", "status", "pay"} \cup Edits
  BY <1>3, Committing
<1>5. Seen(i, x, status[i])
  BY <1>4 DEF QuietInv
<1>6. CASE x.call.kind = "status" /\ i \in DOMAIN w.status
  BY <1>2, <1>3, <1>5, <1>6 DEF Kinds, Seen
<1>7. CASE x.call.kind = "pay" /\ i = Own(x)
  BY <1>3, <1>5, <1>7 DEF Kinds, Seen
<1> QED
  BY <1>3, <1>4, <1>6, <1>7 DEF Kinds, Exists

\* A step that brings the payments of a quiet invoice up to its total leaves it paid.
LEMMA CoveringStep ==
  ASSUME InvoicesInv, QuietInv, [Next]_vars, NEW i \in Ids, Apart(Edits \cup Moves, i),
         Of(payments', i) # Of(payments, i), Sum(Of(payments', i)) >= total'[i]
  PROVE  status'[i] = "paid"
<1>1. PICK t \in Txns : Commit(t)
  BY OnlyCommits
<1> DEFINE x == tx[t]
<1>2. PICK w : w = x.w
  OBVIOUS
<1>3. x.pc = "commit" /\ Kinds(t, x, w, i)
  BY <1>1, <1>2, CommitWrites, CommitKinds DEF Commit
<1>4. t \in Busy /\ x.call.kind \in {"create", "status", "pay"} \cup Edits
  BY <1>3, Committing
<1>5. Seen(i, x, status[i]) /\ Covers(t, i, x, total[i], payments)
  BY <1>4, ApartFewer DEF QuietInv
<1>6. x.call.kind = "pay" /\ i = Own(x)
  BY <1>3, <1>4 DEF Kinds, SameMoney
<1>7. /\ payments' = payments \cup {MyRow(t, x)} /\ MyRow(t, x) \in Rows({t}, Nat1) /\ MyRow(t, x).inv = i
      /\ total'[i] = total[i]
      /\ \/ w.entry = {} /\ status'[i] = status[i]
         \/ status'[i] = "paid"
  BY <1>3, <1>6 DEF Kinds, SameLines
<1>8. PICK r : r = MyRow(t, x)
  OBVIOUS
<1>9. Grows(t, i, r)
  BY <1>7, <1>8 DEF Grows
<1>10. Of(payments', i) = Of(payments, i) \cup {r} /\ Sum(Of(payments', i)) \in Nat
  BY <1>3, <1>9, PaymentAdds
<1>11. total[i] \in Nat
  BY DEF InvoicesInv, TablesOK
<1>12. CASE w.entry = {} /\ status'[i] = status[i]
  <2>1. x.was = "paid" \/ Sum(Of(payments, i) \cup {MyRow(t, x)}) < total[i]
    BY <1>2, <1>3, <1>5, <1>6, <1>12 DEF Covers
  <2>5. PICK s : s = Sum(Of(payments, i) \cup {r})
    OBVIOUS
  <2>6. s \in Nat /\ s >= total[i]
    BY <1>7, <1>10, <2>5
  <2>7. ~(s < total[i])
    BY <1>11, <2>6
  <2>2. x.was = "paid"
    BY <1>8, <2>1, <2>5, <2>7
  <2>3. x.was = status[i]
    BY <1>3, <1>5, <1>6 DEF Seen
  <2> QED
    BY <1>12, <2>2, <2>3
<1> QED
  BY <1>7, <1>12

\* Both invariants hold in every state.
THEOREM QuietHolds == Spec => [](InvoicesInv /\ QuietInv)
<1>1. Init => InvoicesInv /\ QuietInv
  BY InvoicesInit, QuietInit
<1>2. InvoicesInv /\ QuietInv /\ [Next]_vars => (InvoicesInv /\ QuietInv)'
  BY InvoicesNext, QuietNext
<1> QED
  BY <1>1, <1>2, PTL DEF Spec

\* An invoice about which no calls overlapped adds up: its total, what was posted of it and what was
\* received for it (recomputeInvoiceTotalsTx, RecordPayment).
THEOREM QuietInvoicesHold == Spec => []QuietInvoicesAddUp
BY QuietHolds, QuietFrom, PTL

\* The status of an invoice whose calls did not overlap moves by the allowed transitions and becomes
\* paid when a payment covers the total (allowedStatusTransitions, RecordPayment).
THEOREM StatusesMove == Spec => StatusFollowsPayments
<1>1. InvoicesInv /\ QuietInv /\ [Next]_vars =>
        [\A i \in Ids : Apart(Moves, i) /\ Exists(i) /\ status'[i] # status[i]
          => \/ status'[i] \in allowedStatusTransitions[status[i]]
             \/ status'[i] = "paid" /\ status[i] # "cancelled"]_vars
  BY StatusStep
<1>2. InvoicesInv /\ QuietInv /\ [Next]_vars => [PaymentsClose]_vars
  BY CoveringStep DEF PaymentsClose
<1>3. Spec => [][Next]_vars
  BY PTL DEF Spec
<1>4. Spec => StatusMachine
  BY <1>1, <1>3, QuietHolds, PTL DEF StatusMachine
<1>5. Spec => CoveringPaymentCloses
  BY <1>2, <1>3, QuietHolds, PTL DEF CoveringPaymentCloses
<1> QED
  BY <1>4, <1>5 DEF StatusFollowsPayments
=====================================================================================
