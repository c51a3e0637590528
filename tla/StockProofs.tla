-------------------------------- MODULE StockProofs --------------------------------
(* Proofs about Stock, for every firm, every set of documents and every number of   *)
(* transactions at once.  StockInv is the inductive invariant: what each open        *)
(* transaction has locked is as it saw it (LocksOK), its log and its todo make up    *)
(* the plan of its call (Plans), the levels it holds are the committed ones plus its *)
(* log (MovesOK), and two transactions share no row (Apart).  A commit then turns    *)
(* what the document says into what its new status says.                            *)
EXTENDS Stock, SequenceTheorems, SumLemmas

\* The operations that lock a document, and the statuses they start from.
From == [CompleteTransfer |-> {"draft"}, CancelTransfer |-> {"draft"}, StartProductionOrder |-> {"planned"},
         CompleteProductionOrder |-> {"in_progress"}, CancelProductionOrder |-> {"planned", "in_progress"},
         CloseCount |-> {"open"}, AdjustCount |-> {"open"}]

Line == [sys : Nat, cnt : Nat \cup {None}, adj : BOOLEAN]
Fresh == {l \in Line : ~l.adj}

\* The adjustments that the call x makes are those of the sequence ms.
Plans(x, ms) ==
    /\ x.op = "CompleteTransfer" => ms = <<[cell |-> Doc[x.doc].from, change |-> -Doc[x.doc].qty],
                                          [cell |-> Doc[x.doc].to, change |-> Doc[x.doc].qty]>>
    /\ x.op = "StartProductionOrder" => ms \in InAnyOrder(Parts(x.doc))
    /\ x.op = "CompleteProductionOrder" => ms = <<[cell |-> Doc[x.doc].out, change |-> x.amt]>> /\ x.amt > 0
    /\ x.op = "AdjustCount" => ms \in InAnyOrder(Adjustments(x.doc, x.rows))
    /\ x.op \in {"CancelTransfer", "CancelProductionOrder", "CloseCount"} => ms = <<>>

\* A transaction by where it is.
ShapeOK(x) ==
    /\ x = [pc |-> x.pc, op |-> x.op, doc |-> x.doc, line |-> x.line, amt |-> x.amt,
             todo |-> x.todo, held |-> x.held, log |-> x.log, rows |-> x.rows]
    /\ x.pc \in {"idle", "run", "list", "lock", "move", "count", "counted"}
    /\ x.pc = "idle" => x = Idle
    /\ x.pc # "idle" => x.op \in DOMAIN To \cup {"RecordCount"} /\ x.doc \in Docs /\ Kind(x.doc) = About(x.op)
    /\ x.pc \in {"count", "counted"} => x.op = "RecordCount"
    /\ x.pc \in {"list", "lock"} => x.op = "AdjustCount"
    /\ x.pc = "move" => x.op \in Locking
    /\ x.pc # "move" => x.held = <<>> /\ x.log = <<>>
    /\ x.pc \in {"list", "lock", "count"} => x.rows = <<>>
    /\ x.pc = "run" /\ x.op # "OpenCount" => x.rows = <<>>
    /\ x.pc = "move" /\ x.op # "AdjustCount" => x.rows = <<>>
    /\ x.pc # "idle" /\ x.op = "RecordCount" => x.line \in DOMAIN Doc[x.doc].cells
    /\ x.amt \in Nat /\ (x.pc # "idle" /\ x.op = "CompleteProductionOrder" => x.amt > 0)

\* What it has seen of its document and of the lines is still so: it keeps them locked.
LocksOK(x) ==
    /\ x.pc = "run" /\ x.op = "OpenCount" => status[x.doc] = "absent"
    /\ x.pc # "idle" /\ x.op # "OpenCount" => status[x.doc] # "absent"
    /\ x.pc \in {"list", "lock", "move"} => status[x.doc] \in From[x.op]
    /\ x.pc = "lock" => x.todo \subseteq DOMAIN lines[x.doc]
    /\ x.pc = "counted" => x.rows = [n \in {x.line} |-> [lines[x.doc][n] EXCEPT !.cnt = x.amt]]
    /\ x.pc = "move" /\ x.op = "AdjustCount" =>
          /\ DOMAIN x.rows \subseteq DOMAIN lines[x.doc]
          /\ \A c \in DOMAIN x.rows : /\ Variance(lines[x.doc][c]) # 0
                                      /\ x.rows[c] = [lines[x.doc][c] EXCEPT !.adj = TRUE]

\* A count being opened has the first of its lines, none of which was adjusted.
SnapshotOK(x) ==
    x.pc = "run" /\ x.op = "OpenCount" => x.rows \in Seq(Fresh) /\ Len(x.rows) <= Len(Doc[x.doc].cells)

\* Its log and what is to do make up its plan; the levels it holds are those of its log.
MovesOK(x) ==
    /\ x.pc = "move" => /\ x.log \in Seq(Movement) /\ x.todo \in Seq(Movement)
                        /\ Plans(x, x.log \o x.todo)
    /\ DOMAIN x.held \subseteq Cells
    /\ \A c \in Cells : /\ Sees(x)[c] \in Nat
                        /\ Sees(x)[c] = level[c] + ChangeOf(x.log, c)

TxOK(x) == ShapeOK(x) /\ LocksOK(x) /\ SnapshotOK(x) /\ MovesOK(x)

\* No row has two holders; nobody else is at a document that is being created.
Apart(x, y) ==
    /\ DOMAIN x.held \cap DOMAIN y.held = {}
    /\ x.pc \in {"list", "lock", "move"} /\ y.pc \in {"list", "lock", "move"} => x.doc # y.doc
    /\ /\ x.op \in {"RecordCount", "AdjustCount"} /\ y.op \in {"RecordCount", "AdjustCount"} /\ x.doc = y.doc
       => DOMAIN x.rows \cap DOMAIN y.rows = {}
    /\ x.pc = "run" /\ x.op = "OpenCount" /\ y.pc # "idle" => x.doc # y.doc

\* The lines of a document, its movements and what it has posted.
DocOK(d) ==
    /\ status[d] \in {"absent"} \cup
         (CASE Kind(d) = "transfer" -> {"draft", "completed", "cancelled"}
            [] Kind(d) = "order"    -> {"planned", "in_progress", "completed", "cancelled"}
            [] Kind(d) = "count"    -> {"open", "completed"})
    /\ DOMAIN lines[d] = IF Kind(d) = "count" /\ status[d] # "absent" THEN DOMAIN Doc[d].cells ELSE {}
    /\ \A n \in DOMAIN lines[d] : lines[d][n] \in Line /\ (status[d] # "completed" => ~lines[d][n].adj)
    /\ Kind(d) = "order" /\ status[d] = "in_progress" => issues[d] = moves[d]

Functional ==
    /\ level \in [Cells -> Nat] /\ books \in [Docs -> Int] /\ status = [d \in Docs |-> status[d]]
    /\ moves \in [Docs -> Seq(Movement)] /\ issues \in [Docs -> Seq(Movement)]
    /\ lines = [d \in Docs |-> lines[d]] /\ tx = [t \in Txns |-> tx[t]]

StockInv ==
    /\ Functional
    /\ \A d \in Docs : DocOK(d)
    /\ \A t \in Txns : TxOK(tx[t])
    /\ \A t, u \in Txns : t # u => Apart(tx[t], tx[u])
    /\ DocumentsTellTheTruth /\ StockIsMovements

\* What a sequence of movements adds to a cell.
LEMMA ChangeTyped ==
  ASSUME NEW ms \in Seq(Movement), NEW c
  PROVE  ChangeOf(ms, c) \in Int
<1> DEFINE f == [n \in DOMAIN ms |-> IF ms[n].cell = c THEN ms[n].change ELSE 0]
<1>1. DOMAIN ms = 1 .. Len(ms) /\ IsFiniteSet(1 .. Len(ms)) /\ Len(ms) \in Nat
  BY FS_Interval
<1>2. \A n \in DOMAIN ms : f[n] \in Int
  <2>1. \A n \in DOMAIN ms : ms[n] \in Movement
    BY <1>1
  <2> QED
    BY <2>1 DEF Movement
<1>3. DOMAIN f = DOMAIN ms /\ ChangeOf(ms, c) = SumFunctionOnSet(f, DOMAIN ms)
  BY DEF ChangeOf, SumFunction
<1> HIDE DEF f
<1> QED
  BY <1>1, <1>2, <1>3, SumType

\* Movements one after the other change a cell by the sum of what each part changes.
LEMMA ChangeConcat ==
  ASSUME NEW ms \in Seq(Movement), NEW log \in Seq(Movement), NEW c
  PROVE  ChangeOf(ms \o log, c) = ChangeOf(ms, c) + ChangeOf(log, c)
<1> DEFINE F(s) == [n \in DOMAIN s |-> IF s[n].cell = c THEN s[n].change ELSE 0]
<1>1. \A s : ChangeOf(s, c) = SumFunctionOnSet(F(s), DOMAIN s)
  BY DEF ChangeOf, SumFunction
<1>2. \A s \in Seq(Movement) : /\ Len(s) \in Nat /\ DOMAIN s = 1 .. Len(s)
                               /\ \A n \in 1 .. Len(s) : F(s)[n] \in Int
  <2> SUFFICES ASSUME NEW s \in Seq(Movement)
               PROVE  /\ Len(s) \in Nat /\ DOMAIN s = 1 .. Len(s)
                      /\ \A n \in 1 .. Len(s) : F(s)[n] \in Int
    OBVIOUS
  <2>1. Len(s) \in Nat /\ DOMAIN s = 1 .. Len(s) /\ \A n \in 1 .. Len(s) : s[n] \in Movement
    OBVIOUS
  <2>2. ASSUME NEW n \in 1 .. Len(s)
        PROVE  F(s)[n] \in Int
    <3>1. s[n].change \in Int
      BY <2>1 DEF Movement
    <3>2. F(s)[n] = IF s[n].cell = c THEN s[n].change ELSE 0
      BY <2>1
    <3> QED
      BY <3>1, <3>2
  <2> QED
    BY <2>1, <2>2
<1>3. /\ ms \o log \in Seq(Movement) /\ Len(ms \o log) = Len(ms) + Len(log)
      /\ \A i \in 1 .. Len(ms) : (ms \o log)[i] = ms[i]
      /\ \A i \in 1 .. Len(log) : (ms \o log)[Len(ms) + i] = log[i]
  OBVIOUS
<1>4. PICK f, g, h : f = F(ms \o log) /\ g = F(ms) /\ h = F(log)
  OBVIOUS
<1>5. /\ \A i \in 1 .. Len(ms) : f[i] = g[i] /\ g[i] \in Int
      /\ \A i \in 1 .. Len(log) : f[Len(ms) + i] = h[i] /\ h[i] \in Int
  <2>1. \A i \in 1 .. Len(ms) : i \in DOMAIN (ms \o log) /\ i \in DOMAIN ms
    BY <1>2, <1>3
  <2>2. \A i \in 1 .. Len(log) : Len(ms) + i \in DOMAIN (ms \o log) /\ i \in DOMAIN log
    BY <1>2, <1>3
  <2> QED
    BY <1>2, <1>3, <1>4, <2>1, <2>2
<1>6. SumFunctionOnSet(f, 1 .. (Len(ms) + Len(log))) = SumFunctionOnSet(g, 1 .. Len(ms)) + SumFunctionOnSet(h, 1 .. Len(log))
  <2>1. PICK n, m : n = Len(ms) /\ m = Len(log)
    OBVIOUS
  <2>2. n \in Nat /\ m \in Nat
    BY <1>2, <2>1
  <2>3. /\ \A i \in 1 .. n : f[i] = g[i] /\ g[i] \in Int
        /\ \A i \in 1 .. m : f[n + i] = h[i] /\ h[i] \in Int
    BY <1>5, <2>1
  <2>4. SumFunctionOnSet(f, 1 .. (n + m)) = SumFunctionOnSet(g, 1 .. n) + SumFunctionOnSet(h, 1 .. m)
    BY <2>2, <2>3, SumConcat
  <2> QED
    BY <2>1, <2>4
<1> HIDE DEF F
<1> QED
  BY <1>1, <1>2, <1>3, <1>4, <1>6

\* No movements change nothing.
LEMMA EmptyChange == DOMAIN <<>> = {} /\ \A c : ChangeOf(<<>>, c) = 0
<1>1. DOMAIN <<>> = {}
  OBVIOUS
<1>2. ASSUME NEW f, DOMAIN f = {}
      PROVE  SumFunction(f) = 0
  BY <1>2, FS_EmptySet, SumRecursion DEF SumFunction
<1>3. ASSUME NEW c
      PROVE  ChangeOf(<<>>, c) = 0
  BY <1>1, <1>2 DEF ChangeOf
<1> QED
  BY <1>1, <1>3

\* One movement more changes its own cell only.
LEMMA ChangeAppend ==
  ASSUME NEW log \in Seq(Movement), NEW m \in Movement, NEW c
  PROVE  /\ ChangeOf(Append(log, m), c) = ChangeOf(log, c) + (IF m.cell = c THEN m.change ELSE 0)
<1> DEFINE F(s) == [n \in DOMAIN s |-> IF s[n].cell = c THEN s[n].change ELSE 0]
<1>1. \A s : ChangeOf(s, c) = SumFunctionOnSet(F(s), DOMAIN s)
  BY DEF ChangeOf, SumFunction
<1>2. ChangeOf(<<>>, c) = 0
  BY EmptyChange
<1>3. ChangeOf(<<m>>, c) = IF m.cell = c THEN m.change ELSE 0
  <2>1. DOMAIN <<m>> = {1} /\ F(<<m>>)[1] = IF m.cell = c THEN m.change ELSE 0
    OBVIOUS
  <2>2. F(<<m>>)[1] \in Int
    BY <2>1 DEF Movement
  <2>3. IsFiniteSet({1})
    BY FS_Singleton
  <2> HIDE DEF F
  <2>4. SumFunctionOnSet(F(<<m>>), {1}) = F(<<m>>)[1]
    BY <2>2, <2>3, SumOnly
  <2> QED
    BY <1>1, <2>1, <2>4
<1>4. Append(log, m) = log \o <<m>> /\ <<m>> \in Seq(Movement)
  BY AppendIsConcat
<1> QED
  <2>1. ChangeOf(log \o <<m>>, c) = ChangeOf(log, c) + ChangeOf(<<m>>, c)
    BY <1>4, ChangeConcat
  <2> QED
    BY <1>2, <1>3, <1>4, <2>1

\* A sequence of the values of f takes the places of f in some order.
LEMMA InOrder ==
  ASSUME NEW f, IsFiniteSet(DOMAIN f), NEW ms \in InAnyOrder(f)
  PROVE  \E N \in Nat : \E p \in Bijection(1 .. N, DOMAIN f) :
            /\ N = Cardinality(DOMAIN f) /\ Len(ms) = N /\ DOMAIN ms = 1 .. N /\ ms = [n \in 1 .. N |-> ms[n]]
            /\ \A n \in 1 .. N : p[n] \in DOMAIN f /\ ms[n] = f[p[n]]
<1>1. PICK N \in Nat : N = Cardinality(DOMAIN f)
  BY FS_CardinalityType
<1>2. PICK p \in Bijection(1 .. N, DOMAIN f) : ms = [n \in 1 .. N |-> f[p[n]]]
  BY <1>1 DEF InAnyOrder
<1>3. \A n \in 1 .. N : p[n] \in DOMAIN f
  BY DEF Bijection, Injection
<1>4. ms \in [1 .. N -> {f[x] : x \in DOMAIN f}]
  BY <1>2, <1>3
<1>5. Len(ms) = N /\ DOMAIN ms = 1 .. N
  BY <1>1, <1>4
<1> QED
  BY <1>1, <1>2, <1>3, <1>4, <1>5

\* Such a sequence of movements moves every cell, and is worth, what f is.
LEMMA InOrderSums ==
  ASSUME NEW f, IsFiniteSet(DOMAIN f), \A x \in DOMAIN f : f[x] \in Movement, NEW ms \in InAnyOrder(f)
  PROVE  ms \in Seq(Movement) /\ Value(ms) = Value(f) /\ \A c : ChangeOf(ms, c) = ChangeOf(f, c)
<1>0. PICK N \in Nat : \E p \in Bijection(1 .. N, DOMAIN f) :
        /\ Len(ms) = N /\ DOMAIN ms = 1 .. N /\ ms = [n \in 1 .. N |-> ms[n]]
        /\ \A n \in 1 .. N : p[n] \in DOMAIN f /\ ms[n] = f[p[n]]
  BY InOrder
<1>1. PICK p \in Bijection(1 .. N, DOMAIN f) :
        /\ Len(ms) = N /\ DOMAIN ms = 1 .. N /\ ms = [n \in 1 .. N |-> ms[n]]
        /\ \A n \in 1 .. N : p[n] \in DOMAIN f /\ ms[n] = f[p[n]]
  BY <1>0
<1>2. \A n \in 1 .. N : ms[n] \in Movement
  BY <1>1
<1>3. ms \in Seq(Movement)
  <2>1. ms \in [1 .. N -> Movement]
    BY <1>1, <1>2
  <2> QED
    BY <2>1
<1>4. PICK S, T : S = 1 .. N /\ T = DOMAIN f /\ IsFiniteSet(S) /\ p \in Bijection(S, T)
  BY FS_Interval
<1>5. ASSUME NEW c
      PROVE  ChangeOf(ms, c) = ChangeOf(f, c)
  <2>1. PICK g, h : /\ g = [n \in S |-> IF ms[n].cell = c THEN ms[n].change ELSE 0]
                    /\ h = [x \in T |-> IF f[x].cell = c THEN f[x].change ELSE 0]
    OBVIOUS
  <2>2. \A n \in S : g[n] = h[p[n]] /\ g[n] \in Int
    BY <1>1, <1>2, <1>4, <2>1 DEF Movement
  <2>3. SumFunctionOnSet(g, S) = SumFunctionOnSet(h, T)
    BY <1>4, <2>2, SumRenamed
  <2> QED
    BY <1>1, <1>4, <2>1, <2>3 DEF ChangeOf, SumFunction
<1>6. Value(ms) = Value(f)
  <2>1. PICK g, h : /\ g = [n \in S |-> ms[n].change * Cost[ms[n].cell]]
                    /\ h = [x \in T |-> f[x].change * Cost[f[x].cell]]
    OBVIOUS
  <2>2. ASSUME NEW n \in S
        PROVE  g[n] = h[p[n]] /\ g[n] \in Int
    <3>1. PICK m \in Movement : m = ms[n] /\ m = f[p[n]] /\ p[n] \in T
      BY <1>1, <1>2, <1>4
    <3>2. g[n] = m.change * Cost[m.cell] /\ h[p[n]] = m.change * Cost[m.cell]
      BY <2>1, <3>1
    <3>3. m.change \in Int /\ Cost[m.cell] \in Int
      BY StockAssumption DEF Movement
    <3> QED
      BY <3>2, <3>3
  <2>3. SumFunctionOnSet(g, S) = SumFunctionOnSet(h, T)
    BY <1>4, <2>2, SumRenamed
  <2> QED
    BY <1>1, <1>4, <2>1, <2>3 DEF Value, SumFunction
<1> QED
  BY <1>3, <1>5, <1>6

\* The cells of such a sequence are the cells of f.
LEMMA InOrderCells ==
  ASSUME NEW f, IsFiniteSet(DOMAIN f), NEW ms \in InAnyOrder(f), NEW g, g = [x \in DOMAIN f |-> f[x].cell]
  PROVE  [n \in DOMAIN ms |-> ms[n].cell] \in InAnyOrder(g)
<1>0. PICK N \in Nat : \E p \in Bijection(1 .. N, DOMAIN f) :
        /\ N = Cardinality(DOMAIN f) /\ DOMAIN ms = 1 .. N
        /\ \A n \in 1 .. N : p[n] \in DOMAIN f /\ ms[n] = f[p[n]]
  BY InOrder
<1>1. PICK p \in Bijection(1 .. N, DOMAIN f) :
        /\ N = Cardinality(DOMAIN f) /\ DOMAIN ms = 1 .. N
        /\ \A n \in 1 .. N : p[n] \in DOMAIN f /\ ms[n] = f[p[n]]
  BY <1>0
<1>2. DOMAIN g = DOMAIN f
  OBVIOUS
<1>3. [n \in DOMAIN ms |-> ms[n].cell] = [n \in 1 .. N |-> g[p[n]]]
  BY <1>1
<1> QED
  BY <1>1, <1>2, <1>3 DEF InAnyOrder

\* Nothing, in any order, is nothing.
LEMMA NothingInOrder ==
  ASSUME NEW f, DOMAIN f = {}, NEW g, g = [n \in {} |-> g[n]]
  PROVE  g \in InAnyOrder(f)
<1>1. PICK p : p = [n \in {} |-> n]
  OBVIOUS
<1>2. p \in Bijection({}, {})
  BY <1>1 DEF Bijection, Injection, Surjection, IsInjective
<1>3. Cardinality(DOMAIN f) = 0 /\ 1 .. 0 = {}
  BY FS_EmptySet
<1>4. g = [n \in {} |-> f[p[n]]]
  OBVIOUS
<1> QED
  BY <1>2, <1>3, <1>4 DEF InAnyOrder

\* What is committed stays as it is.
LEMMA CommittedStill ==
  ASSUME UNCHANGED committed, Functional, \A d \in Docs : DocOK(d), DocumentsTellTheTruth, StockIsMovements,
         tx' = [t \in Txns |-> tx'[t]]
  PROVE  Functional' /\ (\A d \in Docs : DocOK(d))' /\ DocumentsTellTheTruth' /\ StockIsMovements'
<1> USE DEF committed
<1>1. Functional'
  BY DEF Functional
<1>2. \A d \in Docs : DocOK(d)'
  BY DEF DocOK
<1>3. ASSUME NEW d \in Docs
      PROVE  MovesMatchStatus(d)'
  <2>1. MovesMatchStatus(d)
    BY DEF DocumentsTellTheTruth
  <2> QED
    BY <2>1 DEF MovesMatchStatus
<1>4. ASSUME NEW d \in Docs
      PROVE  BooksFollowStock(d)'
  <2>1. BooksFollowStock(d)
    BY DEF DocumentsTellTheTruth
  <2> QED
    BY <2>1 DEF BooksFollowStock
<1>5. StockIsMovements'
  BY DEF StockIsMovements
<1> QED
  BY <1>1, <1>2, <1>3, <1>4, <1>5 DEF DocumentsTellTheTruth

\* A step of one transaction before it commits.
LEMMA TxMoves ==
  ASSUME StockInv, NEW t \in Txns, NEW x, tx' = [tx EXCEPT ![t] = x], UNCHANGED committed, TxOK(x),
         \A u \in Txns \ {t} : Apart(x, tx[u]) /\ Apart(tx[u], x)
  PROVE  StockInv'
<1>1. tx'[t] = x /\ \A u \in Txns \ {t} : tx'[u] = tx[u]
  BY DEF StockInv, Functional
<1>2. tx' = [u \in Txns |-> tx'[u]]
  BY DEF StockInv, Functional
<1>3. ASSUME NEW y, TxOK(y)
      PROVE  TxOK(y)'
  <2>1. ShapeOK(y)' /\ LocksOK(y)' /\ SnapshotOK(y)' 
    BY <1>3 DEF committed, TxOK, ShapeOK, LocksOK, SnapshotOK
  <2>2. MovesOK(y)'
    BY <1>3 DEF committed, TxOK, MovesOK, Sees, Over, Plans
  <2> QED
    BY <2>1, <2>2 DEF TxOK
<1>4. ASSUME NEW u \in Txns
      PROVE  TxOK(tx[u])'
  <2>1. PICK y : y = tx'[u] /\ TxOK(y)
    BY <1>1 DEF StockInv
  <2>2. TxOK(y)'
    BY <1>3, <2>1
  <2> QED
    BY <2>1, <2>2
<1>5. \A u, v \in Txns : u # v => Apart(tx'[u], tx'[v])
  BY <1>1 DEF StockInv
<1>6. Functional' /\ (\A d \in Docs : DocOK(d))' /\ DocumentsTellTheTruth' /\ StockIsMovements'
  BY <1>2, CommittedStill DEF StockInv
<1> QED
  BY <1>4, <1>5, <1>6 DEF StockInv

\* A transaction that is over.
LEMMA IdleOK ==
  ASSUME StockInv
  PROVE  TxOK(Idle) /\ \A y : Apart(Idle, y) /\ (TxOK(y) => Apart(y, Idle))
<1>1. /\ Idle.pc = "idle" /\ Idle.held = <<>> /\ Idle.log = <<>> /\ Idle.rows = <<>> /\ Idle.amt = 0
      /\ Idle = [pc |-> Idle.pc, op |-> Idle.op, doc |-> Idle.doc, line |-> Idle.line, amt |-> Idle.amt,
                 todo |-> Idle.todo, held |-> Idle.held, log |-> Idle.log, rows |-> Idle.rows]
  BY DEF Idle
<1>2. level \in [Cells -> Nat]
  BY DEF StockInv, Functional
<1>3. \A c \in Cells : Sees(Idle)[c] = level[c]
  BY <1>1, <1>2, EmptyChange DEF Sees, Over
<1>4. ShapeOK(Idle) /\ LocksOK(Idle) /\ SnapshotOK(Idle)
  BY <1>1 DEF ShapeOK, LocksOK, SnapshotOK
<1>5. MovesOK(Idle)
  BY <1>1, <1>2, <1>3, EmptyChange DEF MovesOK
<1>6. \A y : Apart(Idle, y) /\ (TxOK(y) => Apart(y, Idle))
  BY <1>1, EmptyChange DEF Apart
<1> QED
  BY <1>4, <1>5, <1>6 DEF TxOK

\* A rollback keeps the invariant: what is committed was never touched.
LEMMA EndKeepsInv ==
  ASSUME StockInv, NEW t \in Txns, End(t), UNCHANGED committed
  PROVE  StockInv'
<1>1. tx' = [tx EXCEPT ![t] = Idle]
  BY DEF End
<1> QED
  BY <1>1, IdleOK, TxMoves DEF StockInv

\* A transaction goes on; x is what it is then.
LEMMA TxGoesOn ==
  ASSUME StockInv, NEW t \in Txns, tx[t].pc # "idle", NEW x, TxOK(x), x.doc = tx[t].doc, x.op = tx[t].op,
         x.pc = "run" => tx[t].pc = "run",
         \A u \in Txns \ {t} : DOMAIN x.held \cap DOMAIN tx[u].held = {},
         \A u \in Txns \ {t} : x.pc \in {"list", "lock", "move"} /\ tx[u].pc \in {"list", "lock", "move"} => x.doc # tx[u].doc,
         \A u \in Txns \ {t} :
             x.op \in {"RecordCount", "AdjustCount"} /\ tx[u].op \in {"RecordCount", "AdjustCount"} /\ x.doc = tx[u].doc
             => DOMAIN x.rows \cap DOMAIN tx[u].rows = {},
         tx' = [tx EXCEPT ![t] = x], UNCHANGED committed
  PROVE  StockInv'
<1>1. ASSUME NEW u \in Txns \ {t}
      PROVE  Apart(x, tx[u]) /\ Apart(tx[u], x)
  <2>1. Apart(tx[t], tx[u]) /\ Apart(tx[u], tx[t])
    BY DEF StockInv
  <2> QED
    BY <2>1 DEF Apart
<1> QED
  BY <1>1, TxMoves

\* A transaction that has locked its document.
LEMMA LocksDocument ==
  ASSUME StockInv, NEW t \in Txns, tx[t].pc = "run", WaitsFor(t) = {},
         NEW op \in Locking, tx[t].op = op, status[tx[t].doc] \in From[op],
         NEW x, TxOK(x), x.doc = tx[t].doc, x.op = op, x.pc \in {"list", "move"}, x.held = <<>>, x.rows = <<>>,
         tx' = [tx EXCEPT ![t] = x], UNCHANGED committed
  PROVE  StockInv'
<1>1. ASSUME NEW u \in Txns \ {t}, tx[u].pc \in {"list", "lock", "move"}
      PROVE  tx[u].doc # x.doc
  <2>1. ~HoldsDoc(u, tx[t].doc)
    BY DEF WaitsFor
  <2>2. tx[u].op \in Locking
    <3>1. ShapeOK(tx[u])
      BY DEF StockInv, TxOK
    <3> QED
      BY <1>1, <3>1 DEF ShapeOK, Locking, To
  <2> QED
    BY <1>1, <2>1, <2>2 DEF HoldsDoc
<1>2. x.pc # "run" /\ tx[t].pc # "idle"
  OBVIOUS
<1> QED
  BY <1>1, <1>2, EmptyChange, TxGoesOn

\* A call that finds its document in one of the statuses it starts from plans its adjustments,
\* any other ends (the FOR UPDATE and the status check of each handler).
LEMMA LockKeepsInv ==
  ASSUME StockInv, NEW t \in Txns, NEW op \in Locking \ {"AdjustCount"}, NEW from, from \subseteq From[op],
         NEW todo \in Seq(Movement), LockDocument(t, op, from, todo),
         NEW x, x = [tx[t] EXCEPT !.todo = todo, !.pc = "move"], Plans(x, todo)
  PROVE  StockInv'
<1>1. ShapeOK(tx[t]) /\ LocksOK(tx[t]) /\ MovesOK(tx[t]) /\ tx[t].pc = "run" /\ tx[t].op = op /\ WaitsFor(t) = {}
      /\ UNCHANGED committed
  BY DEF StockInv, TxOK, LockDocument
<1>2. CASE status[tx[t].doc] \in from
  <2>1. tx' = [tx EXCEPT ![t].todo = todo, ![t].pc = "move"]
    BY <1>2 DEF LockDocument
  <2>2. tx' = [tx EXCEPT ![t] = x]
    BY <2>1
  <2>3. /\ x.pc = "move" /\ x.op = op /\ x.doc = tx[t].doc /\ x.line = tx[t].line /\ x.amt = tx[t].amt
        /\ x.todo = todo /\ x.held = <<>> /\ x.log = <<>> /\ x.rows = <<>>
        /\ x = [pc |-> x.pc, op |-> x.op, doc |-> x.doc, line |-> x.line, amt |-> x.amt,
                todo |-> x.todo, held |-> x.held, log |-> x.log, rows |-> x.rows]
    BY <1>1 DEF ShapeOK, Locking, To
  <2>4. ShapeOK(x)
    BY <1>1, <2>3 DEF ShapeOK, Locking, To
  <2>5. LocksOK(x) /\ SnapshotOK(x)
    BY <1>1, <1>2, <2>3 DEF LocksOK, SnapshotOK
  <2>6. MovesOK(x)
    <3>1. <<>> \o todo = todo /\ <<>> \in Seq(Movement)
      BY ConcatEmptySeq
    <3>2. Sees(x) = Sees(tx[t]) /\ tx[t].log = <<>> /\ tx[t].held = <<>>
      BY <1>1, <2>3 DEF Sees, ShapeOK
    <3>3. \A c \in Cells : Sees(x)[c] \in Nat /\ Sees(x)[c] = level[c] + ChangeOf(x.log, c)
      BY <1>1, <2>3, <3>2 DEF MovesOK
    <3>4. Plans(x, x.log \o x.todo)
      BY <2>3, <3>1
    <3> QED
      BY <2>3, <3>1, <3>3, <3>4, EmptyChange DEF MovesOK
  <2> QED
    BY <1>1, <1>2, <2>2, <2>3, <2>4, <2>5, <2>6, LocksDocument DEF TxOK
<1>3. CASE status[tx[t].doc] \notin from
  BY <1>1, <1>3, EndKeepsInv DEF LockDocument
<1> QED
  BY <1>2, <1>3

\* What a document is, by its kind.
LEMMA DocFacts ==
  ASSUME NEW d \in Docs
  PROVE  /\ Kind(d) \in {"transfer", "order", "count"}
         /\ Kind(d) = "transfer" => Doc[d].qty \in Nat \ {0} /\ Doc[d].from \in Cells /\ Doc[d].to \in Cells
         /\ Kind(d) = "order" => Doc[d].out \in Cells /\ Doc[d].parts \in Seq([cell : Cells, qty : Nat \ {0}])
         /\ Kind(d) = "count" => Doc[d].cells \in Seq(Cells) /\ Doc[d].cells # <<>>
BY DocsAssumption

\* What takes the parts of an order are movements, one for each line.
LEMMA PartsTyped ==
  ASSUME NEW d \in Docs, Kind(d) = "order"
  PROVE  IsFiniteSet(DOMAIN Parts(d)) /\ \A n \in DOMAIN Parts(d) : Parts(d)[n] \in Movement
<1>0. PICK S : S = [cell : Cells, qty : Nat \ {0}]
  OBVIOUS
<1>1. PICK ps \in Seq(S) : ps = Doc[d].parts
  BY <1>0, DocFacts
<1>2. PICK N \in Nat : DOMAIN ps = 1 .. N /\ \A n \in 1 .. N : ps[n] \in [cell : Cells, qty : Nat \ {0}]
  <2>1. Len(ps) \in Nat /\ DOMAIN ps = 1 .. Len(ps)
    OBVIOUS
  <2>2. \A n \in 1 .. Len(ps) : ps[n] \in S
    OBVIOUS
  <2> QED
    BY <1>0, <2>1, <2>2
<1>3. Parts(d) = [n \in 1 .. N |-> [cell |-> ps[n].cell, change |-> -ps[n].qty]]
  BY <1>1, <1>2 DEF Parts
<1>4. ASSUME NEW n \in 1 .. N
      PROVE  Parts(d)[n] \in Movement
  <2>1. ps[n].cell \in Cells /\ -ps[n].qty \in Int
    BY <1>2
  <2> QED
    BY <1>3, <2>1 DEF Movement
<1>5. IsFiniteSet(1 .. N)
  BY FS_Interval
<1>6. DOMAIN Parts(d) = 1 .. N
  BY <1>3
<1> QED
  BY <1>4, <1>5, <1>6

\* The lines of a count are finitely many, each of a cell.
LEMMA CountedLines ==
  ASSUME NEW d \in Docs, Kind(d) = "count"
  PROVE  /\ IsFiniteSet(DOMAIN Doc[d].cells) /\ \A n \in DOMAIN Doc[d].cells : Doc[d].cells[n] \in Cells
         /\ Len(Doc[d].cells) \in Nat /\ DOMAIN Doc[d].cells = 1 .. Len(Doc[d].cells)
<1>1. PICK s \in Seq(Cells) : s = Doc[d].cells
  BY DocFacts
<1>2. Len(s) \in Nat /\ DOMAIN s = 1 .. Len(s) /\ \A n \in 1 .. Len(s) : s[n] \in Cells
  OBVIOUS
<1>3. IsFiniteSet(1 .. Len(s))
  BY <1>2, FS_Interval
<1> QED
  BY <1>1, <1>2, <1>3

\* The variance of a line is a number.
LEMMA VarianceTyped ==
  ASSUME NEW l \in Line
  PROVE  Variance(l) \in Int
<1>1. l.sys \in Nat /\ (l.cnt \in Nat \/ l.cnt = None)
  BY DEF Line
<1> QED
  BY <1>1 DEF Variance

\* What lines of a count add are movements, one for each of them.
LEMMA AdjustmentsTyped ==
  ASSUME NEW d \in Docs, Kind(d) = "count", NEW rows, DOMAIN rows \subseteq DOMAIN Doc[d].cells,
         \A n \in DOMAIN rows : rows[n] \in Line
  PROVE  /\ DOMAIN Adjustments(d, rows) = DOMAIN rows /\ IsFiniteSet(DOMAIN rows)
         /\ \A n \in DOMAIN rows : Adjustments(d, rows)[n] \in Movement
<1>1. IsFiniteSet(DOMAIN rows)
  BY CountedLines, FS_Subset
<1>2. DOMAIN Adjustments(d, rows) = DOMAIN rows
  BY DEF Adjustments
<1>3. ASSUME NEW n \in DOMAIN rows
      PROVE  Adjustments(d, rows)[n] \in Movement
  <2>1. Doc[d].cells[n] \in Cells /\ Variance(rows[n]) \in Int
    BY CountedLines, VarianceTyped
  <2> QED
    BY <2>1 DEF Adjustments, Movement
<1> QED
  BY <1>1, <1>2, <1>3

\* The calls that lock their document and know by then what they will adjust.
LEMMA LockingKeepsInv ==
  ASSUME StockInv, NEW t \in Txns,
         \/ CompleteTransfer(t) \/ CancelTransfer(t) \/ StartProductionOrder(t) \/ CompleteProductionOrder(t)
         \/ CancelProductionOrder(t) \/ CloseCount(t)
  PROVE  StockInv'
<1>a. ShapeOK(tx[t])
  BY DEF StockInv, TxOK
<1>b. ASSUME NEW op, NEW from, NEW todo, LockDocument(t, op, from, todo), op \in Locking
      PROVE  /\ tx[t].pc = "run" /\ tx[t].op = op /\ tx[t].doc \in Docs /\ Kind(tx[t].doc) = About(op) /\ tx[t].amt \in Nat
             /\ op = "CompleteProductionOrder" => tx[t].amt > 0
  BY <1>a, <1>b DEF LockDocument, ShapeOK
<1>1. ASSUME CompleteTransfer(t)
      PROVE  StockInv'
  <2>1. PICK d : d = tx[t].doc
    OBVIOUS
  <2>2. PICK todo : todo = <<[cell |-> Doc[d].from, change |-> -Doc[d].qty], [cell |-> Doc[d].to, change |-> Doc[d].qty]>>
    OBVIOUS
  <2>3. LockDocument(t, "CompleteTransfer", {"draft"}, todo) /\ "CompleteTransfer" \in Locking
    BY <1>1, <2>1, <2>2 DEF CompleteTransfer, Locking, To
  <2>4. d \in Docs /\ Kind(d) = "transfer" /\ tx[t].op = "CompleteTransfer"
    BY <1>b, <2>1, <2>3 DEF About
  <2>5. todo \in Seq(Movement)
    <3>1. Doc[d].qty \in Int /\ -Doc[d].qty \in Int /\ Doc[d].from \in Cells /\ Doc[d].to \in Cells
      BY <2>4, DocFacts
    <3> QED
      BY <2>2, <3>1 DEF Movement
  <2>6. PICK x : x = [tx[t] EXCEPT !.todo = todo, !.pc = "move"]
    OBVIOUS
  <2>7. x.op = "CompleteTransfer" /\ x.doc = d
    BY <1>a, <2>1, <2>4, <2>6 DEF ShapeOK
  <2>8. Plans(x, todo)
    BY <2>2, <2>7 DEF Plans
  <2> QED
    BY <2>3, <2>5, <2>6, <2>8, LockKeepsInv DEF From
<1>2. ASSUME NEW op \in {"CancelTransfer", "CancelProductionOrder", "CloseCount"}, NEW from \in SUBSET From[op],
             LockDocument(t, op, from, <<>>)
      PROVE  StockInv'
  <2>1. op \in Locking \ {"AdjustCount"} /\ <<>> \in Seq(Movement)
    BY <1>2 DEF Locking, To
  <2>2. tx[t].op = op
    BY <1>2 DEF LockDocument
  <2>3. PICK x : x = [tx[t] EXCEPT !.todo = <<>>, !.pc = "move"]
    OBVIOUS
  <2>4. x.op = op
    BY <1>a, <2>2, <2>3 DEF ShapeOK
  <2>5. Plans(x, <<>>)
    BY <2>4 DEF Plans
  <2> QED
    BY <1>2, <2>1, <2>3, <2>5, LockKeepsInv
<1>3. ASSUME StartProductionOrder(t)
      PROVE  StockInv'
  <2>1. PICK d : d = tx[t].doc
    OBVIOUS
  <2>2. PICK todo \in InAnyOrder(Parts(d)) : LockDocument(t, "StartProductionOrder", {"planned"}, todo)
    BY <1>3, <2>1 DEF StartProductionOrder
  <2>3. "StartProductionOrder" \in Locking \ {"AdjustCount"}
    BY DEF Locking, To
  <2>4. d \in Docs /\ Kind(d) = "order" /\ tx[t].op = "StartProductionOrder"
    BY <1>b, <2>1, <2>2, <2>3 DEF About
  <2>5. todo \in Seq(Movement)
    BY <2>2, <2>4, PartsTyped, InOrderSums
  <2>6. PICK x : x = [tx[t] EXCEPT !.todo = todo, !.pc = "move"]
    OBVIOUS
  <2>7. x.op = "StartProductionOrder" /\ x.doc = d
    BY <1>a, <2>1, <2>4, <2>6 DEF ShapeOK
  <2>8. Plans(x, todo)
    BY <2>2, <2>7 DEF Plans
  <2> QED
    BY <2>2, <2>3, <2>5, <2>6, <2>8, LockKeepsInv DEF From
<1>4. ASSUME CompleteProductionOrder(t)
      PROVE  StockInv'
  <2>1. PICK d, n : d = tx[t].doc /\ n = tx[t].amt
    OBVIOUS
  <2>2. PICK todo : todo = <<[cell |-> Doc[d].out, change |-> n]>>
    OBVIOUS
  <2>3. LockDocument(t, "CompleteProductionOrder", {"in_progress"}, todo) /\ "CompleteProductionOrder" \in Locking \ {"AdjustCount"}
    BY <1>4, <2>1, <2>2 DEF CompleteProductionOrder, Locking, To
  <2>4. d \in Docs /\ Kind(d) = "order" /\ tx[t].op = "CompleteProductionOrder" /\ n \in Nat /\ n > 0
    BY <1>b, <2>1, <2>3 DEF About
  <2>5. todo \in Seq(Movement)
    <3>1. n \in Int /\ Doc[d].out \in Cells
      BY <2>4, DocFacts
    <3> QED
      BY <2>2, <3>1 DEF Movement
  <2>6. PICK x : x = [tx[t] EXCEPT !.todo = todo, !.pc = "move"]
    OBVIOUS
  <2>7. x.op = "CompleteProductionOrder" /\ x.doc = d /\ x.amt = n
    BY <1>a, <2>1, <2>4, <2>6 DEF ShapeOK
  <2>8. Plans(x, todo)
    BY <2>2, <2>4, <2>7 DEF Plans
  <2> QED
    BY <2>3, <2>5, <2>6, <2>8, LockKeepsInv DEF From
<1> QED
  BY <1>1, <1>2, <1>3, <1>4 DEF CancelTransfer, CancelProductionOrder, CloseCount, From

\* A count is locked by the adjustment, which then lists its lines.
LEMMA AdjustCountKeepsInv ==
  ASSUME StockInv, NEW t \in Txns, AdjustCount(t) \/ ListLines(t)
  PROVE  StockInv'
<1>a. ShapeOK(tx[t]) /\ LocksOK(tx[t]) /\ MovesOK(tx[t]) /\ UNCHANGED committed
  BY DEF StockInv, TxOK, AdjustCount, ListLines
<1>1. ASSUME NEW x, x = [tx[t] EXCEPT !.pc = x.pc, !.todo = x.todo], tx[t].pc \in {"run", "list"},
             x.pc \in {"list", "lock"}, tx[t].op = "AdjustCount", status[tx[t].doc] = "open",
             x.pc = "lock" => x.todo \subseteq DOMAIN lines[tx[t].doc]
      PROVE  TxOK(x) /\ x.op = "AdjustCount" /\ x.doc = tx[t].doc /\ x.held = <<>> /\ x.rows = <<>>
  <2>1. /\ x.op = "AdjustCount" /\ x.doc = tx[t].doc /\ x.line = tx[t].line /\ x.amt = tx[t].amt
        /\ x.held = <<>> /\ x.log = <<>> /\ x.rows = <<>>
        /\ x = [pc |-> x.pc, op |-> x.op, doc |-> x.doc, line |-> x.line, amt |-> x.amt,
                todo |-> x.todo, held |-> x.held, log |-> x.log, rows |-> x.rows]
    BY <1>a, <1>1 DEF ShapeOK
  <2>2. ShapeOK(x)
    BY <1>a, <1>1, <2>1 DEF ShapeOK
  <2>3. LocksOK(x) /\ SnapshotOK(x)
    BY <1>a, <1>1, <2>1 DEF LocksOK, SnapshotOK, From
  <2>4. Sees(x) = Sees(tx[t]) /\ tx[t].log = <<>> /\ tx[t].held = <<>>
    BY <1>a, <1>1, <2>1 DEF Sees, ShapeOK
  <2>5. MovesOK(x)
    BY <1>a, <1>1, <2>1, <2>4, EmptyChange DEF MovesOK
  <2> QED
    BY <2>1, <2>2, <2>3, <2>5 DEF TxOK
<1>2. CASE AdjustCount(t) /\ status[tx[t].doc] = "open"
  <2>1. PICK x : x = [tx[t] EXCEPT !.pc = "list"]
    OBVIOUS
  <2>2. /\ tx' = [tx EXCEPT ![t] = x] /\ tx[t].pc = "run" /\ tx[t].op = "AdjustCount" /\ WaitsFor(t) = {}
        /\ x.pc = "list" /\ x.todo = tx[t].todo /\ x = [tx[t] EXCEPT !.pc = x.pc, !.todo = x.todo]
    BY <1>a, <1>2, <2>1 DEF AdjustCount, ShapeOK
  <2>3. TxOK(x) /\ x.op = "AdjustCount" /\ x.doc = tx[t].doc /\ x.held = <<>> /\ x.rows = <<>>
    BY <1>1, <1>2, <2>2
  <2>4. "AdjustCount" \in Locking /\ status[tx[t].doc] \in From["AdjustCount"]
    BY <1>2 DEF Locking, To, From
  <2> QED
    BY <1>a, <2>2, <2>3, <2>4, LocksDocument
<1>3. CASE AdjustCount(t) /\ status[tx[t].doc] # "open"
  BY <1>a, <1>3, EndKeepsInv DEF AdjustCount
<1>4. CASE ListLines(t)
  <2>1. PICK todo : todo = {c \in DOMAIN lines[tx[t].doc] : Variance(lines[tx[t].doc][c]) # 0}
    OBVIOUS
  <2>2. PICK x : x = [tx[t] EXCEPT !.todo = todo, !.pc = "lock"]
    OBVIOUS
  <2>3. /\ tx' = [tx EXCEPT ![t] = x] /\ tx[t].pc = "list" /\ tx[t].op = "AdjustCount" /\ status[tx[t].doc] = "open"
        /\ x.pc = "lock" /\ x.todo = todo /\ x = [tx[t] EXCEPT !.pc = x.pc, !.todo = x.todo]
    <3>1. tx[t].pc = "list" /\ tx' = [tx EXCEPT ![t].todo = todo, ![t].pc = "lock"]
      BY <1>4, <2>1 DEF ListLines
    <3>2. tx' = [tx EXCEPT ![t] = x]
      BY <2>2, <3>1
    <3>3. tx[t].op = "AdjustCount" /\ status[tx[t].doc] = "open"
      BY <1>a, <3>1 DEF ShapeOK, LocksOK, From
    <3>4. x.pc = "lock" /\ x.todo = todo /\ x = [tx[t] EXCEPT !.pc = x.pc, !.todo = x.todo]
      BY <1>a, <2>2, <3>1 DEF ShapeOK
    <3> QED
      BY <3>1, <3>2, <3>3, <3>4
  <2>4. TxOK(x) /\ x.op = "AdjustCount" /\ x.doc = tx[t].doc /\ x.held = <<>> /\ x.rows = <<>>
    BY <1>1, <2>1, <2>3
  <2>5. \A u \in Txns \ {t} : tx[u].pc \in {"list", "lock", "move"} => tx[u].doc # tx[t].doc
    BY <2>3 DEF StockInv, Apart
  <2>6. tx[t].pc # "idle" /\ x.pc # "run" /\ x.op = tx[t].op /\ DOMAIN x.held = {} /\ DOMAIN x.rows = {}
    BY <2>3, <2>4, EmptyChange
  <2>7. \A u \in Txns \ {t} :
          /\ DOMAIN x.held \cap DOMAIN tx[u].held = {}
          /\ x.pc \in {"list", "lock", "move"} /\ tx[u].pc \in {"list", "lock", "move"} => x.doc # tx[u].doc
          /\ DOMAIN x.rows \cap DOMAIN tx[u].rows = {}
    BY <2>4, <2>5, <2>6
  <2>8. tx' = [tx EXCEPT ![t] = x] /\ TxOK(x) /\ x.doc = tx[t].doc
    BY <2>3, <2>4
  <2> QED
    BY <1>a, <2>6, <2>7, <2>8, TxGoesOn
<1> QED
  BY <1>2, <1>3, <1>4

\* The lines that still differ are locked, and their variances to be adjusted.
LEMMA LockLinesKeepsInv ==
  ASSUME StockInv, NEW t \in Txns, LockLines(t)
  PROVE  StockInv'
<1>1. PICK d, l : d = tx[t].doc /\ l = lines[d]
  OBVIOUS
<1>2. PICK still : still = {c \in tx[t].todo : Variance(l[c]) # 0}
  OBVIOUS
<1>3. PICK rows : rows = [c \in still |-> [l[c] EXCEPT !.adj = TRUE]]
  OBVIOUS
<1>4. PICK todo \in InAnyOrder(Adjustments(d, rows)) : tx' = [tx EXCEPT ![t].pc = "move", ![t].todo = todo, ![t].rows = rows]
  <2> DEFINE e == tx[t].doc
             W == [c \in {b \in tx[t].todo : Variance(lines[e][b]) # 0} |-> [lines[e][c] EXCEPT !.adj = TRUE]]
  <2>1. \E todo \in InAnyOrder(Adjustments(e, W)) : tx' = [tx EXCEPT ![t].pc = "move", ![t].todo = todo, ![t].rows = W]
    BY DEF LockLines
  <2>2. e = d /\ W = rows
    BY <1>1, <1>2, <1>3
  <2> HIDE DEF e, W
  <2> QED
    BY <2>1, <2>2
<1>5. PICK x : x = [tx[t] EXCEPT !.pc = "move", !.todo = todo, !.rows = rows]
  OBVIOUS
<1>6. /\ tx[t].pc = "lock" /\ WaitsFor(t) = {} /\ UNCHANGED committed /\ tx' = [tx EXCEPT ![t] = x]
      /\ ShapeOK(tx[t]) /\ LocksOK(tx[t]) /\ MovesOK(tx[t])
  BY <1>4, <1>5 DEF LockLines, StockInv, TxOK
<1>7. /\ tx[t].op = "AdjustCount" /\ d \in Docs /\ Kind(d) = "count" /\ status[d] = "open"
      /\ tx[t].held = <<>> /\ tx[t].log = <<>> /\ tx[t].todo \subseteq DOMAIN l
  BY <1>1, <1>6 DEF ShapeOK, LocksOK, About, From
<1>8. /\ x.pc = "move" /\ x.op = "AdjustCount" /\ x.doc = d /\ x.line = tx[t].line /\ x.amt = tx[t].amt
      /\ x.todo = todo /\ x.held = <<>> /\ x.log = <<>> /\ x.rows = rows
      /\ x = [pc |-> x.pc, op |-> x.op, doc |-> x.doc, line |-> x.line, amt |-> x.amt,
              todo |-> x.todo, held |-> x.held, log |-> x.log, rows |-> x.rows]
  BY <1>1, <1>5, <1>6, <1>7 DEF ShapeOK
<1>9. /\ DOMAIN l = DOMAIN Doc[d].cells /\ \A c \in DOMAIN l : l[c] \in Line
  BY <1>1, <1>7 DEF StockInv, DocOK
<1>10. still \subseteq DOMAIN l
  BY <1>2, <1>7
<1>11. /\ DOMAIN rows = still
       /\ \A c \in still : rows[c] = [l[c] EXCEPT !.adj = TRUE] /\ rows[c] \in Line /\ Variance(l[c]) # 0
  <2>1. ASSUME NEW c \in still
        PROVE  rows[c] \in Line
    <3>1. l[c] \in Line /\ rows[c] = [l[c] EXCEPT !.adj = TRUE]
      BY <1>3, <1>9, <1>10
    <3> QED
      BY <3>1 DEF Line
  <2> QED
    BY <1>2, <1>3, <2>1
<1>12. todo \in Seq(Movement)
  <2>1. PICK f : f = Adjustments(d, rows)
    OBVIOUS
  <2>2. DOMAIN f = DOMAIN rows /\ IsFiniteSet(DOMAIN f) /\ \A n \in DOMAIN f : f[n] \in Movement
    BY <1>7, <1>9, <1>10, <1>11, <2>1, AdjustmentsTyped
  <2>3. todo \in InAnyOrder(f)
    BY <1>4, <2>1
  <2> QED
    BY <2>2, <2>3, InOrderSums
<1>13. ShapeOK(x)
  BY <1>1, <1>6, <1>7, <1>8 DEF ShapeOK, Locking, To
<1>14. LocksOK(x) /\ SnapshotOK(x)
  BY <1>1, <1>7, <1>8, <1>10, <1>11 DEF LocksOK, SnapshotOK, From
<1>15. MovesOK(x)
  <2>1. <<>> \o todo = todo /\ <<>> \in Seq(Movement)
    BY <1>12, ConcatEmptySeq
  <2>2. Sees(x) = Sees(tx[t])
    BY <1>7, <1>8 DEF Sees
  <2>3. \A c \in Cells : Sees(x)[c] \in Nat /\ Sees(x)[c] = level[c] + ChangeOf(x.log, c)
    BY <1>6, <1>7, <1>8, <2>2 DEF MovesOK
  <2>4. Plans(x, x.log \o x.todo)
    BY <1>4, <1>8, <2>1 DEF Plans
  <2> QED
    BY <1>8, <1>12, <2>1, <2>3, <2>4, EmptyChange DEF MovesOK
<1>16. ASSUME NEW u \in Txns \ {t}, tx[u].op \in {"RecordCount", "AdjustCount"}, tx[u].doc = d
       PROVE  DOMAIN x.rows \cap DOMAIN tx[u].rows = {}
  <2>1. \A c \in tx[t].todo : ~HoldsLine(u, d, c)
    BY <1>1, <1>6 DEF WaitsFor
  <2> QED
    BY <1>2, <1>8, <1>11, <1>16, <2>1 DEF HoldsLine
<1>17. \A u \in Txns \ {t} : tx[u].pc \in {"list", "lock", "move"} => tx[u].doc # tx[t].doc
  BY <1>6 DEF StockInv, Apart
<1> QED
  BY <1>1, <1>6, <1>7, <1>8, <1>13, <1>14, <1>15, <1>16, <1>17, EmptyChange, TxGoesOn DEF TxOK

\* The head of what is to do goes to the end of what is done.
LEMMA HeadMoves ==
  ASSUME NEW S, NEW s \in Seq(S), NEW q \in Seq(S), q # <<>>
  PROVE  /\ Head(q) \in S /\ Tail(q) \in Seq(S) /\ Append(s, Head(q)) \in Seq(S)
         /\ Append(s, Head(q)) \o Tail(q) = s \o q
<1>1. Head(q) \in S /\ Tail(q) \in Seq(S) /\ Len(Tail(q)) = Len(q) - 1 /\ Len(q) \in Nat /\ Len(q) # 0 /\ q[1] = Head(q)
      /\ \A i \in 1 .. Len(Tail(q)) : Tail(q)[i] = q[i + 1]
  BY HeadTailProperties
<1>2. PICK h, r : h = Head(q) /\ r = Tail(q)
  OBVIOUS
<1>3. <<h>> \o r = q
  <2>1. <<h>> \in Seq(S) /\ r \in Seq(S) /\ Len(<<h>>) = 1 /\ <<h>>[1] = h
    BY <1>1, <1>2
  <2>2. /\ <<h>> \o r \in Seq(S) /\ Len(<<h>> \o r) = 1 + Len(r)
        /\ \A i \in 1 .. 1 + Len(r) : (<<h>> \o r)[i] = IF i <= 1 THEN <<h>>[i] ELSE r[i - 1]
    BY <2>1, ConcatProperties
  <2>3. Len(<<h>> \o r) = Len(q)
    BY <1>1, <1>2, <2>2
  <2>4. \A i \in 1 .. Len(q) : (<<h>> \o r)[i] = q[i]
    <3> SUFFICES ASSUME NEW i \in 1 .. Len(q) PROVE (<<h>> \o r)[i] = q[i]
      OBVIOUS
    <3>1. i \in 1 .. 1 + Len(r)
      BY <1>1, <1>2
    <3>2. CASE i = 1
      BY <1>1, <1>2, <2>1, <2>2, <3>1, <3>2
    <3>3. CASE i # 1
      <4>1. i - 1 \in 1 .. Len(r) /\ ~(i <= 1) /\ (i - 1) + 1 = i
        BY <1>1, <1>2, <3>3
      <4> QED
        BY <1>1, <1>2, <2>2, <3>1, <4>1
    <3> QED
      BY <3>2, <3>3
  <2> QED
    BY <2>2, <2>3, <2>4, SeqEqual
<1>4. Append(s, h) \in Seq(S) /\ Append(s, h) = s \o <<h>> /\ <<h>> \in Seq(S) /\ r \in Seq(S)
  BY <1>1, <1>2, AppendProperties, AppendIsConcat
<1>5. (s \o <<h>>) \o r = s \o (<<h>> \o r)
  BY <1>4, ConcatAssociative
<1> QED
  BY <1>1, <1>2, <1>3, <1>4, <1>5

\* A level is adjusted: what is done and what is to do are still the plan.
LEMMA AdjustKeepsInv ==
  ASSUME StockInv, NEW t \in Txns, AdjustStockTx(t)
  PROVE  StockInv'
<1>1. PICK y : y = tx[t]
  OBVIOUS
<1>2. PICK m : m = Head(y.todo)
  OBVIOUS
<1>3. PICK now : now = Sees(y)[m.cell] + m.change
  OBVIOUS
<1>4. /\ y.pc = "move" /\ y.todo # <<>> /\ WaitsFor(t) = {} /\ UNCHANGED committed /\ TxOK(y)
      /\ ShapeOK(y) /\ LocksOK(y) /\ MovesOK(y)
      /\ IF now >= 0
         THEN tx' = [tx EXCEPT ![t].todo = Tail(@), ![t].held = Over([c \in {m.cell} |-> now], @), ![t].log = Append(@, m)]
         ELSE End(t)
  BY <1>1, <1>2, <1>3 DEF AdjustStockTx, StockInv, TxOK
<1>5. CASE ~(now >= 0)
  BY <1>4, <1>5, EndKeepsInv
<1>6. CASE now >= 0
  <2>1. PICK x : x = [y EXCEPT !.todo = Tail(@), !.held = Over([c \in {m.cell} |-> now], @), !.log = Append(@, m)]
    OBVIOUS
  <2>2. tx' = [tx EXCEPT ![t] = x]
    BY <1>1, <1>4, <1>6, <2>1
  <2>3. /\ x.pc = "move" /\ x.op = y.op /\ x.doc = y.doc /\ x.line = y.line /\ x.amt = y.amt /\ x.rows = y.rows
        /\ x.todo = Tail(y.todo) /\ x.held = Over([c \in {m.cell} |-> now], y.held) /\ x.log = Append(y.log, m)
        /\ x = [pc |-> x.pc, op |-> x.op, doc |-> x.doc, line |-> x.line, amt |-> x.amt,
                todo |-> x.todo, held |-> x.held, log |-> x.log, rows |-> x.rows]
    BY <1>4, <2>1 DEF ShapeOK
  <2>4. /\ m \in Movement /\ x.todo \in Seq(Movement) /\ x.log \in Seq(Movement) /\ y.log \in Seq(Movement)
        /\ x.log \o x.todo = y.log \o y.todo
    <3>1. PICK s, q : s = y.log /\ q = y.todo
      OBVIOUS
    <3>2. s \in Seq(Movement) /\ q \in Seq(Movement) /\ q # <<>>
      BY <1>4, <3>1 DEF MovesOK
    <3>3. /\ Head(q) \in Movement /\ Tail(q) \in Seq(Movement) /\ Append(s, Head(q)) \in Seq(Movement)
          /\ Append(s, Head(q)) \o Tail(q) = s \o q
      BY <3>2, HeadMoves
    <3> QED
      BY <1>2, <2>3, <3>1, <3>2, <3>3
  <2>5. m.cell \in Cells /\ m.change \in Int /\ Sees(y)[m.cell] \in Nat
    BY <1>4, <2>4 DEF Movement, MovesOK
  <2>6. now \in Nat
    BY <1>3, <1>6, <2>5
  <2>7. DOMAIN x.held = DOMAIN y.held \cup {m.cell}
    BY <2>3 DEF Over
  <2>8. ASSUME NEW c \in Cells
        PROVE  Sees(x)[c] = IF c = m.cell THEN now ELSE Sees(y)[c]
    <3>1. level \in [Cells -> Nat]
      BY DEF StockInv, Functional
    <3> QED
      BY <2>3, <2>5, <2>7, <3>1 DEF Sees, Over
  <2>9. ASSUME NEW c \in Cells
        PROVE  Sees(x)[c] \in Nat /\ Sees(x)[c] = level[c] + ChangeOf(x.log, c)
    <3>1. Sees(y)[c] \in Nat /\ Sees(y)[c] = level[c] + ChangeOf(y.log, c) /\ level[c] \in Int
      BY <1>4 DEF MovesOK, StockInv, Functional
    <3>2. ChangeOf(x.log, c) = ChangeOf(y.log, c) + (IF m.cell = c THEN m.change ELSE 0)
      BY <2>3, <2>4, ChangeAppend
    <3>3. ChangeOf(y.log, c) \in Int
      BY <2>4, ChangeTyped
    <3>4. CASE c = m.cell
      BY <1>3, <2>5, <2>6, <2>8, <3>1, <3>2, <3>3, <3>4
    <3>5. CASE c # m.cell
      BY <2>8, <3>1, <3>2, <3>3, <3>5
    <3> QED
      BY <3>4, <3>5
  <2>10. Plans(x, x.log \o x.todo)
    <3>1. Plans(y, y.log \o y.todo)
      BY <1>4 DEF MovesOK
    <3> QED
      BY <2>3, <2>4, <3>1 DEF Plans
  <2>11. MovesOK(x)
    <3>1. DOMAIN x.held \subseteq Cells
      BY <1>4, <2>5, <2>7 DEF MovesOK
    <3> QED
      BY <2>4, <2>9, <2>10, <3>1 DEF MovesOK
  <2>12. ShapeOK(x)
    BY <1>4, <2>3 DEF ShapeOK
  <2>13. LocksOK(x) /\ SnapshotOK(x)
    BY <1>4, <2>3 DEF LocksOK, SnapshotOK
  <2>14. ASSUME NEW u \in Txns \ {t}
         PROVE  /\ DOMAIN x.held \cap DOMAIN tx[u].held = {}
                /\ x.pc \in {"list", "lock", "move"} /\ tx[u].pc \in {"list", "lock", "move"} => x.doc # tx[u].doc
                /\ x.op \in {"RecordCount", "AdjustCount"} /\ tx[u].op \in {"RecordCount", "AdjustCount"} /\ x.doc = tx[u].doc
                   => DOMAIN x.rows \cap DOMAIN tx[u].rows = {}
    <3>1. m.cell \notin DOMAIN tx[u].held
      BY <1>1, <1>2, <1>4 DEF WaitsFor, HoldsLevel
    <3>2. Apart(y, tx[u])
      BY <1>1 DEF StockInv
    <3> QED
      BY <1>4, <2>3, <2>7, <3>1, <3>2 DEF Apart
  <2>15. TxOK(x) /\ x.doc = tx[t].doc /\ x.op = tx[t].op /\ tx[t].pc # "idle" /\ x.pc # "run"
    BY <1>1, <1>4, <2>3, <2>11, <2>12, <2>13 DEF TxOK
  <2> QED
    BY <1>4, <2>2, <2>14, <2>15, TxGoesOn
<1> QED
  BY <1>5, <1>6

\* A count of a line: the session is found open, then the line is locked and written.
LEMMA CheckKeepsInv ==
  ASSUME StockInv, NEW t \in Txns, CheckSession(t)
  PROVE  StockInv'
<1>1. PICK y : y = tx[t]
  OBVIOUS
<1>2. PICK x : x = [y EXCEPT !.pc = "count"]
  OBVIOUS
<1>3. /\ y.pc = "run" /\ y.op = "RecordCount" /\ UNCHANGED committed
      /\ ShapeOK(y) /\ LocksOK(y) /\ MovesOK(y)
      /\ IF status[y.doc] = "open" THEN tx' = [tx EXCEPT ![t] = x] ELSE End(t)
  BY <1>1, <1>2 DEF CheckSession, StockInv, TxOK
<1>4. CASE status[y.doc] # "open"
  BY <1>3, <1>4, EndKeepsInv
<1>5. CASE status[y.doc] = "open"
  <2>1. /\ x.pc = "count" /\ x.op = y.op /\ x.doc = y.doc /\ x.line = y.line /\ x.amt = y.amt /\ x.rows = <<>>
        /\ x.todo = y.todo /\ x.held = <<>> /\ y.held = <<>> /\ x.log = <<>> /\ y.log = <<>>
        /\ x = [pc |-> x.pc, op |-> x.op, doc |-> x.doc, line |-> x.line, amt |-> x.amt,
                todo |-> x.todo, held |-> x.held, log |-> x.log, rows |-> x.rows]
    BY <1>2, <1>3 DEF ShapeOK
  <2>2. ShapeOK(x) /\ LocksOK(x) /\ SnapshotOK(x)
    BY <1>3, <2>1 DEF ShapeOK, LocksOK, SnapshotOK
  <2>3. MovesOK(x)
    <3>1. Sees(x) = Sees(y)
      BY <2>1 DEF Sees
    <3> QED
      BY <1>3, <2>1, <3>1, EmptyChange DEF MovesOK
  <2>4. \A u \in Txns \ {t} : /\ DOMAIN x.held \cap DOMAIN tx[u].held = {}
                              /\ x.pc \notin {"list", "lock", "move"}
                              /\ DOMAIN x.rows \cap DOMAIN tx[u].rows = {}
    BY <2>1, EmptyChange
  <2>5. TxOK(x) /\ x.doc = tx[t].doc /\ x.op = tx[t].op /\ tx[t].pc # "idle" /\ x.pc # "run"
    BY <1>1, <1>3, <2>1, <2>2, <2>3 DEF TxOK
  <2> QED
    BY <1>3, <1>5, <2>4, <2>5, TxGoesOn
<1> QED
  BY <1>4, <1>5

\* The line that RecordCount updates stays locked until the commit.
LEMMA RecordKeepsInv ==
  ASSUME StockInv, NEW t \in Txns, RecordCount(t)
  PROVE  StockInv'
<1>1. PICK y : y = tx[t]
  OBVIOUS
<1>2. PICK rows : rows = [l \in {y.line} |-> [lines[y.doc][l] EXCEPT !.cnt = y.amt]]
  OBVIOUS
<1>3. PICK x : x = [y EXCEPT !.pc = "counted", !.rows = rows]
  OBVIOUS
<1>4. /\ y.pc = "count" /\ UNCHANGED committed /\ WaitsFor(t) = {}
      /\ ShapeOK(y) /\ LocksOK(y) /\ MovesOK(y)
      /\ tx' = [tx EXCEPT ![t] = x]
  <2>1. tx' = [tx EXCEPT ![t].pc = "counted", ![t].rows = rows]
    BY <1>1, <1>2 DEF RecordCount
  <2> QED
    BY <1>1, <1>3, <2>1 DEF RecordCount, StockInv, TxOK
<1>5. /\ x.pc = "counted" /\ x.op = "RecordCount" /\ y.op = "RecordCount" /\ x.doc = y.doc /\ x.line = y.line /\ x.amt = y.amt
      /\ x.rows = rows /\ DOMAIN rows = {y.line}
      /\ x.todo = y.todo /\ x.held = <<>> /\ y.held = <<>> /\ x.log = <<>> /\ y.log = <<>>
      /\ x = [pc |-> x.pc, op |-> x.op, doc |-> x.doc, line |-> x.line, amt |-> x.amt,
              todo |-> x.todo, held |-> x.held, log |-> x.log, rows |-> x.rows]
  BY <1>2, <1>3, <1>4 DEF ShapeOK
<1>6. ShapeOK(x) /\ LocksOK(x) /\ SnapshotOK(x)
  BY <1>2, <1>4, <1>5 DEF ShapeOK, LocksOK, SnapshotOK
<1>7. MovesOK(x)
  <2>1. Sees(x) = Sees(y)
    BY <1>5 DEF Sees
  <2> QED
    BY <1>4, <1>5, <2>1, EmptyChange DEF MovesOK
<1>8. ASSUME NEW u \in Txns \ {t}
      PROVE  /\ DOMAIN x.held \cap DOMAIN tx[u].held = {}
             /\ x.pc \notin {"list", "lock", "move"}
             /\ x.op \in {"RecordCount", "AdjustCount"} /\ tx[u].op \in {"RecordCount", "AdjustCount"} /\ x.doc = tx[u].doc
                => DOMAIN x.rows \cap DOMAIN tx[u].rows = {}
  <2>1. ~HoldsLine(u, y.doc, y.line)
    BY <1>1, <1>4 DEF WaitsFor
  <2> QED
    BY <1>5, <2>1, EmptyChange DEF HoldsLine
<1>9. TxOK(x) /\ x.doc = tx[t].doc /\ x.op = tx[t].op /\ tx[t].pc # "idle" /\ x.pc # "run"
  BY <1>1, <1>4, <1>5, <1>6, <1>7 DEF TxOK
<1> QED
  BY <1>4, <1>8, <1>9, TxGoesOn

\* A count is opened line after line.
LEMMA SnapshotKeepsInv ==
  ASSUME StockInv, NEW t \in Txns, SnapshotLine(t)
  PROVE  StockInv'
<1>1. PICK y : y = tx[t]
  OBVIOUS
<1>2. PICK s : s = Doc[y.doc].cells
  OBVIOUS
<1>3. /\ y.pc = "run" /\ y.op = "OpenCount" /\ UNCHANGED committed
      /\ ShapeOK(y) /\ LocksOK(y) /\ SnapshotOK(y) /\ MovesOK(y)
      /\ Len(y.rows) < Len(s)
  BY <1>1, <1>2 DEF SnapshotLine, StockInv, TxOK
<1>4. y.doc \in Docs /\ Kind(y.doc) = "count" /\ y.held = <<>> /\ y.log = <<>>
  BY <1>3 DEF ShapeOK, About
<1>5. s \in Seq(Cells) /\ Len(s) \in Nat
  BY <1>2, <1>4, DocFacts
<1>6. PICK q, k : q = y.rows /\ k = Len(q)
  OBVIOUS
<1>7. q \in Seq(Fresh) /\ k \in Nat /\ k < Len(s) /\ k + 1 \in 1 .. Len(s)
  <2>1. q \in Seq(Fresh)
    BY <1>3, <1>6 DEF SnapshotOK
  <2>2. k \in Nat
    BY <1>6, <2>1
  <2> QED
    BY <1>3, <1>5, <1>6, <2>1, <2>2
<1>8. PICK r : r = [sys |-> level[s[k + 1]], cnt |-> None, adj |-> FALSE]
  OBVIOUS
<1>9. r \in Fresh
  <2>1. s[k + 1] \in Cells
    BY <1>5, <1>7
  <2>2. level[s[k + 1]] \in Nat
    BY <2>1 DEF StockInv, Functional
  <2> QED
    BY <1>8, <2>2 DEF Fresh, Line
<1>10. PICK rows : rows = Append(q, r)
  OBVIOUS
<1>11. PICK x : x = [y EXCEPT !.rows = rows]
  OBVIOUS
<1>12. tx' = [tx EXCEPT ![t] = x]
  <2>1. tx' = [tx EXCEPT ![t].rows = rows]
    BY <1>1, <1>2, <1>6, <1>8, <1>10 DEF SnapshotLine
  <2> QED
    BY <1>1, <1>11, <2>1
<1>13. rows \in Seq(Fresh) /\ Len(rows) <= Len(s)
  <2>1. rows \in Seq(Fresh) /\ Len(rows) = k + 1
    BY <1>6, <1>7, <1>9, <1>10, AppendProperties
  <2> QED
    BY <1>5, <1>7, <2>1
<1>16. /\ x.pc = "run" /\ x.op = "OpenCount" /\ x.doc = y.doc /\ x.line = y.line /\ x.amt = y.amt
       /\ x.rows = rows /\ x.todo = y.todo /\ x.held = <<>> /\ x.log = <<>>
       /\ x = [pc |-> x.pc, op |-> x.op, doc |-> x.doc, line |-> x.line, amt |-> x.amt,
               todo |-> x.todo, held |-> x.held, log |-> x.log, rows |-> x.rows]
  BY <1>3, <1>4, <1>11 DEF ShapeOK
<1>17. ShapeOK(x) /\ LocksOK(x)
  BY <1>3, <1>16 DEF ShapeOK, LocksOK
<1>18. SnapshotOK(x)
  <2>1. s = Doc[x.doc].cells
    BY <1>2, <1>16
  <2> QED
    BY <1>13, <1>16, <2>1 DEF SnapshotOK
<1>19. MovesOK(x)
  <2>1. Sees(x) = Sees(y)
    BY <1>4, <1>16 DEF Sees
  <2> QED
    BY <1>3, <1>4, <1>16, <2>1, EmptyChange DEF MovesOK
<1>20. \A u \in Txns \ {t} : /\ DOMAIN x.held \cap DOMAIN tx[u].held = {}
                             /\ x.pc \notin {"list", "lock", "move"}
                             /\ x.op \notin {"RecordCount", "AdjustCount"}
  BY <1>16, EmptyChange
<1>21. TxOK(x) /\ x.doc = tx[t].doc /\ x.op = tx[t].op /\ tx[t].pc # "idle" /\ tx[t].pc = "run"
  BY <1>1, <1>3, <1>16, <1>17, <1>18, <1>19 DEF TxOK
<1> QED
  BY <1>3, <1>12, <1>20, <1>21, TxGoesOn

\* A call begins.
LEMMA BeginKeepsInv ==
  ASSUME StockInv, NEW t \in Txns, Begin(t)
  PROVE  StockInv'
<1>1. PICK op \in DOMAIN To \cup {"RecordCount"}, d \in Docs :
        /\ Kind(d) = About(op)
        /\ IF op = "OpenCount" THEN status[d] = "absent" /\ \A u \in Open : tx[u].doc # d
           ELSE status[d] # "absent"
        /\ \E n \in CASE op = "RecordCount" -> Amounts
                      [] op = "CompleteProductionOrder" -> Amounts \ {0}
                      [] OTHER -> {0},
             c \in IF op = "RecordCount" THEN DOMAIN Doc[d].cells ELSE {0} :
             tx' = [tx EXCEPT ![t] = [Idle EXCEPT !.pc = "run", !.op = op, !.doc = d, !.amt = n, !.line = c]]
  BY DEF Begin
<1>2. PICK n, c :
        /\ n \in CASE op = "RecordCount" -> Amounts
                   [] op = "CompleteProductionOrder" -> Amounts \ {0}
                   [] OTHER -> {0}
        /\ c \in IF op = "RecordCount" THEN DOMAIN Doc[d].cells ELSE {0}
        /\ tx' = [tx EXCEPT ![t] = [Idle EXCEPT !.pc = "run", !.op = op, !.doc = d, !.amt = n, !.line = c]]
  BY <1>1
<1>3. PICK x : x = [Idle EXCEPT !.pc = "run", !.op = op, !.doc = d, !.amt = n, !.line = c]
  OBVIOUS
<1>4. /\ x.pc = "run" /\ x.op = op /\ x.doc = d /\ x.line = c /\ x.amt = n
      /\ x.rows = <<>> /\ x.todo = <<>> /\ x.held = <<>> /\ x.log = <<>>
      /\ x = [pc |-> x.pc, op |-> x.op, doc |-> x.doc, line |-> x.line, amt |-> x.amt,
              todo |-> x.todo, held |-> x.held, log |-> x.log, rows |-> x.rows]
  BY <1>3 DEF Idle
<1>5. n \in Nat /\ (op = "CompleteProductionOrder" => n > 0)
  BY <1>2, StockAssumption
<1>6. tx[t].pc = "idle" /\ UNCHANGED committed
  BY DEF Begin
<1>7. ShapeOK(x)
  BY <1>1, <1>2, <1>4, <1>5 DEF ShapeOK
<1>8. LocksOK(x)
  BY <1>1, <1>4 DEF LocksOK
<1>9. SnapshotOK(x)
  <2> SUFFICES ASSUME op = "OpenCount" PROVE <<>> \in Seq(Fresh) /\ Len(<<>>) <= Len(Doc[d].cells)
    BY <1>4 DEF SnapshotOK
  <2>1. Kind(d) = "count"
    BY <1>1 DEF About
  <2>2. Len(Doc[d].cells) \in Nat
    BY <2>1, CountedLines
  <2> QED
    BY <2>2
<1>10. MovesOK(x)
  <2>1. Sees(x) = Sees(Idle) /\ Idle.held = <<>> /\ Idle.log = <<>>
    BY <1>4 DEF Sees, Idle
  <2>2. MovesOK(Idle)
    BY IdleOK DEF TxOK
  <2> QED
    BY <1>4, <2>1, <2>2, EmptyChange DEF MovesOK
<1>11. ASSUME NEW u \in Txns \ {t}
       PROVE  Apart(x, tx[u]) /\ Apart(tx[u], x)
  <2>1. op = "OpenCount" /\ tx[u].pc # "idle" => tx[u].doc # d
    BY <1>1 DEF Open
  <2>2. tx[u].pc = "run" /\ tx[u].op = "OpenCount" => tx[u].doc # d
    <3> SUFFICES ASSUME tx[u].pc = "run", tx[u].op = "OpenCount", tx[u].doc = d PROVE FALSE
      OBVIOUS
    <3>1. status[d] = "absent"
      BY DEF StockInv, TxOK, LocksOK
    <3>2. op = "OpenCount"
      BY <1>1, <3>1
    <3> QED
      BY <2>1, <3>2
  <2> QED
    BY <1>4, <2>1, <2>2, EmptyChange DEF Apart
<1> QED
  BY <1>2, <1>3, <1>6, <1>7, <1>8, <1>9, <1>10, <1>11, TxMoves DEF TxOK

\* A document is created that nobody is at.
LEMMA CreateKeepsInv ==
  ASSUME StockInv, NEW d \in Docs, CreateTransfer(d) \/ CreateProductionOrder(d)
  PROVE  StockInv'
<1>1. PICK kind, first : /\ (kind = "transfer" /\ first = "draft") \/ (kind = "order" /\ first = "planned")
                         /\ status[d] = "absent" /\ Kind(d) = kind /\ status' = [status EXCEPT ![d] = first]
                         /\ UNCHANGED <<level, moves, lines, issues, books, tx>>
  <2>1. CreateRow(d, "transfer", "draft") \/ CreateRow(d, "order", "planned")
    BY DEF CreateTransfer, CreateProductionOrder
  <2>2. CASE CreateRow(d, "transfer", "draft")
    <3>1. /\ status[d] = "absent" /\ Kind(d) = "transfer" /\ status' = [status EXCEPT ![d] = "draft"]
          /\ UNCHANGED <<level, moves, lines, issues, books, tx>>
      BY <2>2 DEF CreateRow
    <3> WITNESS "transfer", "draft"
    <3> QED
      BY <3>1
  <2>3. CASE CreateRow(d, "order", "planned")
    <3>1. /\ status[d] = "absent" /\ Kind(d) = "order" /\ status' = [status EXCEPT ![d] = "planned"]
          /\ UNCHANGED <<level, moves, lines, issues, books, tx>>
      BY <2>3 DEF CreateRow
    <3> WITNESS "order", "planned"
    <3> QED
      BY <3>1
  <2> QED
    BY <2>1, <2>2, <2>3
<1>2. /\ (kind = "transfer" /\ first = "draft") \/ (kind = "order" /\ first = "planned")
  BY <1>1
<1>3. /\ status' = [e \in Docs |-> status'[e]] /\ status'[d] = first /\ \A e \in Docs \ {d} : status'[e] = status[e]
  BY <1>1 DEF StockInv, Functional
<1>4. Functional'
  BY <1>1, <1>3 DEF StockInv, Functional
<1>5. ASSUME NEW e \in Docs
      PROVE  DocOK(e)' /\ MovesMatchStatus(e)' /\ BooksFollowStock(e)'
  <2>1. DocOK(e) /\ MovesMatchStatus(e) /\ BooksFollowStock(e)
    BY DEF StockInv, DocumentsTellTheTruth
  <2>2. DocOK(e)'
    BY <1>1, <1>2, <1>3, <2>1 DEF DocOK
  <2>3. MovesMatchStatus(e)'
    BY <1>1, <1>2, <1>3, <2>1 DEF MovesMatchStatus
  <2>4. BooksFollowStock(e)'
    BY <1>1, <1>2, <1>3, <2>1 DEF BooksFollowStock
  <2> QED
    BY <2>2, <2>3, <2>4
<1>6. ASSUME NEW u \in Txns
      PROVE  TxOK(tx[u])'
  <2>1. PICK y : y = tx[u] /\ y = tx'[u]
    BY <1>1
  <2>2. ShapeOK(y) /\ LocksOK(y) /\ SnapshotOK(y) /\ MovesOK(y)
    BY <2>1 DEF StockInv, TxOK
  <2>3. ShapeOK(y)' /\ SnapshotOK(y)'
    BY <2>2 DEF ShapeOK, SnapshotOK
  <2>4. MovesOK(y)'
    BY <1>1, <2>2 DEF MovesOK, Sees, Over, Plans
  <2>5. LocksOK(y)'
    <3>1. y.pc = "run" /\ y.op = "OpenCount" => y.doc # d
      BY <1>1, <1>2, <2>2 DEF ShapeOK, About
    <3>2. y.pc # "idle" /\ y.op # "OpenCount" => y.doc # d
      BY <1>1, <2>2 DEF LocksOK
    <3>3. y.pc # "idle" => y.doc \in Docs
      BY <2>2 DEF ShapeOK
    <3>4. y.pc \in {"idle", "run", "list", "lock", "move", "count", "counted"} /\ (y.pc \in {"list", "lock", "move"} => y.op # "OpenCount")
      BY <2>2 DEF ShapeOK, Locking
    <3> QED
      BY <1>1, <1>3, <2>2, <3>1, <3>2, <3>3, <3>4 DEF LocksOK
  <2> QED
    BY <2>1, <2>3, <2>4, <2>5 DEF TxOK
<1>7. \A u, v \in Txns : u # v => Apart(tx[u], tx[v])'
  BY <1>1 DEF StockInv, Apart
<1>8. StockIsMovements'
  BY <1>1 DEF StockInv, StockIsMovements, ChangeOf
<1> QED
  BY <1>4, <1>5, <1>6, <1>7, <1>8 DEF StockInv, DocumentsTellTheTruth

\* What a commit writes, by what the transaction was.
CommitOf(t, y, d) ==
    /\ d \in Docs /\ Kind(d) = About(y.op) /\ ShapeOK(y) /\ LocksOK(y) /\ SnapshotOK(y) /\ MovesOK(y)
    /\ y.log \in Seq(Movement)
    /\ \/ y.pc = "move" /\ y.op \in Locking /\ Plans(y, y.log) /\ status[d] \in From[y.op]
       \/ y.pc = "counted" /\ y.op = "RecordCount" /\ y.log = <<>> /\ y.held = <<>>
       \/ /\ y.pc = "run" /\ y.op = "OpenCount" /\ y.log = <<>> /\ y.held = <<>> /\ status[d] = "absent"
          /\ Len(y.rows) = Len(Doc[d].cells)
    /\ level' = Sees(y) /\ tx' = [tx EXCEPT ![t] = Idle]
    /\ moves' = [moves EXCEPT ![d] = @ \o y.log]
    /\ issues' = IF y.op = "StartProductionOrder" THEN [issues EXCEPT ![d] = y.log] ELSE issues
    /\ lines' = [lines EXCEPT ![d] = Over(y.rows, @)]
    /\ books' = [books EXCEPT ![d] = @ + Posted(t)]
    /\ status' = IF y.op = "RecordCount" THEN status ELSE [status EXCEPT ![d] = To[y.op]]

\* What the commit of a transaction that fulfils the invariant writes.
LEMMA CommitParts ==
  ASSUME StockInv, NEW t \in Txns, Commit(t), NEW y, y = tx[t], NEW d, d = y.doc
  PROVE  CommitOf(t, y, d)
<1> USE DEF CommitOf
<1>1. ShapeOK(y) /\ LocksOK(y) /\ SnapshotOK(y) /\ MovesOK(y)
  BY DEF StockInv, TxOK
<1>2. \/ y.pc = "move" /\ y.todo = <<>>
      \/ y.pc = "counted"
      \/ y.pc = "run" /\ y.op = "OpenCount" /\ Len(y.rows) = Len(Doc[d].cells)
  BY DEF Commit
<1>3. d \in Docs /\ Kind(d) = About(y.op)
  BY <1>1, <1>2 DEF ShapeOK
<1>4. CASE y.pc = "move" /\ y.todo = <<>>
  <2>1. y.log \in Seq(Movement) /\ Plans(y, y.log \o y.todo)
    BY <1>1, <1>4 DEF MovesOK
  <2>2. PICK s \in Seq(Movement) : s = y.log
    BY <2>1
  <2>3. s \o <<>> = s
    BY ConcatEmptySeq
  <2>4. Plans(y, y.log)
    BY <1>4, <2>1, <2>2, <2>3
  <2>5. y.op \in Locking /\ status[d] \in From[y.op]
    BY <1>1, <1>4 DEF ShapeOK, LocksOK
  <2> QED
    BY <1>1, <1>3, <1>4, <2>1, <2>4, <2>5 DEF Commit, End
<1>5. CASE y.pc = "counted"
  <2>1. y.op = "RecordCount" /\ y.log = <<>> /\ y.held = <<>> /\ y.log \in Seq(Movement)
    <3>1. <<>> \in Seq(Movement)
      OBVIOUS
    <3> QED
      BY <1>1, <1>5, <3>1 DEF ShapeOK
  <2> QED
    BY <1>1, <1>3, <1>5, <2>1 DEF Commit, End
<1>6. CASE y.pc = "run" /\ y.op = "OpenCount" /\ Len(y.rows) = Len(Doc[d].cells)
  <2>1. y.log = <<>> /\ y.held = <<>> /\ y.log \in Seq(Movement) /\ status[d] = "absent"
    <3>1. <<>> \in Seq(Movement)
      OBVIOUS
    <3> QED
      BY <1>1, <1>6, <3>1 DEF ShapeOK, LocksOK
  <2> QED
    BY <1>1, <1>3, <1>6, <2>1 DEF Commit, End
<1> QED
  BY <1>2, <1>4, <1>5, <1>6

\* A commit moves the levels by what it logs.
LEMMA CommitKeepsSum ==
  ASSUME StockInv, NEW t \in Txns, Commit(t)
  PROVE  StockIsMovements' /\ level' \in [Cells -> Nat] /\ moves' \in [Docs -> Seq(Movement)]
<1>1. PICK y, d : y = tx[t] /\ d = y.doc
  OBVIOUS
<1>2. /\ d \in Docs /\ y.log \in Seq(Movement) /\ MovesOK(y)
      /\ level' = Sees(y) /\ moves' = [moves EXCEPT ![d] = @ \o y.log]
  <2>1. CommitOf(t, y, d)
    BY <1>1, CommitParts
  <2> QED
    BY <2>1 DEF CommitOf
<1>3. level \in [Cells -> Nat] /\ moves \in [Docs -> Seq(Movement)]
  BY DEF StockInv, Functional
<1>4. PICK s, log : s \in Seq(Movement) /\ s = moves[d] /\ log \in Seq(Movement) /\ log = y.log
  BY <1>2, <1>3
<1>5. s \o log \in Seq(Movement)
  BY <1>4, ConcatProperties
<1>6. moves' \in [Docs -> Seq(Movement)] /\ moves'[d] = s \o log /\ \A e \in Docs \ {d} : moves'[e] = moves[e]
  BY <1>2, <1>3, <1>4, <1>5
<1>7. level' \in [Cells -> Nat]
  <2>1. DOMAIN level' = Cells /\ level' = [c \in Cells |-> Sees(y)[c]]
    BY <1>2, <1>3 DEF Sees, Over, MovesOK
  <2>2. \A c \in Cells : Sees(y)[c] \in Nat
    BY <1>2 DEF MovesOK
  <2> QED
    BY <2>1, <2>2
<1>8. ASSUME NEW c \in Cells
      PROVE  level'[c] = Opening[c] + SumFunction([e \in Docs |-> ChangeOf(moves'[e], c)])
  <2>1. PICK f, g : f = [e \in Docs |-> ChangeOf(moves[e], c)] /\ g = [e \in Docs |-> ChangeOf(moves'[e], c)]
    OBVIOUS
  <2>2. level[c] = Opening[c] + SumFunctionOnSet(f, Docs)
    BY <2>1 DEF StockInv, StockIsMovements, SumFunction
  <2>3. \A e \in Docs : f[e] \in Int
    BY <1>3, <2>1, ChangeTyped
  <2>4. f[d] = ChangeOf(s, c) /\ g[d] = ChangeOf(s \o log, c) /\ \A e \in Docs \ {d} : g[e] = f[e]
    BY <1>2, <1>4, <1>6, <2>1
  <2>5. ChangeOf(s \o log, c) = ChangeOf(s, c) + ChangeOf(log, c) /\ ChangeOf(s, c) \in Int /\ ChangeOf(log, c) \in Int
    BY <1>4, ChangeConcat, ChangeTyped
  <2>6. SumFunctionOnSet(g, Docs) = SumFunctionOnSet(f, Docs) + g[d] - f[d]
    <3>1. IsFiniteSet(Docs) /\ g[d] \in Int
      BY <2>4, <2>5, DocsAssumption
    <3> QED
      <4>1. d \in Docs /\ \A e \in Docs \ {d} : g[e] = f[e]
        BY <1>2, <2>4
      <4> QED
        BY <2>3, <3>1, <4>1, SumChange
  <2>7. level'[c] = level[c] + ChangeOf(log, c)
    BY <1>2, <1>4 DEF MovesOK
  <2>8. SumFunctionOnSet(f, Docs) \in Int /\ level[c] \in Int /\ Opening[c] \in Int
    BY <1>3, <2>3, SumType, DocsAssumption, StockAssumption
  <2>9. SumFunctionOnSet(g, Docs) = SumFunction([e \in Docs |-> ChangeOf(moves'[e], c)])
    BY <2>1 DEF SumFunction
  <2>10. SumFunctionOnSet(g, Docs) = SumFunctionOnSet(f, Docs) + ChangeOf(log, c)
    <3>1. PICK p, q, r : p = SumFunctionOnSet(f, Docs) /\ q = ChangeOf(s, c) /\ r = ChangeOf(log, c)
      OBVIOUS
    <3>2. p \in Int /\ q \in Int /\ r \in Int
      BY <2>5, <2>8, <3>1
    <3>3. SumFunctionOnSet(g, Docs) = p + (q + r) - q
      BY <2>4, <2>5, <2>6, <3>1
    <3> QED
      BY <3>1, <3>2, <3>3
  <2> QED
    BY <2>2, <2>5, <2>7, <2>8, <2>9, <2>10
<1> QED
  BY <1>6, <1>7, <1>8 DEF StockIsMovements

\* The other transactions find what they hold as it was.
LEMMA CommitKeepsOthers ==
  ASSUME StockInv, NEW t \in Txns, Commit(t), NEW u \in Txns, u # t
  PROVE  TxOK(tx[u])'
<1>1. PICK y, d, z : y = tx[t] /\ d = y.doc /\ z = tx[u] /\ z = tx'[u]
  <2>1. tx'[u] = tx[u]
    BY DEF Commit, End, StockInv, Functional
  <2> QED
    BY <2>1
<1>2. ShapeOK(z) /\ LocksOK(z) /\ SnapshotOK(z) /\ MovesOK(z) /\ Apart(y, z) /\ Apart(z, y)
  BY <1>1 DEF StockInv, TxOK
<1>3. /\ d \in Docs /\ Kind(d) = About(y.op) /\ ShapeOK(y) /\ LocksOK(y) /\ MovesOK(y)
      /\ \/ y.pc = "move" /\ y.op \in Locking /\ status[d] \in From[y.op]
         \/ y.pc = "counted" /\ y.op = "RecordCount"
         \/ y.pc = "run" /\ y.op = "OpenCount" /\ status[d] = "absent"
      /\ level' = Sees(y)
      /\ lines' = [lines EXCEPT ![d] = Over(y.rows, @)]
      /\ status' = IF y.op = "RecordCount" THEN status ELSE [status EXCEPT ![d] = To[y.op]]
  <2>1. CommitOf(t, y, d)
    BY <1>1, CommitParts
  <2> QED
    BY <2>1 DEF CommitOf
<1>4. ShapeOK(z)' /\ SnapshotOK(z)'
  BY <1>2 DEF ShapeOK, SnapshotOK
<1>5. /\ lines'[d] = Over(y.rows, lines[d]) /\ \A e \in Docs \ {d} : lines'[e] = lines[e] /\ status'[e] = status[e]
      /\ status'[d] = IF y.op = "RecordCount" THEN status[d] ELSE To[y.op]
  BY <1>3 DEF StockInv, Functional
<1>6. To[y.op] # "absent" \/ y.op = "RecordCount"
  BY <1>3 DEF ShapeOK, To
<1>7. z.pc # "idle" => z.doc \in Docs
  BY <1>2 DEF ShapeOK
<1>8. z.pc # "idle" /\ y.op = "OpenCount" /\ y.pc = "run" => z.doc # d
  BY <1>1, <1>2 DEF Apart
<1>9. z.pc \in {"list", "lock", "move"} => z.doc # d \/ y.op = "RecordCount"
  BY <1>1, <1>2, <1>3, <1>8 DEF Apart
<1>10. DOMAIN lines[d] \subseteq DOMAIN lines'[d] /\ (\A c \in DOMAIN lines[d] \ DOMAIN y.rows : lines'[d][c] = lines[d][c])
  BY <1>5 DEF Over
<1>11. y.op = "RecordCount" => y.rows = <<>> \/ y.pc = "counted"
  BY <1>3 DEF ShapeOK, Locking
<1>12. LocksOK(z)'
  <2>1. z.pc = "run" /\ z.op = "OpenCount" => status'[z.doc] = "absent"
    <3> SUFFICES ASSUME z.pc = "run", z.op = "OpenCount" PROVE status'[z.doc] = "absent"
      OBVIOUS
    <3>1. z.doc # d /\ status[z.doc] = "absent"
      BY <1>1, <1>2, <1>3 DEF Apart, LocksOK
    <3> QED
      BY <1>5, <1>7, <3>1
  <2>2. z.pc # "idle" /\ z.op # "OpenCount" => status'[z.doc] # "absent"
    BY <1>2, <1>5, <1>6, <1>7 DEF LocksOK
  <2>3. z.pc \in {"list", "lock", "move"} => status'[z.doc] \in From[z.op]
    <3> SUFFICES ASSUME z.pc \in {"list", "lock", "move"} PROVE status'[z.doc] \in From[z.op]
      OBVIOUS
    <3>1. status[z.doc] \in From[z.op] /\ z.doc \in Docs
      BY <1>2, <1>7 DEF LocksOK
    <3>2. status'[z.doc] = status[z.doc]
      BY <1>5, <1>9, <3>1
    <3> QED
      BY <3>1, <3>2
  <2>4. z.pc = "lock" => z.todo \subseteq DOMAIN lines'[z.doc]
    BY <1>2, <1>5, <1>7, <1>10 DEF LocksOK
  <2>5. ASSUME z.pc = "counted"
        PROVE  z.rows = [c \in {z.line} |-> [lines'[z.doc][c] EXCEPT !.cnt = z.amt]]
    <3>1. z.rows = [c \in {z.line} |-> [lines[z.doc][c] EXCEPT !.cnt = z.amt]] /\ z.op = "RecordCount" /\ z.doc \in Docs
      BY <1>2, <1>7, <2>5 DEF LocksOK, ShapeOK
    <3>2. lines'[z.doc][z.line] = lines[z.doc][z.line]
      <4>1. CASE z.doc # d
        BY <1>5, <3>1, <4>1
      <4>2. CASE z.doc = d
        <5>1. z.line \in DOMAIN lines[d]
          <6>1. Kind(d) = "count" /\ status[d] # "absent" /\ z.line \in DOMAIN Doc[d].cells
            BY <1>2, <2>5, <3>1, <4>2 DEF LocksOK, ShapeOK, About
          <6> QED
            BY <1>3, <6>1 DEF StockInv, DocOK
        <5>2. z.line \notin DOMAIN y.rows
          <6>1. z.line \in DOMAIN z.rows
            BY <3>1
          <6>2. CASE y.op \in {"RecordCount", "AdjustCount"}
            BY <1>1, <1>2, <3>1, <4>2, <6>1, <6>2 DEF Apart
          <6>3. CASE y.op \notin {"RecordCount", "AdjustCount"}
            <7>1. y.pc # "run"
              BY <1>3, <1>8, <2>5, <4>2
            <7>2. y.rows = <<>>
              BY <1>3, <6>3, <7>1 DEF ShapeOK
            <7> QED
              BY <7>2, EmptyChange
          <6> QED
            BY <6>2, <6>3
        <5> QED
          BY <1>10, <4>2, <5>1, <5>2
      <4> QED
        BY <4>1, <4>2
    <3> QED
      BY <3>1, <3>2
  <2>6. ASSUME z.pc = "move", z.op = "AdjustCount"
        PROVE  /\ DOMAIN z.rows \subseteq DOMAIN lines'[z.doc]
               /\ \A c \in DOMAIN z.rows : /\ Variance(lines'[z.doc][c]) # 0
                                           /\ z.rows[c] = [lines'[z.doc][c] EXCEPT !.adj = TRUE]
    <3>1. /\ z.doc \in Docs /\ DOMAIN z.rows \subseteq DOMAIN lines[z.doc]
          /\ \A c \in DOMAIN z.rows : /\ Variance(lines[z.doc][c]) # 0
                                      /\ z.rows[c] = [lines[z.doc][c] EXCEPT !.adj = TRUE]
      BY <1>2, <1>7, <2>6 DEF LocksOK
    <3>2. CASE z.doc # d
      BY <1>5, <3>1, <3>2
    <3>3. CASE z.doc = d
      <4>1. y.op = "RecordCount"
        BY <1>9, <2>6, <3>3
      <4>2. DOMAIN y.rows \cap DOMAIN z.rows = {}
        BY <1>1, <1>2, <2>6, <3>3, <4>1 DEF Apart
      <4>3. \A c \in DOMAIN z.rows : lines'[z.doc][c] = lines[z.doc][c]
        BY <1>10, <3>1, <3>3, <4>2
      <4> QED
        BY <1>10, <3>1, <3>3, <4>3
    <3> QED
      BY <3>2, <3>3
  <2> QED
    BY <2>1, <2>2, <2>3, <2>4, <2>5, <2>6 DEF LocksOK
<1>13. MovesOK(z)'
  <2>1. DOMAIN z.held \cap DOMAIN y.held = {}
    BY <1>2 DEF Apart
  <2>2. level \in [Cells -> Nat] /\ level' \in [Cells -> Nat]
    BY CommitKeepsSum DEF StockInv, Functional
  <2>3. \A c \in Cells \ DOMAIN y.held : level'[c] = level[c]
    BY <1>3, <2>2 DEF Sees, Over
  <2>4. ASSUME NEW c \in Cells
        PROVE  Sees(z)'[c] \in Nat /\ Sees(z)'[c] = level'[c] + ChangeOf(z.log, c)
    <3>1. Sees(z)[c] \in Nat /\ Sees(z)[c] = level[c] + ChangeOf(z.log, c)
      BY <1>2 DEF MovesOK
    <3>2. CASE c \in DOMAIN z.held
      <4>1. level'[c] = level[c]
        BY <2>1, <2>3, <3>2
      <4>2. Sees(z)'[c] = z.held[c] /\ Sees(z)[c] = z.held[c]
        BY <3>2 DEF Sees, Over
      <4> QED
        BY <3>1, <4>1, <4>2
    <3>3. CASE c \notin DOMAIN z.held
      <4>1. Sees(z)'[c] = level'[c] /\ Sees(z)[c] = level[c]
        BY <2>2, <3>3 DEF Sees, Over
      <4>2. ChangeOf(z.log, c) \in Int
        <5>1. z.log \in Seq(Movement)
          <6>1. <<>> \in Seq(Movement)
            OBVIOUS
          <6> QED
            BY <1>2, <6>1 DEF MovesOK, ShapeOK
        <5> QED
          BY <5>1, ChangeTyped
      <4>3. level[c] \in Nat /\ level'[c] \in Nat
        BY <2>2
      <4>4. ChangeOf(z.log, c) = 0
        BY <3>1, <4>1, <4>2, <4>3
      <4> QED
        BY <4>1, <4>3, <4>4
    <3> QED
      BY <3>2, <3>3
  <2> QED
    BY <1>2, <2>4 DEF MovesOK, Plans
<1> QED
  BY <1>1, <1>4, <1>12, <1>13 DEF TxOK

\* A sequence and one element more: its front and its last element.
LEMMA FrontAndLast ==
  ASSUME NEW S, NEW s \in Seq(S), NEW m \in S
  PROVE  Front(s \o <<m>>) = s /\ Last(s \o <<m>>) = m /\ s \o <<m>> # <<>>
<1>1. PICK q, n : q = s \o <<m>> /\ n = Len(s)
  OBVIOUS
<1>2. /\ q \in Seq(S) /\ q # <<>> /\ Len(q) = n + 1 /\ n \in Nat /\ q[n + 1] = m
      /\ \A i \in 1 .. n : q[i] = s[i] /\ s[i] \in S
  <2>1. Append(s, m) = q /\ n \in Nat
    BY <1>1, AppendIsConcat
  <2>2. \A i \in 1 .. n : s[i] \in S
    BY <1>1
  <2> QED
    BY <1>1, <2>1, <2>2, AppendProperties
<1>3. /\ SubSeq(q, 1, n) \in Seq(S) /\ Len(SubSeq(q, 1, n)) = n
      /\ \A i \in 1 .. n : SubSeq(q, 1, n)[i] = q[i]
  <2>1. \A i \in 1 .. n : q[i] \in S
    BY <1>2
  <2>2. /\ SubSeq(q, 1, n) \in Seq(S) /\ Len(SubSeq(q, 1, n)) = (IF 1 <= n THEN n - 1 + 1 ELSE 0)
        /\ \A i \in 1 .. n - 1 + 1 : SubSeq(q, 1, n)[i] = q[1 + i - 1]
    BY <1>2, <2>1, SubSeqProperties
  <2>3. n - 1 + 1 = n /\ \A i \in 1 .. n : 1 + i - 1 = i
    BY <1>2
  <2> QED
    BY <1>2, <2>2, <2>3
<1>4. SubSeq(q, 1, n) = s
  <2>1. \A i \in 1 .. n : SubSeq(q, 1, n)[i] = s[i]
    BY <1>2, <1>3
  <2> QED
    BY <1>1, <1>3, <2>1, SeqEqual
<1>5. Len(q) - 1 = n
  BY <1>2
<1> QED
  BY <1>1, <1>2, <1>4, <1>5 DEF Front, Last

\* The value of movements is a number; no movements have none.
LEMMA ValueTyped ==
  ASSUME NEW ms \in Seq(Movement)
  PROVE  Value(ms) \in Int /\ Value(<<>>) = 0
<1>1. PICK f : f = [n \in DOMAIN ms |-> ms[n].change * Cost[ms[n].cell]]
  OBVIOUS
<1>2. DOMAIN ms = 1 .. Len(ms) /\ Len(ms) \in Nat /\ IsFiniteSet(1 .. Len(ms))
  BY FS_Interval
<1>3. ASSUME NEW n \in DOMAIN ms
      PROVE  f[n] \in Int
  <2>0. ms[n] \in Movement
    BY <1>2
  <2>1. ms[n].change \in Int /\ ms[n].cell \in Cells
    BY <2>0 DEF Movement
  <2>2. Cost[ms[n].cell] \in Int
    BY <2>1, StockAssumption
  <2> QED
    BY <1>1, <2>1, <2>2
<1>4. Value(ms) = SumFunctionOnSet(f, DOMAIN ms)
  BY <1>1 DEF Value, SumFunction
<1>5. Value(<<>>) = 0
  <2>1. ASSUME NEW g, DOMAIN g = {}
        PROVE  SumFunction(g) = 0
    BY <2>1, FS_EmptySet, SumRecursion DEF SumFunction
  <2> QED
    BY <2>1, EmptyChange DEF Value
<1> QED
  BY <1>2, <1>3, <1>4, <1>5, SumType

\* A commit leaves everything about the other documents.
LEMMA CommitKeepsRest ==
  ASSUME StockInv, NEW t \in Txns, Commit(t), NEW e \in Docs, e # tx[t].doc
  PROVE  DocOK(e)' /\ MovesMatchStatus(e)' /\ BooksFollowStock(e)'
<1>1. PICK y, d : y = tx[t] /\ d = y.doc
  OBVIOUS
<1>2. CommitOf(t, y, d)
  BY <1>1, CommitParts
<1>3. /\ moves'[e] = moves[e] /\ issues'[e] = issues[e] /\ lines'[e] = lines[e] /\ books'[e] = books[e]
      /\ status'[e] = status[e]
  BY <1>1, <1>2 DEF CommitOf, StockInv, Functional
<1>4. DocOK(e) /\ MovesMatchStatus(e) /\ BooksFollowStock(e)
  BY DEF StockInv, DocumentsTellTheTruth
<1>5. DocOK(e)'
  BY <1>3, <1>4 DEF DocOK
<1>6. MovesMatchStatus(e)'
  BY <1>3, <1>4 DEF MovesMatchStatus
<1>7. BooksFollowStock(e)'
  BY <1>3, <1>4 DEF BooksFollowStock
<1> QED
  BY <1>5, <1>6, <1>7

\* What a commit makes of its own document.
CommitWrites(y, d, s, log, l, post) ==
    /\ d \in Docs /\ y.doc = d /\ Kind(d) = About(y.op) /\ DocOK(d) /\ MovesMatchStatus(d) /\ BooksFollowStock(d)
    /\ s = moves[d] /\ log = y.log /\ l = lines[d] /\ s \in Seq(Movement) /\ log \in Seq(Movement) /\ books[d] \in Int
    /\ moves'[d] = s \o log /\ lines'[d] = Over(y.rows, l) /\ books'[d] = books[d] + post
    /\ issues'[d] = IF y.op = "StartProductionOrder" THEN log ELSE issues[d]
    /\ status'[d] = IF y.op = "RecordCount" THEN status[d] ELSE To[y.op]
    /\ (<<>> \o log = log) /\ (s \o <<>> = s)

\* CommitWrites describes the commit of every transaction.
LEMMA CommitIsSo ==
  ASSUME StockInv, NEW t \in Txns, Commit(t), NEW y, y = tx[t], NEW d, d = y.doc
  PROVE  CommitOf(t, y, d) /\ CommitWrites(y, d, moves[d], y.log, lines[d], Posted(t))
<1>1. CommitOf(t, y, d)
  BY CommitParts
<1>2. d \in Docs /\ Kind(d) = About(y.op) /\ y.log \in Seq(Movement)
  BY <1>1 DEF CommitOf
<1>3. DocOK(d) /\ MovesMatchStatus(d) /\ BooksFollowStock(d)
  BY <1>2 DEF StockInv, DocumentsTellTheTruth
<1>4. moves[d] \in Seq(Movement) /\ books[d] \in Int
  BY <1>2 DEF StockInv, Functional
<1>5. /\ moves'[d] = moves[d] \o y.log /\ lines'[d] = Over(y.rows, lines[d]) /\ books'[d] = books[d] + Posted(t)
      /\ issues'[d] = (IF y.op = "StartProductionOrder" THEN y.log ELSE issues[d])
      /\ status'[d] = (IF y.op = "RecordCount" THEN status[d] ELSE To[y.op])
  BY <1>1, <1>2 DEF CommitOf, StockInv, Functional
<1>6. PICK p, q : p = moves[d] /\ q = y.log
  OBVIOUS
<1>7. (<<>> \o q = q) /\ (p \o <<>> = p)
  BY <1>2, <1>4, <1>6, ConcatEmptySeq
<1> QED
  BY <1>1, <1>2, <1>3, <1>4, <1>5, <1>6, <1>7 DEF CommitWrites

\* Transfers and production orders.
LEMMA CommitTransfer ==
  ASSUME NEW y, NEW d, NEW s, NEW log, NEW l, CommitWrites(y, d, s, log, l, 0),
         y.op \in {"CompleteTransfer", "CancelTransfer"}, Plans(y, log), status[d] \in From[y.op], y.rows = <<>>
  PROVE  DocOK(d)' /\ MovesMatchStatus(d)' /\ BooksFollowStock(d)'
<1>1. Kind(d) = "transfer" /\ status[d] = "draft" /\ s = <<>> /\ books[d] = 0 /\ DOMAIN l = {}
  <2>1. Kind(d) = "transfer" /\ status[d] = "draft"
    BY DEF CommitWrites, About, From
  <2>2. moves[d] = <<>>
    BY <2>1 DEF CommitWrites, MovesMatchStatus
  <2>3. books[d] = 0
    BY <2>1 DEF CommitWrites, BooksFollowStock
  <2>4. DOMAIN lines[d] = {}
    BY <2>1 DEF CommitWrites, DocOK
  <2> QED
    BY <2>1, <2>2, <2>3, <2>4 DEF CommitWrites
<1>2. DOMAIN lines'[d] = {} /\ books'[d] = 0 /\ moves'[d] = log
  <2>1. y.rows = <<>> /\ lines'[d] = Over(y.rows, l)
    BY DEF CommitWrites
  <2>2. DOMAIN Over(y.rows, l) = DOMAIN y.rows \cup DOMAIN l
    BY DEF Over
  <2>3. DOMAIN lines'[d] = {}
    BY <1>1, <2>1, <2>2, EmptyChange
  <2>4. books'[d] = 0
    BY <1>1 DEF CommitWrites
  <2>5. moves'[d] = log
    BY <1>1 DEF CommitWrites
  <2> QED
    BY <2>3, <2>4, <2>5
<1>3. status'[d] \in {"completed", "cancelled"} /\ (status'[d] = "completed" <=> y.op = "CompleteTransfer")
  BY DEF CommitWrites, To
<1>4. DocOK(d)'
  BY <1>1, <1>2, <1>3 DEF DocOK
<1>5. MovesMatchStatus(d)'
  BY <1>1, <1>2, <1>3 DEF MovesMatchStatus, Plans, CommitWrites
<1>6. BooksFollowStock(d)'
  BY <1>1, <1>2 DEF BooksFollowStock
<1> QED
  BY <1>4, <1>5, <1>6

\* A started order has moved its parts, a completed one its product too and posted the parts, a
\* cancelled one keeps what it moved.
LEMMA CommitOrder ==
  ASSUME NEW y, NEW d, NEW s, NEW log, NEW l, NEW post, CommitWrites(y, d, s, log, l, post),
         y.op \in {"StartProductionOrder", "CompleteProductionOrder", "CancelProductionOrder"},
         post = IF y.op = "CompleteProductionOrder" THEN -Value(issues[d]) ELSE 0,
         Plans(y, log), status[d] \in From[y.op], y.rows = <<>>
  PROVE  DocOK(d)' /\ MovesMatchStatus(d)' /\ BooksFollowStock(d)'
<1>1. Kind(d) = "order" /\ status[d] \in {"planned", "in_progress"} /\ books[d] = 0 /\ DOMAIN l = {}
  <2>1. Kind(d) = "order" /\ status[d] \in {"planned", "in_progress"}
    BY DEF CommitWrites, About, From
  <2>2. books[d] = 0
    BY <2>1 DEF CommitWrites, BooksFollowStock
  <2>3. DOMAIN lines[d] = {}
    BY <2>1 DEF CommitWrites, DocOK
  <2> QED
    BY <2>1, <2>2, <2>3 DEF CommitWrites
<1>2. DOMAIN lines'[d] = {}
  <2>1. y.rows = <<>> /\ lines'[d] = Over(y.rows, l)
    BY DEF CommitWrites
  <2>2. DOMAIN Over(y.rows, l) = DOMAIN y.rows \cup DOMAIN l
    BY DEF Over
  <2> QED
    BY <1>1, <2>1, <2>2, EmptyChange
<1>3. /\ status[d] = "planned" => s = <<>>
      /\ status[d] = "in_progress" => s \in InAnyOrder(Parts(d)) /\ issues[d] = s
  BY <1>1 DEF CommitWrites, MovesMatchStatus, DocOK
<1>4. CASE y.op = "StartProductionOrder"
  <2>0. status[d] = "planned"
    BY <1>4 DEF From
  <2>1. status'[d] = "in_progress" /\ issues'[d] = log
    BY <1>4 DEF CommitWrites, To
  <2>2. moves'[d] = log
    BY <1>3, <2>0 DEF CommitWrites
  <2>3. books'[d] = 0
    BY <1>1, <1>4 DEF CommitWrites
  <2>4. log \in InAnyOrder(Parts(d))
    BY <1>4 DEF CommitWrites, Plans
  <2> QED
    BY <1>1, <1>2, <2>1, <2>2, <2>3, <2>4 DEF DocOK, MovesMatchStatus, BooksFollowStock
<1>5. CASE y.op = "CancelProductionOrder"
  <2>1. status'[d] = "cancelled" /\ moves'[d] = s /\ books'[d] = 0
    <3>1. log = <<>>
      BY <1>5 DEF Plans
    <3>2. status'[d] = "cancelled"
      BY <1>5 DEF CommitWrites, To
    <3>3. moves'[d] = s
      BY <3>1 DEF CommitWrites
    <3>4. books'[d] = 0
      BY <1>1, <1>5 DEF CommitWrites
    <3> QED
      BY <3>2, <3>3, <3>4
  <2>2. MovesMatchStatus(d)'
    BY <1>1, <1>3, <2>1 DEF MovesMatchStatus
  <2> QED
    BY <1>1, <1>2, <2>1, <2>2 DEF DocOK, BooksFollowStock
<1>6. CASE y.op = "CompleteProductionOrder"
  <2>1. status[d] = "in_progress"
    BY <1>6 DEF From
  <2>2. PICK m : m = [cell |-> Doc[d].out, change |-> y.amt]
    OBVIOUS
  <2>3. log = <<m>> /\ y.amt > 0 /\ m.cell = Doc[d].out /\ m.change = y.amt
    BY <1>6, <2>2 DEF Plans, CommitWrites
  <2>4. m \in Movement /\ s \in Seq(Movement)
    <3>1. log \in Seq(Movement) /\ log[1] = m /\ Len(log) = 1
      BY <2>3 DEF CommitWrites
    <3> QED
      BY <3>1 DEF CommitWrites
  <2>5. Front(s \o <<m>>) = s /\ Last(s \o <<m>>) = m /\ s \o <<m>> # <<>>
    BY <2>4, FrontAndLast
  <2>6. status'[d] = "completed" /\ moves'[d] = s \o <<m>>
    BY <1>6, <2>3 DEF CommitWrites, To
  <2>7. books'[d] = -Value(s)
    <3>1. Value(s) \in Int
      BY <2>4, ValueTyped
    <3>2. books'[d] = 0 + (-Value(s))
      BY <1>1, <1>3, <1>6, <2>1 DEF CommitWrites
    <3> QED
      BY <3>1, <3>2
  <2>8. MovesMatchStatus(d)'
    BY <1>1, <1>3, <2>1, <2>3, <2>5, <2>6 DEF MovesMatchStatus
  <2>9. BooksFollowStock(d)'
    BY <1>1, <2>5, <2>6, <2>7 DEF BooksFollowStock
  <2>10. DocOK(d)'
    BY <1>1, <1>2, <2>6 DEF DocOK
  <2> QED
    BY <2>8, <2>9, <2>10
<1> QED
  BY <1>4, <1>5, <1>6

\* A count that moves nothing.
LEMMA CommitQuietCount ==
  ASSUME NEW y, NEW d, NEW s, NEW l, CommitWrites(y, d, s, <<>>, l, 0), Kind(d) = "count", y.op \in {"CloseCount", "RecordCount"},
         status[d] # "absent", status[d] \in {"open", "completed"},
         DOMAIN lines'[d] = DOMAIN l, \A c \in DOMAIN l : lines'[d][c] \in Line /\ lines'[d][c].adj = l[c].adj,
         status'[d] \in {"open", "completed"}, status[d] = "completed" => status'[d] = "completed"
  PROVE  DocOK(d)' /\ MovesMatchStatus(d)' /\ BooksFollowStock(d)'
<1>1. moves'[d] = s /\ books'[d] = books[d] /\ s = moves[d] /\ l = lines[d]
  <2>1. moves'[d] = s \o <<>> /\ (s \o <<>> = s)
    BY DEF CommitWrites
  <2>2. books'[d] = books[d] + 0 /\ books[d] \in Int
    BY DEF CommitWrites
  <2> QED
    BY <2>1, <2>2 DEF CommitWrites
<1>2. DocOK(d)'
  <2>1. DOMAIN l = DOMAIN Doc[d].cells
    BY <1>1 DEF CommitWrites, DocOK
  <2>2. \A c \in DOMAIN l : status[d] # "completed" => ~l[c].adj
    BY <1>1 DEF CommitWrites, DocOK
  <2> QED
    BY <2>1, <2>2 DEF DocOK
<1>3. MovesMatchStatus(d)'
  <2>1. PICK A : A = {n \in DOMAIN l : l[n].adj}
    OBVIOUS
  <2>2. /\ status[d] # "completed" => s = <<>>
        /\ [n \in DOMAIN s |-> s[n].cell] \in InAnyOrder([n \in A |-> Doc[d].cells[n]])
    BY <1>1, <2>1 DEF CommitWrites, MovesMatchStatus
  <2>3. A = {n \in DOMAIN lines'[d] : lines'[d][n].adj}
    BY <2>1
  <2> QED
    BY <1>1, <2>2, <2>3 DEF MovesMatchStatus
<1>4. BooksFollowStock(d)'
  <2>1. books[d] = Value(s)
    BY <1>1 DEF CommitWrites, BooksFollowStock
  <2> QED
    BY <1>1, <2>1 DEF BooksFollowStock
<1> QED
  BY <1>2, <1>3, <1>4

\* A count that is closed as it is.
LEMMA CommitClose ==
  ASSUME NEW y, NEW d, NEW s, NEW log, NEW l, CommitWrites(y, d, s, log, l, 0),
         y.op = "CloseCount", Plans(y, log), status[d] = "open", y.rows = <<>>
  PROVE  DocOK(d)' /\ MovesMatchStatus(d)' /\ BooksFollowStock(d)'
<1>1. Kind(d) = "count" /\ log = <<>>
  BY DEF CommitWrites, About, Plans
<1>2. status'[d] = "completed" /\ l = lines[d] /\ lines'[d] = Over(y.rows, l)
  BY DEF CommitWrites, To
<1>3. DOMAIN lines'[d] = DOMAIN l /\ \A c \in DOMAIN l : lines'[d][c] = l[c]
  BY <1>2, EmptyChange DEF Over
<1>4. \A c \in DOMAIN l : l[c] \in Line
  BY <1>2 DEF CommitWrites, DocOK
<1> QED
  BY <1>1, <1>2, <1>3, <1>4, CommitQuietCount

\* A line that was counted, in an open session or in one closed meanwhile.
LEMMA CommitRecord ==
  ASSUME NEW y, NEW d, NEW s, NEW l, CommitWrites(y, d, s, <<>>, l, 0), y.op = "RecordCount", status[d] # "absent",
         y.rows = [c \in {y.line} |-> [l[c] EXCEPT !.cnt = y.amt]], y.line \in DOMAIN Doc[d].cells, y.amt \in Nat
  PROVE  DocOK(d)' /\ MovesMatchStatus(d)' /\ BooksFollowStock(d)'
<1>1. Kind(d) = "count"
  BY DEF CommitWrites, About
<1>2. status'[d] = status[d] /\ l = lines[d] /\ lines'[d] = Over(y.rows, l)
  BY DEF CommitWrites
<1>3. DOMAIN l = DOMAIN Doc[d].cells /\ (\A c \in DOMAIN l : l[c] \in Line) /\ status[d] \in {"open", "completed"}
  BY <1>1, <1>2 DEF CommitWrites, DocOK
<1>4. DOMAIN lines'[d] = DOMAIN l
  BY <1>2, <1>3 DEF Over
<1>5. ASSUME NEW c \in DOMAIN l
      PROVE  lines'[d][c] \in Line /\ lines'[d][c].adj = l[c].adj
  <2>1. CASE c = y.line
    <3>1. lines'[d][c] = [l[c] EXCEPT !.cnt = y.amt]
      BY <1>2, <2>1 DEF Over
    <3> QED
      BY <1>3, <3>1 DEF Line
  <2>2. CASE c # y.line
    <3>1. lines'[d][c] = l[c]
      BY <1>2, <2>2 DEF Over
    <3> QED
      BY <1>3, <3>1
  <2> QED
    BY <2>1, <2>2
<1>6. /\ y.op \in {"CloseCount", "RecordCount"} /\ status'[d] \in {"open", "completed"}
      /\ status[d] = "completed" => status'[d] = "completed"
      /\ CommitWrites(y, d, s, <<>>, l, 0) /\ status[d] # "absent" /\ status[d] \in {"open", "completed"}
  BY <1>2, <1>3
<1>7. \A c \in DOMAIN l : lines'[d][c] \in Line /\ lines'[d][c].adj = l[c].adj
  BY <1>5
<1> QED
  BY <1>1, <1>4, <1>6, <1>7, CommitQuietCount

\* A count that is opened has all of its lines and has moved nothing.
LEMMA CommitOpen ==
  ASSUME NEW y, NEW d, NEW s, NEW l, CommitWrites(y, d, s, <<>>, l, 0), y.op = "OpenCount", status[d] = "absent",
         y.pc = "run", SnapshotOK(y), Len(y.rows) = Len(Doc[d].cells)
  PROVE  DocOK(d)' /\ MovesMatchStatus(d)' /\ BooksFollowStock(d)'
<1>1. Kind(d) = "count" /\ d \in Docs /\ y.doc = d
  BY DEF CommitWrites, About
<1>2. DOMAIN y.rows = DOMAIN Doc[d].cells /\ \A c \in DOMAIN y.rows : y.rows[c] \in Line /\ ~y.rows[c].adj
  <2>1. PICK q : q = y.rows /\ q \in Seq(Fresh)
    BY DEF SnapshotOK
  <2>2. DOMAIN q = 1 .. Len(q) /\ \A c \in DOMAIN q : q[c] \in Fresh
    BY <2>1
  <2>3. DOMAIN q = DOMAIN Doc[d].cells
    BY <1>1, <2>1, <2>2, CountedLines
  <2> QED
    BY <2>1, <2>2, <2>3 DEF Fresh
<1>3. DOMAIN l = {} /\ l = lines[d] /\ s = <<>> /\ s = moves[d] /\ books[d] = Value(<<>>)
  <2>1. DOMAIN lines[d] = {}
    BY <1>1 DEF CommitWrites, DocOK
  <2>2. moves[d] = <<>>
    BY <1>1 DEF CommitWrites, MovesMatchStatus
  <2>3. books[d] = Value(moves[d])
    BY <1>1 DEF CommitWrites, BooksFollowStock
  <2> QED
    BY <2>1, <2>2, <2>3 DEF CommitWrites
<1>4. moves'[d] = <<>> /\ books'[d] = books[d] /\ status'[d] = "open" /\ lines'[d] = Over(y.rows, l)
  <2>1. moves'[d] = s \o <<>> /\ (s \o <<>> = s)
    BY DEF CommitWrites
  <2>2. books'[d] = books[d] + 0 /\ books[d] \in Int
    BY DEF CommitWrites
  <2>3. status'[d] = "open" /\ lines'[d] = Over(y.rows, l)
    BY DEF CommitWrites, To
  <2> QED
    BY <1>3, <2>1, <2>2, <2>3
<1>5. DOMAIN lines'[d] = DOMAIN Doc[d].cells /\ \A c \in DOMAIN lines'[d] : lines'[d][c] \in Line /\ ~lines'[d][c].adj
  BY <1>2, <1>3, <1>4 DEF Over
<1>6. DocOK(d)'
  BY <1>1, <1>4, <1>5 DEF DocOK
<1>7. MovesMatchStatus(d)'
  <2>1. {c \in DOMAIN lines'[d] : lines'[d][c].adj} = {}
    BY <1>5
  <2>2. [n \in DOMAIN <<>> |-> <<>>[n].cell] \in InAnyOrder([n \in {} |-> Doc[d].cells[n]])
    BY EmptyChange, NothingInOrder
  <2> QED
    BY <1>1, <1>4, <2>1, <2>2 DEF MovesMatchStatus
<1>8. BooksFollowStock(d)'
  BY <1>1, <1>3, <1>4 DEF BooksFollowStock
<1> QED
  BY <1>6, <1>7, <1>8

\* A count that is adjusted has moved the variances of the lines that it marks, and posts their value.
LEMMA CommitAdjust ==
  ASSUME NEW y, NEW d, NEW s, NEW log, NEW l, NEW post, CommitWrites(y, d, s, log, l, post), y.op = "AdjustCount",
         Plans(y, log), status[d] = "open", DOMAIN y.rows \subseteq DOMAIN l,
         \A c \in DOMAIN y.rows : Variance(l[c]) # 0 /\ y.rows[c] = [l[c] EXCEPT !.adj = TRUE],
         post = Value(Adjustments(d, y.rows))
  PROVE  DocOK(d)' /\ MovesMatchStatus(d)' /\ BooksFollowStock(d)'
<1>1. Kind(d) = "count" /\ d \in Docs /\ l = lines[d]
  BY DEF CommitWrites, About
<1>2. PICK R, f : R = DOMAIN y.rows /\ f = Adjustments(d, y.rows)
  OBVIOUS
<1>3. DOMAIN l = DOMAIN Doc[d].cells /\ \A c \in DOMAIN l : l[c] \in Line /\ ~l[c].adj
  BY <1>1 DEF CommitWrites, DocOK
<1>4. R \subseteq DOMAIN Doc[d].cells
  BY <1>2, <1>3
<1>5. \A c \in R : y.rows[c] \in Line /\ y.rows[c].adj
  <2> SUFFICES ASSUME NEW c \in R PROVE y.rows[c] \in Line /\ y.rows[c].adj
    OBVIOUS
  <2>1. l[c] \in Line /\ y.rows[c] = [l[c] EXCEPT !.adj = TRUE]
    BY <1>2, <1>3
  <2> QED
    BY <2>1 DEF Line
<1>6. DOMAIN f = R /\ IsFiniteSet(DOMAIN f) /\ \A n \in DOMAIN f : f[n] \in Movement
  BY <1>1, <1>2, <1>4, <1>5, AdjustmentsTyped
<1>7. log \in InAnyOrder(f)
  BY <1>2 DEF Plans, CommitWrites
<1>8. PICK g : g = [n \in R |-> Doc[d].cells[n]]
  OBVIOUS
<1>9. [n \in DOMAIN log |-> log[n].cell] \in InAnyOrder(g)
  <2>1. g = [n \in DOMAIN f |-> f[n].cell]
    BY <1>2, <1>6, <1>8 DEF Adjustments
  <2> QED
    BY <1>6, <1>7, <2>1, InOrderCells
<1>10. s = <<>> /\ books[d] = 0
  <2>1. s = <<>> /\ s = moves[d]
    BY <1>1 DEF CommitWrites, MovesMatchStatus
  <2>2. <<>> \in Seq(Movement)
    OBVIOUS
  <2>3. books[d] = Value(<<>>)
    BY <1>1, <2>1 DEF CommitWrites, BooksFollowStock
  <2> QED
    BY <2>1, <2>2, <2>3, ValueTyped
<1>11. Value(log) = post
  BY <1>2, <1>6, <1>7, InOrderSums
<1>12. moves'[d] = log /\ books'[d] = Value(log) /\ status'[d] = "completed" /\ lines'[d] = Over(y.rows, l)
  <2>1. moves'[d] = s \o log /\ (<<>> \o log = log) /\ log \in Seq(Movement)
    BY DEF CommitWrites
  <2>2. Value(log) \in Int
    BY <2>1, ValueTyped
  <2>3. books'[d] = books[d] + post
    BY DEF CommitWrites
  <2>4. status'[d] = "completed" /\ lines'[d] = Over(y.rows, l)
    BY DEF CommitWrites, To
  <2>5. books'[d] = Value(log)
    BY <1>10, <1>11, <2>2, <2>3
  <2> QED
    BY <1>10, <2>1, <2>4, <2>5
<1>13. DOMAIN lines'[d] = DOMAIN l /\ \A c \in DOMAIN l : lines'[d][c] \in Line /\ (lines'[d][c].adj <=> c \in R)
  <2>1. DOMAIN lines'[d] = DOMAIN l
    BY <1>12 DEF Over
  <2>2. ASSUME NEW c \in DOMAIN l
        PROVE  lines'[d][c] \in Line /\ (lines'[d][c].adj <=> c \in R)
    <3>1. CASE c \in R
      <4>1. lines'[d][c] = y.rows[c]
        BY <1>2, <1>12, <3>1 DEF Over
      <4> QED
        BY <1>5, <3>1, <4>1
    <3>2. CASE c \notin R
      <4>1. lines'[d][c] = l[c]
        BY <1>2, <1>12, <3>2 DEF Over
      <4> QED
        BY <1>3, <3>2, <4>1
    <3> QED
      BY <3>1, <3>2
  <2> QED
    BY <2>1, <2>2
<1>14. DocOK(d)'
  BY <1>1, <1>3, <1>12, <1>13 DEF DocOK
<1>15. MovesMatchStatus(d)'
  <2>1. {c \in DOMAIN lines'[d] : lines'[d][c].adj} = R
    BY <1>2, <1>13
  <2> QED
    BY <1>1, <1>8, <1>9, <1>12, <2>1 DEF MovesMatchStatus
<1>16. BooksFollowStock(d)'
  BY <1>1, <1>12 DEF BooksFollowStock
<1> QED
  BY <1>14, <1>15, <1>16

\* What a commit posts.
LEMMA PostedTyped ==
  ASSUME StockInv, NEW t \in Txns, Commit(t), NEW y, y = tx[t], NEW d, d = y.doc
  PROVE  /\ Posted(t) \in Int
         /\ Posted(t) = IF y.op = "CompleteProductionOrder" THEN -Value(issues[d])
                        ELSE IF y.op = "AdjustCount"
                             THEN Value(Adjustments(d, y.rows))
                        ELSE 0
<1>1. CommitOf(t, y, d)
  BY CommitParts
<1>2. Posted(t) = IF y.op = "CompleteProductionOrder" THEN -Value(issues[d])
                  ELSE IF y.op = "AdjustCount"
                       THEN Value(Adjustments(d, y.rows))
                  ELSE 0
  BY DEF Posted
<1>3. Value(issues[d]) \in Int
  <2>1. issues[d] \in Seq(Movement)
    BY <1>1 DEF CommitOf, StockInv, Functional
  <2> QED
    BY <2>1, ValueTyped
<1>4. ASSUME y.op = "AdjustCount"
      PROVE  Value(Adjustments(d, y.rows)) \in Int
  <2>1. PICK f : f = Adjustments(d, y.rows)
    OBVIOUS
  <2>2. y.pc = "move" /\ d \in Docs /\ Kind(d) = "count" /\ status[d] = "open" /\ y.log \in Seq(Movement) /\ y.log \in InAnyOrder(f)
    BY <1>1, <1>4, <2>1 DEF CommitOf, About, From, Plans
  <2>3. DOMAIN y.rows \subseteq DOMAIN lines[d] /\ \A c \in DOMAIN y.rows : y.rows[c] = [lines[d][c] EXCEPT !.adj = TRUE]
    BY <1>1, <1>4, <2>2 DEF CommitOf, LocksOK
  <2>4. DOMAIN lines[d] = DOMAIN Doc[d].cells /\ \A c \in DOMAIN lines[d] : lines[d][c] \in Line
    BY <2>2 DEF StockInv, DocOK
  <2>5. \A c \in DOMAIN y.rows : y.rows[c] \in Line
    <3> SUFFICES ASSUME NEW c \in DOMAIN y.rows PROVE y.rows[c] \in Line
      OBVIOUS
    <3>1. lines[d][c] \in Line /\ y.rows[c] = [lines[d][c] EXCEPT !.adj = TRUE]
      BY <2>3, <2>4
    <3> QED
      BY <3>1 DEF Line
  <2>6. IsFiniteSet(DOMAIN f) /\ \A n \in DOMAIN f : f[n] \in Movement
    BY <2>1, <2>2, <2>3, <2>4, <2>5, AdjustmentsTyped
  <2>7. Value(y.log) = Value(f) /\ Value(y.log) \in Int
    BY <2>2, <2>6, InOrderSums, ValueTyped
  <2> QED
    BY <2>1, <2>7
<1> QED
  BY <1>2, <1>3, <1>4

\* A commit leaves the document that it is about as it should be.
LEMMA CommitKeepsOwn ==
  ASSUME StockInv, NEW t \in Txns, Commit(t), NEW d, d = tx[t].doc
  PROVE  DocOK(d)' /\ MovesMatchStatus(d)' /\ BooksFollowStock(d)'
<1>1. PICK y : y = tx[t]
  OBVIOUS
<1>2. CommitOf(t, y, d)
  BY <1>1, CommitParts
<1>3. PICK s, log, l, post : s = moves[d] /\ log = y.log /\ l = lines[d] /\ post = Posted(t)
  OBVIOUS
<1>4. CommitWrites(y, d, s, log, l, post)
  BY <1>1, <1>3, CommitIsSo
<1>5. post = IF y.op = "CompleteProductionOrder" THEN -Value(issues[d])
             ELSE IF y.op = "AdjustCount"
                  THEN Value(Adjustments(d, y.rows))
             ELSE 0
  BY <1>1, <1>3, PostedTyped
<1>6. CASE y.pc = "move" /\ y.op \in Locking /\ Plans(y, y.log) /\ status[d] \in From[y.op]
  <2>1. y.op # "AdjustCount" => y.rows = <<>>
    BY <1>2, <1>6 DEF CommitOf, ShapeOK
  <2>2. CASE y.op \in {"CompleteTransfer", "CancelTransfer"}
    <3>1. post = 0
      BY <1>5, <2>2
    <3>2. y.rows = <<>> /\ Plans(y, log) /\ CommitWrites(y, d, s, log, l, 0)
      BY <1>3, <1>4, <1>6, <2>1, <2>2, <3>1
    <3> QED
      BY <1>6, <2>2, <3>2, CommitTransfer
  <2>3. CASE y.op \in {"StartProductionOrder", "CompleteProductionOrder", "CancelProductionOrder"}
    <3>1. post = IF y.op = "CompleteProductionOrder" THEN -Value(issues[d]) ELSE 0
      BY <1>5, <2>3
    <3>2. y.rows = <<>> /\ Plans(y, log)
      BY <1>3, <1>6, <2>1, <2>3
    <3> QED
      BY <1>4, <1>6, <2>3, <3>1, <3>2, CommitOrder
  <2>4. CASE y.op = "CloseCount"
    <3>1. post = 0 /\ status[d] = "open"
      BY <1>5, <1>6, <2>4 DEF From
    <3>2. y.rows = <<>> /\ Plans(y, log) /\ CommitWrites(y, d, s, log, l, 0)
      BY <1>3, <1>4, <1>6, <2>1, <2>4, <3>1
    <3> QED
      BY <2>4, <3>1, <3>2, CommitClose
  <2>5. CASE y.op = "AdjustCount"
    <3>1. post = Value(Adjustments(d, y.rows)) /\ status[d] = "open"
      BY <1>5, <1>6, <2>5 DEF From
    <3>2. /\ Plans(y, log) /\ DOMAIN y.rows \subseteq DOMAIN l
          /\ \A c \in DOMAIN y.rows : Variance(l[c]) # 0 /\ y.rows[c] = [l[c] EXCEPT !.adj = TRUE]
      BY <1>1, <1>2, <1>3, <1>6, <2>5 DEF CommitOf, LocksOK
    <3> QED
      BY <1>4, <2>5, <3>1, <3>2, CommitAdjust
  <2> QED
    BY <1>6, <2>2, <2>3, <2>4, <2>5 DEF Locking, To
<1>7. CASE y.pc = "counted" /\ y.op = "RecordCount" /\ y.log = <<>>
  <2>1. post = 0
    BY <1>5, <1>7
  <2>2. CommitWrites(y, d, s, <<>>, l, 0)
    BY <1>3, <1>4, <1>7, <2>1
  <2>3. /\ status[d] # "absent" /\ y.rows = [c \in {y.line} |-> [l[c] EXCEPT !.cnt = y.amt]]
    BY <1>1, <1>2, <1>3, <1>7 DEF CommitOf, LocksOK
  <2>4. y.line \in DOMAIN Doc[d].cells /\ y.amt \in Nat
    BY <1>1, <1>2, <1>7 DEF CommitOf, ShapeOK
  <2> QED
    BY <1>7, <2>2, <2>3, <2>4, CommitRecord
<1>8. CASE /\ y.pc = "run" /\ y.op = "OpenCount" /\ y.log = <<>> /\ status[d] = "absent"
           /\ Len(y.rows) = Len(Doc[d].cells)
  <2>1. post = 0
    BY <1>5, <1>8
  <2>2. CommitWrites(y, d, s, <<>>, l, 0) /\ SnapshotOK(y)
    BY <1>2, <1>3, <1>4, <1>8, <2>1 DEF CommitOf
  <2> QED
    BY <1>8, <2>2, CommitOpen
<1> QED
  BY <1>2, <1>6, <1>7, <1>8 DEF CommitOf

\* A commit keeps the invariant.
LEMMA CommitKeepsInv ==
  ASSUME StockInv, NEW t \in Txns, Commit(t)
  PROVE  StockInv'
<1>1. PICK y, d : y = tx[t] /\ d = y.doc
  OBVIOUS
<1>2. CommitOf(t, y, d)
  BY <1>1, CommitParts
<1>3. ASSUME NEW e \in Docs
      PROVE  DocOK(e)' /\ MovesMatchStatus(e)' /\ BooksFollowStock(e)'
  <2>1. CASE e = d
    BY <1>1, <2>1, CommitKeepsOwn
  <2>2. CASE e # d
    BY <1>1, <2>2, CommitKeepsRest
  <2> QED
    BY <2>1, <2>2
<1>4. StockIsMovements' /\ level' \in [Cells -> Nat] /\ moves' \in [Docs -> Seq(Movement)]
  BY CommitKeepsSum
<1>5. Functional'
  <2>1. d \in Docs /\ y.log \in Seq(Movement) /\ tx' = [tx EXCEPT ![t] = Idle]
        /\ issues' = (IF y.op = "StartProductionOrder" THEN [issues EXCEPT ![d] = y.log] ELSE issues)
        /\ lines' = [lines EXCEPT ![d] = Over(y.rows, @)]
        /\ books' = [books EXCEPT ![d] = @ + Posted(t)]
        /\ status' = (IF y.op = "RecordCount" THEN status ELSE [status EXCEPT ![d] = To[y.op]])
    BY <1>2 DEF CommitOf
  <2>2. Posted(t) \in Int
    BY <1>1, PostedTyped
  <2>3. /\ books \in [Docs -> Int] /\ status = [e \in Docs |-> status[e]] /\ issues \in [Docs -> Seq(Movement)]
        /\ lines = [e \in Docs |-> lines[e]] /\ tx = [u \in Txns |-> tx[u]]
    BY DEF StockInv, Functional
  <2>4. books' \in [Docs -> Int]
    BY <2>1, <2>2, <2>3
  <2>5. issues' \in [Docs -> Seq(Movement)]
    BY <2>1, <2>3
  <2>6. status' = [e \in Docs |-> status'[e]] /\ lines' = [e \in Docs |-> lines'[e]] /\ tx' = [u \in Txns |-> tx'[u]]
    BY <2>1, <2>3
  <2> QED
    BY <1>4, <2>4, <2>5, <2>6 DEF Functional
<1>6. tx'[t] = Idle /\ \A u \in Txns \ {t} : tx'[u] = tx[u]
  BY <1>2 DEF CommitOf, StockInv, Functional
<1>7. TxOK(tx[t])'
  <2>1. PICK z : z = Idle
    OBVIOUS
  <2>2. /\ z.pc = "idle" /\ z.held = <<>> /\ z.log = <<>> /\ z.rows = <<>> /\ z.amt = 0
        /\ z = [pc |-> z.pc, op |-> z.op, doc |-> z.doc, line |-> z.line, amt |-> z.amt,
                todo |-> z.todo, held |-> z.held, log |-> z.log, rows |-> z.rows]
    BY <2>1 DEF Idle
  <2>3. ShapeOK(z)' /\ LocksOK(z)' /\ SnapshotOK(z)'
    BY <2>1, <2>2 DEF ShapeOK, LocksOK, SnapshotOK, Idle
  <2>4. \A c \in Cells : Sees(z)'[c] = level'[c]
    BY <1>4, <2>2, EmptyChange DEF Sees, Over
  <2>5. MovesOK(z)'
    BY <1>4, <2>2, <2>4, EmptyChange DEF MovesOK
  <2>6. z = tx'[t]
    BY <1>6, <2>1
  <2> QED
    BY <2>3, <2>5, <2>6 DEF TxOK
<1>8. \A u \in Txns : TxOK(tx[u])'
  BY <1>7, CommitKeepsOthers
<1>9. \A u, v \in Txns : u # v => Apart(tx[u], tx[v])'
  <2>1. \A u \in Txns : TxOK(tx[u]) /\ Apart(Idle, tx[u]) /\ Apart(tx[u], Idle)
    BY IdleOK DEF StockInv
  <2>2. \A u, v \in Txns : u # v => Apart(tx[u], tx[v])
    BY DEF StockInv
  <2>3. \A u, v \in Txns : u # v => Apart(tx'[u], tx'[v])
    BY <1>6, <2>1, <2>2
  <2> QED
    BY <2>3 DEF Apart
<1> QED
  BY <1>3, <1>4, <1>5, <1>8, <1>9 DEF StockInv, DocumentsTellTheTruth

\* A step keeps the invariant.
LEMMA StockStepInv == StockInv /\ [Next]_vars => StockInv'
<1> SUFFICES ASSUME StockInv, [Next]_vars PROVE StockInv'
  OBVIOUS
<1>1. ASSUME NEW d \in Docs, CreateTransfer(d) \/ CreateProductionOrder(d)
      PROVE  StockInv'
  BY <1>1, CreateKeepsInv
<1>2. ASSUME NEW t \in Txns, Begin(t)
      PROVE  StockInv'
  BY <1>2, BeginKeepsInv
<1>3. ASSUME NEW t \in Txns, Step(t)
      PROVE  StockInv'
  <2>1. CASE \/ CompleteTransfer(t) \/ CancelTransfer(t) \/ StartProductionOrder(t) \/ CompleteProductionOrder(t)
             \/ CancelProductionOrder(t) \/ CloseCount(t)
    BY <2>1, LockingKeepsInv
  <2>2. CASE SnapshotLine(t)
    BY <2>2, SnapshotKeepsInv
  <2>3. CASE CheckSession(t)
    BY <2>3, CheckKeepsInv
  <2>4. CASE RecordCount(t)
    BY <2>4, RecordKeepsInv
  <2>5. CASE AdjustCount(t) \/ ListLines(t)
    BY <2>5, AdjustCountKeepsInv
  <2>6. CASE LockLines(t)
    BY <2>6, LockLinesKeepsInv
  <2>7. CASE AdjustStockTx(t)
    BY <2>7, AdjustKeepsInv
  <2>8. CASE Commit(t)
    BY <2>8, CommitKeepsInv
  <2>9. CASE BreakDeadlock(t)
    BY <2>9, EndKeepsInv DEF BreakDeadlock
  <2> QED
    BY <1>3, <2>1, <2>2, <2>3, <2>4, <2>5, <2>6, <2>7, <2>8, <2>9 DEF Step
<1>4. ASSUME NEW t \in Txns, Abort(t)
      PROVE  StockInv'
  BY <1>4, EndKeepsInv DEF Abort
<1>5. CASE UNCHANGED vars
  <2>1. UNCHANGED committed /\ tx' = tx /\ tx = [t \in Txns |-> tx[t]] /\ Functional
    BY <1>5 DEF vars, committed, StockInv, Functional
  <2>2. Functional' /\ (\A d \in Docs : DocOK(d))' /\ DocumentsTellTheTruth' /\ StockIsMovements'
    BY <2>1, CommittedStill DEF StockInv
  <2>3. ASSUME NEW u \in Txns
        PROVE  TxOK(tx[u])'
    <3>1. PICK y : y = tx[u] /\ y = tx'[u] /\ TxOK(y)
      BY <2>1 DEF StockInv
    <3>2. ShapeOK(y)' /\ LocksOK(y)' /\ SnapshotOK(y)'
      BY <2>1, <3>1 DEF committed, TxOK, ShapeOK, LocksOK, SnapshotOK
    <3>3. MovesOK(y)'
      BY <2>1, <3>1 DEF committed, TxOK, MovesOK, Sees, Over, Plans
    <3> QED
      BY <3>1, <3>2, <3>3 DEF TxOK
  <2>4. \A u, v \in Txns : u # v => Apart(tx[u], tx[v])'
    BY <2>1 DEF StockInv, Apart
  <2> QED
    BY <2>2, <2>3, <2>4 DEF StockInv
<1> QED
  BY <1>1, <1>2, <1>3, <1>4, <1>5 DEF Next

\* The invariant holds at the beginning.
LEMMA StockInit == Init => StockInv
<1> SUFFICES ASSUME Init PROVE StockInv
  OBVIOUS
<1> USE DEF Init
<1>1. <<>> \in Seq(Movement)
  OBVIOUS
<1>2. level \in [Cells -> Nat]
  BY StockAssumption
<1>3. Functional
  <2>1. moves \in [Docs -> Seq(Movement)] /\ issues \in [Docs -> Seq(Movement)]
    BY <1>1
  <2>2. books \in [Docs -> Int] /\ status = [d \in Docs |-> status[d]]
    OBVIOUS
  <2>3. lines = [d \in Docs |-> lines[d]] /\ tx = [t \in Txns |-> tx[t]]
    OBVIOUS
  <2> QED
    BY <1>2, <2>1, <2>2, <2>3 DEF Functional
<1>4. ASSUME NEW d \in Docs
      PROVE  DocOK(d) /\ MovesMatchStatus(d) /\ BooksFollowStock(d)
  <2>1. status[d] = "absent" /\ moves[d] = <<>> /\ lines[d] = <<>> /\ books[d] = 0 /\ Kind(d) \in {"transfer", "order", "count"}
    BY DocFacts
  <2>2. DocOK(d)
    BY <2>1, EmptyChange DEF DocOK
  <2>3. [n \in DOMAIN <<>> |-> <<>>[n].cell] \in InAnyOrder([n \in {} |-> Doc[d].cells[n]])
    BY EmptyChange, NothingInOrder
  <2>4. {c \in DOMAIN lines[d] : lines[d][c].adj} = {}
    BY <2>1, EmptyChange
  <2>5. MovesMatchStatus(d)
    BY <2>1, <2>3, <2>4 DEF MovesMatchStatus
  <2>6. BooksFollowStock(d)
    BY <1>1, <2>1, ValueTyped DEF BooksFollowStock
  <2> QED
    BY <2>2, <2>5, <2>6
<1>5. ASSUME NEW c \in Cells
      PROVE  level[c] = Opening[c] + SumFunction([d \in Docs |-> ChangeOf(moves[d], c)])
  <2>1. PICK f : f = [d \in Docs |-> ChangeOf(moves[d], c)]
    OBVIOUS
  <2>2. \A d \in Docs : f[d] = 0
    BY <2>1, EmptyChange
  <2>3. SumFunctionOnSet(f, Docs) = 0
    BY <2>2, DocsAssumption, SumOnly
  <2>4. SumFunction(f) = SumFunctionOnSet(f, Docs)
    BY <2>1 DEF SumFunction
  <2>5. level[c] = Opening[c] /\ Opening[c] \in Int
    BY StockAssumption
  <2> QED
    BY <2>1, <2>3, <2>4, <2>5
<1>6. TxOK(Idle)
  <2>1. PICK z : z = Idle
    OBVIOUS
  <2>2. /\ z.pc = "idle" /\ z.held = <<>> /\ z.log = <<>> /\ z.rows = <<>> /\ z.amt = 0
        /\ z = [pc |-> z.pc, op |-> z.op, doc |-> z.doc, line |-> z.line, amt |-> z.amt,
                todo |-> z.todo, held |-> z.held, log |-> z.log, rows |-> z.rows]
    BY <2>1 DEF Idle
  <2>3. ShapeOK(z) /\ LocksOK(z) /\ SnapshotOK(z)
    BY <2>1, <2>2 DEF ShapeOK, LocksOK, SnapshotOK
  <2>4. \A c \in Cells : Sees(z)[c] = level[c]
    BY <1>2, <2>2, EmptyChange DEF Sees, Over
  <2>5. MovesOK(z)
    BY <1>2, <2>2, <2>4, EmptyChange DEF MovesOK
  <2> QED
    BY <2>1, <2>3, <2>5 DEF TxOK
<1>7. Apart(Idle, Idle)
  BY EmptyChange DEF Apart, Idle
<1> QED
  BY <1>3, <1>4, <1>5, <1>6, <1>7 DEF StockInv, DocumentsTellTheTruth, StockIsMovements

\* The type invariant, with its two claims about locks, is a part of the inductive one.
LEMMA InvIsTyped == StockInv => TypeOK
<1> SUFFICES ASSUME StockInv PROVE TypeOK
  OBVIOUS
<1>1. level \in [Cells -> Nat] /\ books \in [Docs -> Int] /\ \A d \in Docs : moves[d] \in Seq(Movement) /\ issues[d] \in Seq(Movement)
  BY DEF StockInv, Functional
<1>2. ASSUME NEW d \in Docs
      PROVE  /\ status[d] \in {"absent"} \cup
                  (CASE Kind(d) = "transfer" -> {"draft", "completed", "cancelled"}
                     [] Kind(d) = "order"    -> {"planned", "in_progress", "completed", "cancelled"}
                     [] Kind(d) = "count"    -> {"open", "completed"})
             /\ \A c \in DOMAIN lines[d] : lines[d][c] \in [sys : Nat, cnt : Nat \cup {None}, adj : BOOLEAN]
  <2>1. DocOK(d)
    BY DEF StockInv
  <2> QED
    BY <2>1 DEF DocOK, Line
<1>3. ASSUME NEW t \in Open, NEW u \in Open, t # u
      PROVE  /\ DOMAIN tx[t].held \cap DOMAIN tx[u].held = {}
             /\ \A d \in Docs : ~(HoldsDoc(t, d) /\ HoldsDoc(u, d))
  <2>1. t \in Txns /\ u \in Txns /\ tx[t].pc # "idle" /\ tx[u].pc # "idle"
    BY DEF Open
  <2>2. Apart(tx[t], tx[u]) /\ ShapeOK(tx[t]) /\ ShapeOK(tx[u])
    BY <1>3, <2>1 DEF StockInv, TxOK
  <2>3. \A x : ShapeOK(x) /\ x.pc # "idle" /\ x.op \in Locking /\ x.pc # "run" => x.pc \in {"list", "lock", "move"}
    BY DEF ShapeOK, Locking, To
  <2> QED
    BY <2>1, <2>2, <2>3 DEF Apart, HoldsDoc
<1> QED
  BY <1>1, <1>2, <1>3 DEF TypeOK

\* The variables are well typed, no level is ever below zero, and no row of stock_levels or of a
\* document is ever locked by two transactions (AdjustStockTx, the FOR UPDATE statements).
THEOREM StockIsTyped == Spec => []TypeOK
<1>1. Init => StockInv
  BY StockInit
<1>2. StockInv /\ [Next]_vars => StockInv'
  BY StockStepInv
<1>3. StockInv => TypeOK
  BY InvIsTyped
<1> QED
  BY <1>1, <1>2, <1>3, PTL DEF Spec

\* Every level is its opening and the sum of the movements committed to it, in every firm, whatever
\* calls interleave, fail, are aborted or are ended by the deadlock detector (AdjustStockTx).
THEOREM LevelsAreMovements == Spec => []StockIsMovements
<1>1. Init => StockInv
  BY StockInit
<1>2. StockInv /\ [Next]_vars => StockInv'
  BY StockStepInv
<1>3. StockInv => StockIsMovements
  BY DEF StockInv
<1> QED
  BY <1>1, <1>2, <1>3, PTL DEF Spec

\* What every transfer, order and count has moved and posted is what its status says
\* (CompleteTransfer, StartProductionOrder, CompleteProductionOrder, CompleteCycleCountSession).
THEOREM DocumentsHold == Spec => []DocumentsTellTheTruth
<1>1. Init => StockInv
  BY StockInit
<1>2. StockInv /\ [Next]_vars => StockInv'
  BY StockStepInv
<1>3. StockInv => DocumentsTellTheTruth
  BY DEF StockInv
<1> QED
  BY <1>1, <1>2, <1>3, PTL DEF Spec

\* A step commits, creates a document or leaves what is committed alone.
LEMMA WhatSteps ==
  ASSUME [Next]_vars
  PROVE  \/ \E t \in Txns : Commit(t)
         \/ \E d \in Docs : CreateTransfer(d) \/ CreateProductionOrder(d)
         \/ UNCHANGED committed
<1>1. ASSUME NEW t \in Txns, Begin(t) \/ Abort(t)
      PROVE  UNCHANGED committed
  BY <1>1 DEF Begin, Abort
<1>2. ASSUME NEW t \in Txns, NEW op, NEW from, NEW todo, LockDocument(t, op, from, todo)
      PROVE  UNCHANGED committed
  BY <1>2 DEF LockDocument
<1>3. ASSUME NEW t \in Txns, Step(t), ~Commit(t)
      PROVE  UNCHANGED committed
  <2>1. CASE CompleteTransfer(t) \/ CancelTransfer(t) \/ CompleteProductionOrder(t) \/ CancelProductionOrder(t) \/ CloseCount(t)
    BY <1>2, <2>1 DEF CompleteTransfer, CancelTransfer, CompleteProductionOrder, CancelProductionOrder, CloseCount
  <2>2. CASE StartProductionOrder(t)
    BY <1>2, <2>2 DEF StartProductionOrder
  <2>3. CASE SnapshotLine(t) \/ CheckSession(t) \/ RecordCount(t)
    BY <2>3 DEF SnapshotLine, CheckSession, RecordCount
  <2>4. CASE AdjustCount(t) \/ ListLines(t) \/ LockLines(t)
    BY <2>4 DEF AdjustCount, ListLines, LockLines
  <2>5. CASE AdjustStockTx(t) \/ BreakDeadlock(t)
    BY <2>5 DEF AdjustStockTx, BreakDeadlock
  <2> QED
    BY <1>3, <2>1, <2>2, <2>3, <2>4, <2>5 DEF Step
<1>4. UNCHANGED vars => UNCHANGED committed
  BY DEF vars, committed
<1> QED
  BY <1>1, <1>3, <1>4 DEF Next

\* No step changes the status of a document that was completed or cancelled.
LEMMA FinalStep ==
  ASSUME StockInv, [Next]_vars, NEW d \in Docs, status[d] \in {"completed", "cancelled"}
  PROVE  status'[d] = status[d]
<1>1. ASSUME NEW t \in Txns, Commit(t)
      PROVE  status'[d] = status[d]
  <2>1. PICK y, e : y = tx[t] /\ e = y.doc
    OBVIOUS
  <2>2. CommitOf(t, y, e)
    BY <1>1, <2>1, CommitParts
  <2>3. y.op = "RecordCount" \/ status[e] \in {"absent", "draft", "planned", "in_progress", "open"}
    BY <2>2 DEF CommitOf, From, Locking, To
  <2>4. status' = IF y.op = "RecordCount" THEN status ELSE [status EXCEPT ![e] = To[y.op]]
    BY <2>2 DEF CommitOf
  <2>5. status = [x \in Docs |-> status[x]]
    BY DEF StockInv, Functional
  <2>6. CASE y.op = "RecordCount"
    BY <2>4, <2>6
  <2>7. CASE y.op # "RecordCount"
    <3>1. d # e
      BY <2>3, <2>7
    <3> QED
      BY <2>4, <2>5, <2>7, <3>1
  <2> QED
    BY <2>6, <2>7
<1>2. ASSUME NEW e \in Docs, CreateTransfer(e) \/ CreateProductionOrder(e)
      PROVE  status'[d] = status[d]
  <2>1. PICK first : status[e] = "absent" /\ status' = [status EXCEPT ![e] = first]
    BY <1>2 DEF CreateTransfer, CreateProductionOrder, CreateRow
  <2>2. status = [x \in Docs |-> status[x]] /\ d # e
    BY <2>1 DEF StockInv, Functional
  <2> QED
    BY <2>1, <2>2
<1>3. UNCHANGED committed => status'[d] = status[d]
  BY DEF committed
<1> QED
  BY <1>1, <1>2, <1>3, WhatSteps

\* The step that closes a count leaves a level none of whose lines was adjusted as it was, and makes
\* one with one adjusted line what was counted plus what came and went since.
LEMMA AdjustingStep ==
  ASSUME StockInv, [Next]_vars, NEW d \in Docs, Kind(d) = "count", status[d] = "open", status'[d] = "completed",
         NEW c \in Cells, NEW A, A = {n \in DOMAIN lines[d] : lines'[d][n].adj /\ Doc[d].cells[n] = c}
  PROVE  /\ A = {} => level'[c] = level[c]
         /\ \A n \in A : A = {n} => level'[c] = lines'[d][n].cnt + (level[c] - lines[d][n].sys)
<1>1. PICK t \in Txns : Commit(t)
  <2>1. ~UNCHANGED committed
    BY DEF committed
  <2>2. ASSUME NEW e \in Docs, CreateTransfer(e) \/ CreateProductionOrder(e)
        PROVE  FALSE
    <3>1. PICK first : /\ status[e] = "absent" /\ status' = [status EXCEPT ![e] = first]
                       /\ first \in {"draft", "planned"}
      BY <2>2 DEF CreateTransfer, CreateProductionOrder, CreateRow
    <3>2. status = [x \in Docs |-> status[x]]
      BY DEF StockInv, Functional
    <3> QED
      BY <3>1, <3>2
  <2> QED
    BY <2>1, <2>2, WhatSteps
<1>2. PICK y, e, l : y = tx[t] /\ e = y.doc /\ l = lines[d]
  OBVIOUS
<1>3. CommitOf(t, y, e)
  BY <1>1, <1>2, CommitParts
<1>4. e = d /\ y.pc = "move" /\ y.op \in {"CloseCount", "AdjustCount"} /\ Plans(y, y.log)
  <2>1. status = [x \in Docs |-> status[x]] /\ status' = (IF y.op = "RecordCount" THEN status ELSE [status EXCEPT ![e] = To[y.op]])
    BY <1>3 DEF CommitOf, StockInv, Functional
  <2>2. e = d /\ y.op # "RecordCount"
    BY <2>1
  <2>3. y.pc = "move" /\ y.op \in Locking /\ Plans(y, y.log)
    BY <1>3, <2>2 DEF CommitOf
  <2>4. About(y.op) = "count"
    BY <1>3, <2>2 DEF CommitOf
  <2> QED
    BY <2>2, <2>3, <2>4 DEF About, Locking, To
<1>5. /\ level' = Sees(y) /\ MovesOK(y) /\ LocksOK(y) /\ ShapeOK(y) /\ lines'[d] = Over(y.rows, l) /\ y.doc = d
  BY <1>2, <1>3, <1>4 DEF CommitOf, StockInv, Functional
<1>6. DOMAIN l = DOMAIN Doc[d].cells /\ \A n \in DOMAIN l : l[n] \in Line /\ ~l[n].adj
  BY <1>2 DEF StockInv, DocOK
<1>7. level'[c] = level[c] + ChangeOf(y.log, c) /\ level[c] \in Int
  BY <1>5 DEF MovesOK, StockInv, Functional
<1>8. CASE y.op = "CloseCount"
  <2>1. y.log = <<>> /\ y.rows = <<>>
    BY <1>4, <1>5, <1>8 DEF Plans, ShapeOK
  <2>2. \A n \in DOMAIN l : lines'[d][n] = l[n]
    BY <1>5, <2>1, EmptyChange DEF Over
  <2>3. A = {}
    BY <1>2, <1>6, <2>2
  <2>4. level'[c] = level[c] + 0
    BY <1>7, <2>1, EmptyChange
  <2> QED
    BY <1>7, <2>3, <2>4
<1>9. CASE y.op = "AdjustCount"
  <2>1. PICK R, f, log : R = DOMAIN y.rows /\ f = Adjustments(d, y.rows) /\ log = y.log
    OBVIOUS
  <2>2. R \subseteq DOMAIN l /\ \A n \in R : Variance(l[n]) # 0 /\ y.rows[n] = [l[n] EXCEPT !.adj = TRUE]
    BY <1>2, <1>4, <1>5, <1>9, <2>1 DEF LocksOK
  <2>3. \A n \in R : y.rows[n] \in Line /\ y.rows[n].adj /\ y.rows[n].cnt = l[n].cnt /\ y.rows[n].sys = l[n].sys
    <3> SUFFICES ASSUME NEW n \in R
                 PROVE  y.rows[n] \in Line /\ y.rows[n].adj /\ y.rows[n].cnt = l[n].cnt /\ y.rows[n].sys = l[n].sys
      OBVIOUS
    <3>1. l[n] \in Line /\ y.rows[n] = [l[n] EXCEPT !.adj = TRUE]
      BY <1>6, <2>2
    <3> QED
      BY <3>1 DEF Line
  <2>4. DOMAIN f = R /\ IsFiniteSet(R) /\ \A n \in R : f[n] \in Movement
    BY <1>6, <2>1, <2>2, <2>3, AdjustmentsTyped
  <2>5. \A n \in R : f[n].cell = Doc[d].cells[n] /\ f[n].change = Variance(y.rows[n])
    BY <2>1 DEF Adjustments
  <2>6. \A n \in DOMAIN l : lines'[d][n] = IF n \in R THEN y.rows[n] ELSE l[n]
    BY <1>5, <2>1 DEF Over
  <2>7. A = {n \in R : Doc[d].cells[n] = c}
    BY <1>2, <1>6, <2>2, <2>3, <2>6
  <2>8. PICK g : g = [n \in R |-> IF f[n].cell = c THEN f[n].change ELSE 0]
    OBVIOUS
  <2>9. \A n \in R : g[n] \in Int /\ (n \notin A => g[n] = 0) /\ (n \in A => g[n] = Variance(y.rows[n]))
    BY <2>4, <2>5, <2>7, <2>8 DEF Movement
  <2>10. level'[c] = level[c] + SumFunctionOnSet(g, R)
    <3>1. log \in InAnyOrder(f)
      BY <1>4, <1>5, <1>9, <2>1 DEF Plans
    <3>2. ChangeOf(log, c) = ChangeOf(f, c)
      BY <2>4, <3>1, InOrderSums
    <3>3. ChangeOf(f, c) = SumFunctionOnSet(g, R)
      BY <2>4, <2>8 DEF ChangeOf, SumFunction
    <3> QED
      BY <1>7, <2>1, <3>2, <3>3
  <2>11. CASE A = {}
    <3>1. SumFunctionOnSet(g, R) = 0
      BY <2>4, <2>9, <2>11, SumOnly
    <3> QED
      BY <1>7, <2>10, <2>11, <3>1
  <2>12. ASSUME NEW n \in A, A = {n}
         PROVE  level'[c] = lines'[d][n].cnt + (level[c] - lines[d][n].sys)
    <3>1. n \in R /\ n \in DOMAIN l
      BY <2>2, <2>7
    <3>2. SumFunctionOnSet(g, R) = Variance(y.rows[n])
      BY <2>4, <2>9, <2>12, <3>1, SumOnly
    <3>3. Variance(l[n]) # 0 /\ y.rows[n].cnt = l[n].cnt /\ y.rows[n].sys = l[n].sys /\ l[n] \in Line
      BY <1>6, <2>2, <2>3, <3>1
    <3>4. l[n].cnt # None /\ Variance(y.rows[n]) = l[n].cnt - l[n].sys
      BY <3>3 DEF Variance
    <3>5. l[n].cnt \in Nat /\ l[n].sys \in Nat
      BY <3>3, <3>4 DEF Line
    <3>6. lines'[d][n].cnt = l[n].cnt
      BY <2>6, <3>1, <3>3
    <3> QED
      BY <1>2, <1>7, <2>10, <3>2, <3>4, <3>5, <3>6
  <2> QED
    BY <2>11, <2>12
<1> QED
  BY <1>4, <1>8, <1>9

\* What is completed or cancelled stays so, and an adjustment keeps the movements that were made
\* while the count was open, at every cell that one line is adjusted of (the status checks under
\* FOR UPDATE, CompleteCycleCountSession).
THEOREM CompletionsHold == Spec => CompletionsStand
<1>1. Init => StockInv
  BY StockInit
<1>2. StockInv /\ [Next]_vars => StockInv'
  BY StockStepInv
<1>3. StockInv /\ [Next]_vars =>
        [\A d \in Docs : status[d] \in {"completed", "cancelled"} => status'[d] = status[d]]_vars
  BY FinalStep
<1>4. StockInv /\ [Next]_vars =>
        [\A d \in Docs : Kind(d) = "count" /\ status[d] = "open" /\ status'[d] = "completed" =>
           \A c \in Cells :
              LET adjusted == {n \in DOMAIN lines[d] : lines'[d][n].adj /\ Doc[d].cells[n] = c}
              IN  /\ adjusted = {} => level'[c] = level[c]
                  /\ \A n \in adjusted : adjusted = {n} =>
                        level'[c] = lines'[d][n].cnt + (level[c] - lines[d][n].sys)]_vars
  BY AdjustingStep
<1>5. Spec => StatusIsFinal
  BY <1>1, <1>2, <1>3, PTL DEF Spec, StatusIsFinal
<1>6. Spec => CountKeepsMovements
  BY <1>1, <1>2, <1>4, PTL DEF Spec, CountKeepsMovements
<1> QED
  BY <1>5, <1>6 DEF CompletionsStand
====================================================================================
