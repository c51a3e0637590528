-------------------------------- MODULE EngineProofs -------------------------------
(* Proofs about WorkflowEngine, for every workflow, every list of instances and any *)
(* number of sessions.  EngineInv is the inductive invariant: a session has written *)
(* one entry for each place of its list it has passed and posted their effects      *)
(* (SessionsOk), the stock it takes is locked by it (LocksOk), and what it will     *)
(* announce is in the audit log (NewsOk).  A commit then adds to the documents and  *)
(* the stock exactly what it adds to the log.                                       *)
EXTENDS WorkflowEngine, SequenceTheorems, SumLemmas

\* What a session has written, of each instance.
Log == [Instances -> Seq(Entry)]
CallRecord == [ids : Seq(Instances), user : Users \cup {None}, action : Actions \cup {None}, given : SUBSET Fields]

\* The places of an instance among the first n of a list, and a log with an entry for each.
Named(ids, n, i) == {m \in 1 .. n : ids[m] = i}
Written(ids, n, log) == \A i \in Instances : Len(log[i]) = Cardinality(Named(ids, n, i))
ByAction(log, a) == \A i \in Instances : \A n \in 1 .. Len(log[i]) : log[i][n].edge.action = a

Walking == {"lookup", "update", "effects", "commit"}

\* A session with its call c at the place k of the list, the edge e it has found, the
\* entries w it has written and those (q) whose effects it has posted: it has written one entry
\* for each place it has passed, and has posted them but for the last one while it posts that.
Local(p, c, k, e, w, q) ==
    /\ p = "idle" => w = Nothing /\ q = Nothing
    /\ p # "idle" => c.ids \in Calls /\ c.user \in Users
    /\ p \in Walking => k \in 1 .. Len(c.ids) /\ ByAction(w, c.action)
    /\ p \in {"lookup", "update"} => Written(c.ids, k - 1, w)
    /\ p \in {"effects", "commit"} => Written(c.ids, k, w) /\ Last(w[c.ids[k]]).edge = e
    /\ p \in {"lookup", "update", "commit"} => q = w
    /\ p = "effects" => w = [q EXCEPT ![c.ids[k]] = Append(q[c.ids[k]], Last(w[c.ids[k]]))]
    /\ p = "commit" => k = Len(c.ids)
    /\ p \in {"update", "effects", "commit"} => e \in Edges /\ e.action = c.action

SessionsOk == \A s \in Sessions : Local(pc[s], call[s], pos[s], edge[s], wrote[s], posted[s])

\* The stock a transaction has changed is locked by it and does not go below zero.
Holding(holder, s, level, change) == change = 0 \/ (holder = s /\ level + change >= 0)
LocksOk ==
    \A s \in Sessions, p \in Products :
        pc[s] # "notify" => Holding(stockLock[p], s, stock[p], ChangeOfAll(posted[s], p))

\* An event that tells the truth about a log.
Truth(v, log) ==
    /\ v.at \in DOMAIN log[v.inst] /\ v.last \in DOMAIN log[Last(v.ids)]
    /\ v.to = log[Last(v.ids)][v.last].edge.to
    /\ Len(v.ids) = 1 => v.to = log[v.inst][v.at].edge.to
EventsOk == \A v \in events : Truth(v, audit)
NewsOk == \A s \in Sessions : \A v \in news[s] : Truth(v, audit)

Typed ==
    /\ state \in [Instances -> States \cup {None}]
    /\ payload \in [Instances -> SUBSET Fields]
    /\ audit \in Log
    /\ docs \in [Instances -> [Kinds -> Nat]]
    /\ stock \in [Products -> Nat]
    /\ events \subseteq Event
    /\ rowLock \in [Instances -> Sessions \cup {None}]
    /\ stockLock \in [Products -> Sessions \cup {None}]
    /\ pc \in [Sessions -> Walking \cup {"idle", "notify"}]
    /\ call \in [Sessions -> CallRecord]
    /\ pos \in [Sessions -> Nat]
    /\ edge \in [Sessions -> Edges \cup {None}]
    /\ wrote \in [Sessions -> Log]
    /\ posted \in [Sessions -> Log]
    /\ news \in [Sessions -> SUBSET Event]

EngineInv == /\ Typed /\ SessionsOk /\ LocksOk
             /\ EventsOk /\ NewsOk /\ LedgerInSync /\ StockInSync

--------------------------------------------------------------------------------
(* What the entries of a log call for.                                          *)

\* An edge's parts.
LEMMA EdgeParts ==
  ASSUME NEW e \in Edges
  PROVE  /\ e.from \in States /\ e.to \in States /\ e.action \in Actions /\ e.change \in Int
         /\ DOMAIN e.needs \subseteq Effects
<1>1. e \in Edge
  BY EdgesAssumption
<1>2. e.needs \in UNION {[K -> SUBSET Fields] : K \in SUBSET Effects}
  BY <1>1 DEF Edge
<1>3. PICK K \in SUBSET Effects : e.needs \in [K -> SUBSET Fields]
  BY <1>2
<1> QED
  BY <1>1, <1>3 DEF Edge

\* An entry changes the stock by an integer.
LEMMA TakesType ==
  ASSUME NEW w \in Entry, NEW p
  PROVE  Takes(w, p) \in Int
BY EdgeParts DEF Takes, Entry

\* The sums over a sequence of entries.
LEMMA SumsType ==
  ASSUME NEW es \in Seq(Entry)
  PROVE  /\ \A p : Change(es, p) \in Int
         /\ \A k : Documents(es, k) \in Nat
<1>1. DOMAIN es = 1 .. Len(es) /\ IsFiniteSet(1 .. Len(es)) /\ \A n \in 1 .. Len(es) : es[n] \in Entry
  BY FS_Interval
<1>2. ASSUME NEW p PROVE Change(es, p) \in Int
  <2> DEFINE f == [n \in DOMAIN es |-> Takes(es[n], p)]
  <2>1. DOMAIN f = DOMAIN es /\ \A n \in DOMAIN es : f[n] \in Int
    BY <1>1, TakesType
  <2>2. Change(es, p) = SumFunctionOnSet(f, DOMAIN es)
    BY DEF Change, SumFunction
  <2> HIDE DEF f
  <2> QED
    BY <1>1, <2>1, <2>2, SumType
<1>3. ASSUME NEW k PROVE Documents(es, k) \in Nat
  <2> DEFINE f == [n \in DOMAIN es |-> IF k \in es[n].due THEN 1 ELSE 0]
  <2>1. DOMAIN f = DOMAIN es /\ \A n \in DOMAIN es : f[n] \in Nat
    OBVIOUS
  <2>2. Documents(es, k) = SumFunctionOnSet(f, DOMAIN es)
    BY DEF Documents, SumFunction
  <2> HIDE DEF f
  <2> QED
    BY <1>1, <2>1, <2>2, SumType
<1> QED
  BY <1>2, <1>3

\* c is a sequence of n entries, a, followed by one of m entries, b.
Joined(a, b, c, n, m) ==
    /\ n \in Nat /\ m \in Nat /\ DOMAIN a = 1 .. n /\ DOMAIN b = 1 .. m /\ DOMAIN c = 1 .. (n + m)
    /\ \A j \in 1 .. n : c[j] = a[j] /\ a[j] \in Entry
    /\ \A j \in 1 .. m : c[n + j] = b[j] /\ b[j] \in Entry

\* Both are sums of those of the parts of the sequence.
LEMMA SumsJoin ==
  ASSUME NEW a, NEW b, NEW c, NEW n, NEW m, Joined(a, b, c, n, m)
  PROVE  /\ \A p : Change(c, p) = Change(a, p) + Change(b, p)
         /\ \A k : Documents(c, k) = Documents(a, k) + Documents(b, k)
<1>0. /\ n \in Nat /\ m \in Nat /\ DOMAIN a = 1 .. n /\ DOMAIN b = 1 .. m /\ DOMAIN c = 1 .. (n + m)
      /\ \A j \in 1 .. n : c[j] = a[j] /\ a[j] \in Entry
      /\ \A j \in 1 .. m : c[n + j] = b[j] /\ b[j] \in Entry
  BY DEF Joined
<1>1. ASSUME NEW p PROVE Change(c, p) = Change(a, p) + Change(b, p)
  <2>0. PICK f, g, h : /\ f = [j \in DOMAIN c |-> Takes(c[j], p)]
                       /\ g = [j \in DOMAIN a |-> Takes(a[j], p)]
                       /\ h = [j \in DOMAIN b |-> Takes(b[j], p)]
    OBVIOUS
  <2>1. \A i \in 1 .. n : f[i] = g[i] /\ g[i] \in Int
    <3>1. \A j \in 1 .. n : j \in DOMAIN c /\ j \in DOMAIN a
      BY <1>0
    <3> QED
      BY <1>0, <2>0, <3>1, TakesType
  <2>2. \A i \in 1 .. m : f[n + i] = h[i] /\ h[i] \in Int
    <3>1. \A j \in 1 .. m : n + j \in DOMAIN c /\ j \in DOMAIN b
      BY <1>0
    <3> QED
      BY <1>0, <2>0, <3>1, TakesType
  <2>3. SumFunctionOnSet(f, 1 .. (n + m)) = SumFunctionOnSet(g, 1 .. n) + SumFunctionOnSet(h, 1 .. m)
    BY <1>0, <2>1, <2>2, SumConcat
  <2>4. /\ Change(c, p) = SumFunctionOnSet(f, 1 .. (n + m)) /\ Change(a, p) = SumFunctionOnSet(g, 1 .. n)
        /\ Change(b, p) = SumFunctionOnSet(h, 1 .. m)
    BY <1>0, <2>0 DEF Change, SumFunction
  <2> QED
    BY <2>3, <2>4
<1>2. ASSUME NEW k PROVE Documents(c, k) = Documents(a, k) + Documents(b, k)
  <2>0. PICK f, g, h : /\ f = [j \in DOMAIN c |-> IF k \in c[j].due THEN 1 ELSE 0]
                       /\ g = [j \in DOMAIN a |-> IF k \in a[j].due THEN 1 ELSE 0]
                       /\ h = [j \in DOMAIN b |-> IF k \in b[j].due THEN 1 ELSE 0]
    OBVIOUS
  <2>1. \A i \in 1 .. n : f[i] = g[i] /\ g[i] \in Int
    <3>1. \A j \in 1 .. n : j \in DOMAIN c /\ j \in DOMAIN a
      BY <1>0
    <3> QED
      BY <1>0, <2>0, <3>1
  <2>2. \A i \in 1 .. m : f[n + i] = h[i] /\ h[i] \in Int
    <3>1. \A j \in 1 .. m : n + j \in DOMAIN c /\ j \in DOMAIN b
      BY <1>0
    <3> QED
      BY <1>0, <2>0, <3>1
  <2>3. SumFunctionOnSet(f, 1 .. (n + m)) = SumFunctionOnSet(g, 1 .. n) + SumFunctionOnSet(h, 1 .. m)
    BY <1>0, <2>1, <2>2, SumConcat
  <2>4. /\ Documents(c, k) = SumFunctionOnSet(f, 1 .. (n + m)) /\ Documents(a, k) = SumFunctionOnSet(g, 1 .. n)
        /\ Documents(b, k) = SumFunctionOnSet(h, 1 .. m)
    BY <1>0, <2>0 DEF Documents, SumFunction
  <2> QED
    BY <2>3, <2>4
<1> QED
  BY <1>1, <1>2

\* So for two sequences.
LEMMA SumsConcat ==
  ASSUME NEW es \in Seq(Entry), NEW fs \in Seq(Entry)
  PROVE  /\ \A p : Change(es \o fs, p) = Change(es, p) + Change(fs, p)
         /\ \A k : Documents(es \o fs, k) = Documents(es, k) + Documents(fs, k)
<1>1. Joined(es, fs, es \o fs, Len(es), Len(fs))
  BY ConcatProperties DEF Joined
<1> QED
  BY <1>1, SumsJoin

\* No entries call for nothing.
LEMMA SumsEmpty ==
  /\ \A p : Change(<<>>, p) = 0
  /\ \A k : Documents(<<>>, k) = 0
<1>1. <<>> \in Seq(Entry) /\ <<>> \o <<>> = <<>>
  <2>1. <<>> \in Seq(Entry)
    OBVIOUS
  <2> QED
    BY <2>1, ConcatEmptySeq
<1>2. ASSUME NEW p PROVE Change(<<>>, p) = 0
  <2>1. Change(<<>>, p) \in Int /\ Change(<<>>, p) = Change(<<>>, p) + Change(<<>>, p)
    BY <1>1, SumsType, SumsConcat
  <2> QED
    BY <2>1
<1>3. ASSUME NEW k PROVE Documents(<<>>, k) = 0
  <2>1. Documents(<<>>, k) \in Nat /\ Documents(<<>>, k) = Documents(<<>>, k) + Documents(<<>>, k)
    BY <1>1, SumsType, SumsConcat
  <2> QED
    BY <2>1
<1> QED
  BY <1>2, <1>3

\* One more entry.
LEMMA ChangeAppend ==
  ASSUME NEW es \in Seq(Entry), NEW w \in Entry, NEW p
  PROVE  Change(Append(es, w), p) = Change(es, p) + Takes(w, p)
<1>1. <<w>> \in Seq(Entry) /\ Append(es, w) = es \o <<w>>
  <2>1. <<w>> \in Seq(Entry)
    OBVIOUS
  <2> QED
    BY <2>1, AppendIsConcat
<1>2. Change(<<w>>, p) = Takes(w, p)
  <2> DEFINE f == [n \in DOMAIN <<w>> |-> Takes(<<w>>[n], p)]
  <2>1. DOMAIN <<w>> = {1} /\ f[1] = Takes(w, p) /\ f[1] \in Int
    BY TakesType
  <2>2. Change(<<w>>, p) = SumFunctionOnSet(f, {1})
    BY <2>1 DEF Change, SumFunction
  <2> HIDE DEF f
  <2>3. IsFiniteSet({1}) /\ \A x \in {1} \ {1} : f[x] = 0
    BY FS_Singleton
  <2> QED
    BY <2>1, <2>2, <2>3, SumOnly
<1>3. Change(es \o <<w>>, p) = Change(es, p) + Change(<<w>>, p)
  BY <1>1, SumsConcat
<1> QED
  BY <1>1, <1>2, <1>3

\* The stock changes of a whole log.
LEMMA AllType ==
  ASSUME NEW log \in Log, NEW p
  PROVE  ChangeOfAll(log, p) \in Int
<1> DEFINE f == [i \in Instances |-> Change(log[i], p)]
<1>1. DOMAIN f = Instances /\ \A i \in Instances : f[i] \in Int
  BY SumsType DEF Log
<1>2. ChangeOfAll(log, p) = SumFunctionOnSet(f, Instances)
  BY DEF ChangeOfAll, SumFunction
<1>3. IsFiniteSet(Instances)
  BY CallsAssumption
<1> HIDE DEF f
<1> QED
  BY <1>1, <1>2, <1>3, SumType

\* A log without entries changes nothing.
LEMMA AllNothing ==
  ASSUME NEW p
  PROVE  Nothing \in Log /\ ChangeOfAll(Nothing, p) = 0
<1> DEFINE f == [i \in Instances |-> Change(Nothing[i], p)]
<1>1. DOMAIN f = Instances /\ \A i \in Instances : f[i] = 0
  BY SumsEmpty DEF Nothing
<1>2. ChangeOfAll(Nothing, p) = SumFunctionOnSet(f, Instances)
  BY DEF ChangeOfAll, SumFunction
<1>3. IsFiniteSet(Instances)
  BY CallsAssumption
<1>4. Nothing \in Log
  <2>1. <<>> \in Seq(Entry)
    OBVIOUS
  <2> QED
    BY <2>1 DEF Nothing, Log
<1> HIDE DEF f
<1> QED
  BY <1>1, <1>2, <1>3, <1>4, SumOnly

\* A log to which another is appended.
Grown(log, more, both) == \A i \in Instances : both[i] = log[i] \o more[i]

\* The changes of a log that grows by another are the sum of those of both.
LEMMA AllConcat ==
  ASSUME NEW log \in Log, NEW more \in Log, NEW both \in Log, Grown(log, more, both), NEW p
  PROVE  ChangeOfAll(both, p) = ChangeOfAll(log, p) + ChangeOfAll(more, p)
<1>0. PICK f, g, h : /\ f = [i \in Instances |-> Change(log[i], p)]
                     /\ g = [i \in Instances |-> Change(more[i], p)]
                     /\ h = [i \in Instances |-> Change(both[i], p)]
  OBVIOUS
<1>1. ASSUME NEW i \in Instances PROVE f[i] \in Int /\ g[i] \in Int /\ h[i] = f[i] + g[i]
  <2>1. log[i] \in Seq(Entry) /\ more[i] \in Seq(Entry)
    BY DEF Log
  <2>2. Change(log[i] \o more[i], p) = Change(log[i], p) + Change(more[i], p)
    BY <2>1, SumsConcat
  <2> QED
    BY <1>0, <2>1, <2>2, SumsType DEF Grown
<1>2. /\ ChangeOfAll(log, p) = SumFunctionOnSet(f, Instances) /\ ChangeOfAll(more, p) = SumFunctionOnSet(g, Instances)
      /\ ChangeOfAll(both, p) = SumFunctionOnSet(h, Instances)
  BY <1>0 DEF ChangeOfAll, SumFunction
<1>3. IsFiniteSet(Instances)
  BY CallsAssumption
<1> QED
  BY <1>1, <1>2, <1>3, SumAdd

\* A log with one more entry.
LEMMA AllAppend ==
  ASSUME NEW log \in Log, NEW i \in Instances, NEW w \in Entry, NEW p
  PROVE  ChangeOfAll([log EXCEPT ![i] = Append(log[i], w)], p) = ChangeOfAll(log, p) + Takes(w, p)
<1> DEFINE more == [log EXCEPT ![i] = Append(log[i], w)]
<1>0. PICK f, g : f = [j \in Instances |-> Change(log[j], p)] /\ g = [j \in Instances |-> Change(more[j], p)]
  OBVIOUS
<1>1. log[i] \in Seq(Entry) /\ more[i] = Append(log[i], w) /\ \A j \in Instances \ {i} : more[j] = log[j]
  BY DEF Log
<1>2. Change(more[i], p) = Change(log[i], p) + Takes(w, p)
  BY <1>1, ChangeAppend
<1>3. \A j \in Instances : f[j] \in Int
  BY <1>0, SumsType DEF Log
<1>4. g[i] \in Int /\ g[i] = f[i] + Takes(w, p) /\ Takes(w, p) \in Int /\ \A j \in Instances \ {i} : g[j] = f[j]
  BY <1>0, <1>1, <1>2, <1>3, TakesType
<1>5. ChangeOfAll(log, p) = SumFunctionOnSet(f, Instances) /\ ChangeOfAll(more, p) = SumFunctionOnSet(g, Instances)
  BY <1>0 DEF ChangeOfAll, SumFunction
<1>6. IsFiniteSet(Instances)
  BY CallsAssumption
<1> HIDE DEF more
<1>7. SumFunctionOnSet(g, Instances) = SumFunctionOnSet(f, Instances) + g[i] - f[i]
  <2>1. i \in Instances /\ g[i] \in Int /\ \A j \in Instances \ {i} : g[j] = f[j]
    BY <1>4
  <2> QED
    BY <1>3, <1>6, <2>1, SumChange
<1>8. SumFunctionOnSet(f, Instances) \in Int
  BY <1>3, <1>6, SumType
<1> QED
  BY <1>3, <1>4, <1>5, <1>7, <1>8 DEF more

\* The places of an instance in a list, one further on.
LEMMA NamedGrows ==
  ASSUME NEW ids, NEW n \in Nat, NEW i
  PROVE  /\ Cardinality(Named(ids, n, i)) \in Nat
         /\ Cardinality(Named(ids, n + 1, i)) = Cardinality(Named(ids, n, i)) + (IF ids[n + 1] = i THEN 1 ELSE 0)
         /\ Named(ids, 0, i) = {} /\ Cardinality(Named(ids, 0, i)) = 0
<1>1. IsFiniteSet(Named(ids, n, i))
  <2>1. Named(ids, n, i) \subseteq 1 .. n /\ IsFiniteSet(1 .. n)
    BY FS_Interval DEF Named
  <2> QED
    BY <2>1, FS_Subset
<1>2. Cardinality(Named(ids, n, i)) \in Nat
  BY <1>1, FS_CardinalityType
<1>3. CASE ids[n + 1] = i
  <2>1. Named(ids, n + 1, i) = Named(ids, n, i) \cup {n + 1} /\ n + 1 \notin Named(ids, n, i)
    BY <1>3 DEF Named
  <2>2. Cardinality(Named(ids, n, i) \cup {n + 1}) = Cardinality(Named(ids, n, i)) + 1
    BY <1>1, <2>1, FS_AddElement
  <2> QED
    BY <1>2, <1>3, <2>1, <2>2, FS_EmptySet DEF Named
<1>4. CASE ids[n + 1] # i
  <2>1. Named(ids, n + 1, i) = Named(ids, n, i)
    BY <1>4 DEF Named
  <2> QED
    BY <1>2, <1>4, <2>1, FS_EmptySet DEF Named
<1> QED
  BY <1>3, <1>4

--------------------------------------------------------------------------------
(* What a session knows while it works.                                         *)

\* The last entry of a sequence.
LEMMA LastOf ==
  ASSUME NEW es \in Seq(Entry)
  PROVE  /\ es # <<>> => Len(es) \in 1 .. Len(es) /\ Last(es) = es[Len(es)] /\ Last(es) \in Entry
         /\ \A w \in Entry : Last(Append(es, w)) = w /\ Append(es, w) \in Seq(Entry) /\ Append(es, w) # <<>>
<1>1. es # <<>> => Len(es) \in 1 .. Len(es) /\ es[Len(es)] \in Entry
  BY EmptySeq, ElementOfSeq
<1>2. ASSUME NEW w \in Entry PROVE Last(Append(es, w)) = w
  BY AppendProperties DEF Last
<1> QED
  BY <1>1, <1>2, AppendProperties DEF Last

\* The list of a session and its place in it.
LEMMA Place ==
  ASSUME Typed, SessionsOk, NEW s \in Sessions, pc[s] \in Walking
  PROVE  /\ call[s].ids \in Calls /\ call[s].ids \in Seq(Instances) /\ Len(call[s].ids) \in Nat
         /\ pos[s] \in 1 .. Len(call[s].ids) /\ Current(s) = call[s].ids[pos[s]] /\ Current(s) \in Instances
         /\ call[s].given \subseteq Fields /\ wrote[s] \in Log /\ posted[s] \in Log
<1>1. call[s].ids \in Calls /\ pos[s] \in 1 .. Len(call[s].ids)
  BY DEF SessionsOk, Local, Walking
<1>2. call[s].ids \in Seq(Instances) /\ call[s] \in CallRecord
  BY <1>1, CallsAssumption DEF Typed
<1>3. call[s].ids[pos[s]] \in Instances
  BY <1>1, <1>2, ElementOfSeq
<1> QED
  BY <1>1, <1>2, <1>3 DEF Typed, CallRecord, Current

\* The entry an UPDATE writes.
LEMMA NewEntry ==
  ASSUME Typed, SessionsOk, NEW s \in Sessions, pc[s] = "update", NEW i
  PROVE  /\ edge[s] \in Edges /\ edge[s].action = call[s].action
         /\ [edge |-> edge[s], due |-> Due(s, i)] \in Entry
<1>1. edge[s] \in Edges /\ edge[s].action = call[s].action
  BY DEF SessionsOk, Local
<1>2. Due(s, i) \subseteq Effects
  BY <1>1, EdgeParts DEF Due
<1> QED
  BY <1>1, <1>2 DEF Entry

\* The entry whose effects are being posted.
LEMMA PostedEntry ==
  ASSUME Typed, SessionsOk, NEW s \in Sessions, pc[s] = "effects"
  PROVE  /\ wrote[s][Current(s)] # <<>> /\ Last(wrote[s][Current(s)]) \in Entry
         /\ [posted[s] EXCEPT ![Current(s)] = Append(posted[s][Current(s)], Last(wrote[s][Current(s)]))] = wrote[s]
<1>0. pc[s] \in Walking
  BY DEF Walking
<1>1. PICK i, w, q : i = Current(s) /\ w = wrote[s] /\ q = posted[s]
  OBVIOUS
<1>2. i \in Instances /\ w \in Log /\ q \in Log /\ Current(s) = call[s].ids[pos[s]]
  BY <1>0, <1>1, Place
<1>3. w = [q EXCEPT ![i] = Append(q[i], Last(w[i]))]
  BY <1>1, <1>2 DEF SessionsOk, Local
<1>4. q[i] \in Seq(Entry) /\ w[i] \in Seq(Entry)
  BY <1>2 DEF Log
<1>5. w[i] = Append(q[i], Last(w[i]))
  BY <1>2, <1>3 DEF Log
<1>6. w[i] # <<>>
  BY <1>4, <1>5
<1> QED
  BY <1>1, <1>3, <1>4, <1>6, LastOf

\* What a session sees is a state.
LEMMA SeesState ==
  ASSUME Typed, NEW s \in Sessions, NEW i \in Instances
  PROVE  Sees(s, i) \in States \cup {None}
<1>1. wrote[s][i] \in Seq(Entry)
  BY DEF Typed, Log
<1>2. CASE wrote[s][i] = <<>>
  BY <1>2 DEF Sees, Typed
<1>3. CASE wrote[s][i] # <<>>
  <2>1. Last(wrote[s][i]).edge.to \in States
    BY <1>1, <1>3, LastOf, EdgeParts DEF Entry
  <2> QED
    BY <1>3, <2>1 DEF Sees
<1> QED
  BY <1>2, <1>3

\* What a commit does to the stock.
LEMMA CommitLevels ==
  ASSUME Typed, SessionsOk, LocksOk, NEW s \in Sessions, pc[s] = "commit", NEW p \in Products
  PROVE  /\ posted[s] = wrote[s] /\ ChangeOfAll(posted[s], p) \in Int
         /\ stock[p] + ChangeOfAll(posted[s], p) \in Nat
<1>1. posted[s] = wrote[s]
  BY DEF SessionsOk, Local
<1>2. posted[s] \in Log /\ stock[p] \in Nat
  BY DEF Typed
<1>3. ChangeOfAll(posted[s], p) \in Int
  BY <1>2, AllType
<1>4. ChangeOfAll(posted[s], p) = 0 \/ stock[p] + ChangeOfAll(posted[s], p) >= 0
  BY DEF LocksOk, Holding
<1> QED
  BY <1>1, <1>2, <1>3, <1>4

--------------------------------------------------------------------------------
(* The steps keep each part of the invariant.                                   *)

Database == /\ state \in [Instances -> States \cup {None}] /\ payload \in [Instances -> SUBSET Fields]
            /\ audit \in Log /\ docs \in [Instances -> [Kinds -> Nat]] /\ stock \in [Products -> Nat]
Locks == rowLock \in [Instances -> Sessions \cup {None}] /\ stockLock \in [Products -> Sessions \cup {None}]
Control == /\ pc \in [Sessions -> Walking \cup {"idle", "notify"}] /\ call \in [Sessions -> CallRecord]
           /\ pos \in [Sessions -> Nat] /\ edge \in [Sessions -> Edges \cup {None}]
           /\ wrote \in [Sessions -> Log] /\ posted \in [Sessions -> Log]

\* The end of a request.
LEMMA Forgets ==
  ASSUME Typed, NEW s \in Sessions, Forget(s)
  PROVE  /\ Control' /\ news' \in [Sessions -> SUBSET Event]
         /\ pc'[s] = "idle" /\ wrote'[s] = Nothing /\ posted'[s] = Nothing /\ news'[s] = {}
         /\ \A t \in Sessions \ {s} : /\ pc'[t] = pc[t] /\ call'[t] = call[t] /\ pos'[t] = pos[t] /\ edge'[t] = edge[t]
                                      /\ wrote'[t] = wrote[t] /\ posted'[t] = posted[t] /\ news'[t] = news[t]
<1>1. NoCall \in CallRecord
  <2>1. <<>> \in Seq(Instances)
    OBVIOUS
  <2> QED
    BY <2>1 DEF NoCall, CallRecord
<1>2. Nothing \in Log
  BY AllNothing
<1>3. pc' \in [Sessions -> Walking \cup {"idle", "notify"}] /\ call' \in [Sessions -> CallRecord]
  BY <1>1 DEF Typed, Forget
<1>4. pos' \in [Sessions -> Nat] /\ edge' \in [Sessions -> Edges \cup {None}]
  BY DEF Typed, Forget
<1>5. wrote' \in [Sessions -> Log] /\ posted' \in [Sessions -> Log] /\ news' \in [Sessions -> SUBSET Event]
  BY <1>2 DEF Typed, Forget
<1>6. pc'[s] = "idle" /\ wrote'[s] = Nothing /\ posted'[s] = Nothing /\ news'[s] = {}
  BY DEF Typed, Forget
<1>7. \A t \in Sessions \ {s} : pc'[t] = pc[t] /\ call'[t] = call[t] /\ pos'[t] = pos[t] /\ edge'[t] = edge[t]
  BY DEF Typed, Forget
<1>8. \A t \in Sessions \ {s} : wrote'[t] = wrote[t] /\ posted'[t] = posted[t] /\ news'[t] = news[t]
  BY DEF Typed, Forget
<1> QED
  BY <1>3, <1>4, <1>5, <1>6, <1>7, <1>8 DEF Control

\* The locks a transaction releases.
LEMMA Releases ==
  ASSUME Typed, NEW s \in Sessions, Release(s)
  PROVE  /\ Locks'
         /\ \A t \in Sessions \ {s}, p \in Products : stockLock[p] = t => stockLock'[p] = t
BY DEF Typed, Release, Locks

\* The types.
LEMMA TypedInit == Init => Typed
<1> SUFFICES ASSUME Init PROVE Typed
  OBVIOUS
<1>1. <<>> \in Seq(Entry) /\ <<>> \in Seq(Instances) /\ Nothing \in Log
  <2>1. <<>> \in Seq(Entry)
    OBVIOUS
  <2>2. <<>> \in Seq(Instances)
    OBVIOUS
  <2> QED
    BY <2>1, <2>2, AllNothing
<1>2. NoCall \in CallRecord
  BY <1>1 DEF NoCall, CallRecord
<1>3. Database
  BY <1>1, StockAssumption DEF Init, Database, Log
<1>4. Locks /\ Control /\ events \subseteq Event /\ news \in [Sessions -> SUBSET Event]
  BY <1>1, <1>2 DEF Init, Locks, Control, Event
<1> QED
  BY <1>3, <1>4 DEF Typed, Database, Locks, Control

\* The places of two lists add up.
LEMMA PlacesAdd ==
  ASSUME NEW es \in Seq(Entry), NEW fs \in Seq(Entry)
  PROVE  /\ Len(es) + Len(fs) \in Nat
         /\ \A n \in DOMAIN fs : Len(es) + n \in Nat
<1>1. Len(es) \in Nat /\ Len(fs) \in Nat /\ DOMAIN fs = 1 .. Len(fs)
  BY LenProperties
<1> QED
  BY <1>1

\* A commit keeps the types: the levels stay natural numbers because of the locks.
LEMMA CommitTyped ==
  ASSUME Typed, SessionsOk, LocksOk, NEW s \in Sessions, Commit(s)
  PROVE  Typed'
<1>0. pc[s] = "commit" /\ pc[s] \in Walking
  BY DEF Commit, Walking
<1>1. wrote[s] \in Log /\ posted[s] \in Log /\ audit \in Log /\ call[s].given \subseteq Fields
  BY <1>0, Place DEF Typed
<1>2. state' \in [Instances -> States \cup {None}]
  <2>1. state' = [i \in Instances |-> Sees(s, i)]
    BY DEF Commit
  <2>2. \A i \in Instances : Sees(s, i) \in States \cup {None}
    BY SeesState
  <2> QED
    BY <2>1, <2>2
<1>3. payload' \in [Instances -> SUBSET Fields]
  BY <1>1 DEF Typed, Commit, Merged
<1>4. audit' \in Log
  <2>1. \A i \in Instances : audit[i] \o wrote[s][i] \in Seq(Entry)
    BY <1>1, ConcatProperties DEF Log
  <2> QED
    BY <2>1 DEF Commit, Log
<1>5. docs' \in [Instances -> [Kinds -> Nat]]
  <2>1. \A i \in Instances, k \in Kinds : Documents(posted[s][i], k) \in Nat /\ docs[i][k] \in Nat
    BY <1>1, SumsType DEF Log, Typed
  <2>2. docs' = [i \in Instances |-> [k \in Kinds |-> docs[i][k] + Documents(posted[s][i], k)]]
    BY DEF Commit
  <2> QED
    BY <2>1, <2>2
<1>6. stock' \in [Products -> Nat]
  <2>1. stock' = [p \in Products |-> stock[p] + ChangeOfAll(posted[s], p)]
    BY DEF Commit
  <2> QED
    BY <1>0, <2>1, CommitLevels
<1>7. Locks'
  BY Releases DEF Commit
<1>8. Control' /\ events' \subseteq Event
  BY DEF Commit, Typed, Control
<1>9. news' \in [Sessions -> SUBSET Event]
  <2>1. Events(s) \subseteq Event
    <3>1. edge[s] \in Edges
      BY <1>0 DEF SessionsOk, Local
    <3>2. edge[s].to \in States
      BY <3>1, EdgeParts
    <3>3. PICK j : j = Last(call[s].ids)
      OBVIOUS
    <3>4. call[s].ids \in Calls /\ j \in Instances
      BY <1>0, <3>3, Place, ElementOfSeq DEF Last
    <3>5. PICK last \in Nat : last = Len(audit[j]) + Len(wrote[s][j])
      <4>1. wrote[s][j] \in Seq(Entry) /\ audit[j] \in Seq(Entry)
        BY <1>1, <3>4 DEF Log
      <4> QED
        BY <4>1, PlacesAdd
    <3>6. ASSUME NEW i \in Instances, NEW n \in DOMAIN wrote[s][i]
          PROVE  [inst |-> i, at |-> Len(audit[i]) + n, to |-> edge[s].to,
                  ids |-> call[s].ids, last |-> last] \in Event
      <4>1. wrote[s][i] \in Seq(Entry) /\ audit[i] \in Seq(Entry)
        BY <1>1 DEF Log
      <4>2. PICK at \in Nat : at = Len(audit[i]) + n
        BY <4>1, PlacesAdd
      <4> QED
        BY <3>2, <3>4, <4>2 DEF Event
    <3>7. Events(s) = UNION {{[inst |-> i, at |-> Len(audit[i]) + n, to |-> edge[s].to,
                               ids |-> call[s].ids, last |-> last] : n \in DOMAIN wrote[s][i]} : i \in Instances}
      BY <3>3, <3>5 DEF Events
    <3> QED
      BY <3>6, <3>7
  <2>2. news' = [news EXCEPT ![s] = Events(s)]
    BY DEF Commit
  <2> QED
    BY <2>1, <2>2 DEF Typed
<1>10. Database'
  BY <1>2, <1>3, <1>4, <1>5, <1>6 DEF Database
<1> QED
  BY <1>7, <1>8, <1>9, <1>10 DEF Typed, Database, Locks, Control

\* So do the writes and postings of a transaction,
LEMMA WriteTyped ==
  ASSUME Typed, SessionsOk, NEW s \in Sessions, Update(s) \/ Post(s)
  PROVE  Typed'
<1>0. pc[s] \in Walking
  BY DEF Update, Post, Walking
<1>1. PICK i : i = Current(s) /\ i \in Instances
  BY <1>0, Place
<1>2. ASSUME Update(s) PROVE Typed'
  <2>0. pc[s] = "update"
    BY <1>2 DEF Update
  <2>1. PICK w : w = [edge |-> edge[s], due |-> Due(s, i)]
    OBVIOUS
  <2>2. w \in Entry
    BY <2>0, <2>1, NewEntry
  <2>3. wrote[s] \in Log /\ wrote[s][i] \in Seq(Entry)
    BY <1>1 DEF Typed, Log
  <2>4. [wrote[s] EXCEPT ![i] = Append(wrote[s][i], w)] \in Log
    BY <1>1, <2>2, <2>3, AppendProperties DEF Log
  <2>5. wrote' = [wrote EXCEPT ![s] = [wrote[s] EXCEPT ![i] = Append(wrote[s][i], w)]]
    BY <1>1, <1>2, <2>1 DEF Update
  <2>6. wrote' \in [Sessions -> Log]
    BY <2>4, <2>5 DEF Typed
  <2>7. rowLock' \in [Instances -> Sessions \cup {None}]
    BY <1>1, <1>2 DEF Typed, Update
  <2>8. pc' \in [Sessions -> Walking \cup {"idle", "notify"}]
    BY <1>2 DEF Typed, Update, Walking
  <2>9. UNCHANGED <<database, events, stockLock, call, pos, edge, posted, news>>
    BY <1>2 DEF Update
  <2> QED
    BY <2>6, <2>7, <2>8, <2>9 DEF Typed, database
<1>3. ASSUME Post(s) PROVE Typed'
  <2>0. pc[s] = "effects"
    BY <1>3 DEF Post
  <2>1. posted' = [posted EXCEPT ![s] = wrote[s]]
    BY <1>1, <1>3, <2>0, PostedEntry DEF Post, Typed
  <2>2. posted' \in [Sessions -> Log]
    BY <2>1 DEF Typed
  <2>3. stockLock' \in [Products -> Sessions \cup {None}]
    BY <1>3 DEF Typed, Post
  <2>4. pc' \in [Sessions -> Walking \cup {"idle", "notify"}] /\ pos' \in [Sessions -> Nat]
    BY <1>3 DEF Typed, Post, Proceed, Walking
  <2>5. UNCHANGED <<database, events, rowLock, call, edge, wrote, news>>
    BY <1>3 DEF Post
  <2> QED
    BY <2>2, <2>3, <2>4, <2>5 DEF Typed, database
<1> QED
  BY <1>2, <1>3

\* and so does every other step.
LEMMA TypedNext ==
  ASSUME Typed, SessionsOk, LocksOk, [Next]_vars
  PROVE  Typed'
<1>1. CASE UNCHANGED vars
  BY <1>1 DEF Typed, vars, database
<1>2. ASSUME NEW u \in Users, NEW i \in Instances, NEW given \in SUBSET Fields, CreateInstance(u, i, given)
      PROVE  Typed'
  BY <1>2, InitialAssumption DEF Typed, CreateInstance
<1>3. ASSUME NEW s \in Sessions, NEW u \in Users, NEW ids \in Calls, NEW act \in Actions, NEW given \in SUBSET Fields,
             Call(s, u, ids, act, given)
      PROVE  Typed'
  <2>1. [ids |-> ids, user |-> u, action |-> act, given |-> given] \in CallRecord
    BY CallsAssumption DEF CallRecord
  <2>2. call' \in [Sessions -> CallRecord]
    BY <1>3, <2>1 DEF Typed, Call
  <2>3. pc' \in [Sessions -> Walking \cup {"idle", "notify"}] /\ pos' \in [Sessions -> Nat]
    BY <1>3 DEF Typed, Call, Walking
  <2>4. UNCHANGED <<database, events, rowLock, stockLock, edge, wrote, posted, news>>
    BY <1>3 DEF Call
  <2> QED
    BY <2>2, <2>3, <2>4 DEF Typed, database
<1>4. ASSUME NEW s \in Sessions, Lookup(s) PROVE Typed'
  <2>1. pc' \in [Sessions -> Walking \cup {"idle", "notify"}] /\ edge' \in [Sessions -> Edges \cup {None}]
    BY <1>4 DEF Typed, Lookup, Walking
  <2>2. UNCHANGED <<database, events, rowLock, stockLock, call, pos, wrote, posted, news>>
    BY <1>4 DEF Lookup
  <2> QED
    BY <2>1, <2>2 DEF Typed, database
<1>5. ASSUME NEW s \in Sessions, Notify(s) \/ Rollback(s) \/ CrashAfterCommit(s) PROVE Typed'
  <2>1. Control' /\ news' \in [Sessions -> SUBSET Event]
    BY <1>5, Forgets DEF Notify, Rollback, CrashAfterCommit
  <2>2. Locks'
    BY <1>5, Releases DEF Notify, Rollback, CrashAfterCommit, Locks, Typed
  <2>3. Database'
    BY <1>5 DEF Notify, Rollback, CrashAfterCommit, Database, database, Typed
  <2>4. events' \subseteq Event
    BY <1>5 DEF Notify, Rollback, CrashAfterCommit, Typed
  <2> QED
    BY <2>1, <2>2, <2>3, <2>4 DEF Typed, Database, Locks, Control
<1> QED
  BY <1>1, <1>2, <1>3, <1>4, <1>5, CommitTyped, WriteTyped DEF Next, Step

\* Only the session that steps is elsewhere afterwards.
Others(s) == \A t \in Sessions \ {s} : /\ pc'[t] = pc[t] /\ call'[t] = call[t] /\ pos'[t] = pos[t] /\ edge'[t] = edge[t]
                                       /\ wrote'[t] = wrote[t] /\ posted'[t] = posted[t]

\* It is enough to look at that session.
LEMMA OthersStay ==
  ASSUME SessionsOk, NEW s \in Sessions, Others(s),
         Local(pc'[s], call'[s], pos'[s], edge'[s], wrote'[s], posted'[s])
  PROVE  SessionsOk'
BY DEF SessionsOk, Others

\* An UPDATE writes one entry, for the place the session is at.
LEMMA UpdateLocal ==
  ASSUME Typed, SessionsOk, NEW s \in Sessions, Update(s)
  PROVE  SessionsOk'
<1>0. pc[s] = "update" /\ pc[s] \in Walking
  BY DEF Update, Walking
<1>1. PICK i, w, old, new, c, k : /\ i = Current(s) /\ w = [edge |-> edge[s], due |-> Due(s, i)]
                                  /\ old = wrote[s] /\ new = [old EXCEPT ![i] = Append(old[i], w)]
                                  /\ c = call[s] /\ k = pos[s]
  OBVIOUS
<1>2. i \in Instances /\ old \in Log /\ w \in Entry /\ w.edge = edge[s] /\ w.edge.action = c.action
  BY <1>0, <1>1, Place, NewEntry
<1>3. c.ids \in Calls /\ Len(c.ids) \in Nat /\ k \in 1 .. Len(c.ids) /\ c.ids[k] = i /\ c.user \in Users
  BY <1>0, <1>1, Place DEF SessionsOk, Local
<1>4. Written(c.ids, k - 1, old) /\ ByAction(old, c.action) /\ posted[s] = old
  BY <1>0, <1>1 DEF SessionsOk, Local, Walking
<1>5. old[i] \in Seq(Entry) /\ Append(old[i], w) \in Seq(Entry) /\ Last(Append(old[i], w)) = w
      /\ Len(Append(old[i], w)) = Len(old[i]) + 1 /\ Len(old[i]) \in Nat
  BY <1>2, LastOf, AppendProperties DEF Log
<1>6. new[i] = Append(old[i], w) /\ \A j \in Instances \ {i} : new[j] = old[j]
  BY <1>1, <1>2 DEF Log
<1>7. Written(c.ids, k, new)
  <2>1. ASSUME NEW j \in Instances PROVE Len(new[j]) = Cardinality(Named(c.ids, k, j))
    <3>1. PICK n : n = k - 1
      OBVIOUS
    <3>2. n \in Nat /\ n + 1 = k
      BY <1>3, <3>1
    <3>3. Cardinality(Named(c.ids, n + 1, j)) = Cardinality(Named(c.ids, n, j)) + (IF c.ids[n + 1] = j THEN 1 ELSE 0)
          /\ Cardinality(Named(c.ids, n, j)) \in Nat
      BY <3>2, NamedGrows
    <3>4. Len(old[j]) = Cardinality(Named(c.ids, n, j))
      BY <1>4, <3>1 DEF Written
    <3>5. CASE j = i
      BY <1>3, <1>5, <1>6, <3>2, <3>3, <3>4, <3>5
    <3>6. CASE j # i
      BY <1>3, <1>6, <3>2, <3>3, <3>4, <3>6
    <3> QED
      BY <3>5, <3>6
  <2> QED
    BY <2>1 DEF Written
<1>8. ByAction(new, c.action)
  <2>1. ASSUME NEW j \in Instances, NEW n \in 1 .. Len(new[j]) PROVE new[j][n].edge.action = c.action
    <3>1. CASE j = i
      <4>1. n <= Len(old[i]) => Append(old[i], w)[n] = old[i][n]
        BY <1>2, <1>5, <1>6, <3>1, AppendProperties
      <4>2. n = Len(old[i]) + 1 => Append(old[i], w)[n] = w
        BY <1>2, <1>5, AppendProperties
      <4>3. n \in 1 .. Len(old[i]) \/ n = Len(old[i]) + 1
        BY <1>5, <1>6, <3>1
      <4> QED
        BY <1>2, <1>4, <1>6, <3>1, <4>1, <4>2, <4>3 DEF ByAction
    <3>2. CASE j # i
      BY <1>4, <1>6, <3>2 DEF ByAction
    <3> QED
      BY <3>1, <3>2
  <2> QED
    BY <2>1 DEF ByAction
<1>9. /\ pc'[s] = "effects" /\ call'[s] = c /\ pos'[s] = k /\ edge'[s] = edge[s] /\ wrote'[s] = new /\ posted'[s] = old
      /\ edge[s] \in Edges /\ edge[s].action = c.action
  BY <1>0, <1>1, <1>2, <1>4, NewEntry DEF Update, Typed
<1>10. Last(new[c.ids[k]]).edge = edge[s] /\ new = [old EXCEPT ![c.ids[k]] = Append(old[c.ids[k]], Last(new[c.ids[k]]))]
  BY <1>1, <1>2, <1>3, <1>5, <1>6
<1>11. Local(pc'[s], call'[s], pos'[s], edge'[s], wrote'[s], posted'[s])
  BY <1>3, <1>7, <1>8, <1>9, <1>10 DEF Local
<1>12. Others(s)
  BY DEF Others, Update, Typed
<1> QED
  BY <1>11, <1>12, OthersStay

\* Posting catches up with what was written.
LEMMA PostLocal ==
  ASSUME Typed, SessionsOk, NEW s \in Sessions, Post(s)
  PROVE  SessionsOk' /\ posted'[s] = wrote[s]
<1>0. pc[s] = "effects" /\ pc[s] \in Walking
  BY DEF Post, Walking
<1>1. posted' = [posted EXCEPT ![s] = wrote[s]]
  BY <1>0, PostedEntry DEF Post, Typed
<1>2. PICK c, k, w : c = call[s] /\ k = pos[s] /\ w = wrote[s]
  OBVIOUS
<1>3. c.ids \in Calls /\ Len(c.ids) \in Nat /\ k \in 1 .. Len(c.ids) /\ c.user \in Users
  BY <1>0, <1>2, Place DEF SessionsOk, Local
<1>4. /\ Written(c.ids, k, w) /\ ByAction(w, c.action) /\ Last(w[c.ids[k]]).edge = edge[s]
      /\ edge[s] \in Edges /\ edge[s].action = c.action
  BY <1>0, <1>2 DEF SessionsOk, Local, Walking
<1>5. call'[s] = c /\ edge'[s] = edge[s] /\ wrote'[s] = w /\ posted'[s] = w
  BY <1>1, <1>2 DEF Post, Typed
<1>6. ASSUME k < Len(c.ids) PROVE Local(pc'[s], call'[s], pos'[s], edge'[s], wrote'[s], posted'[s])
  <2>1. pc'[s] = "lookup" /\ pos'[s] = k + 1
    BY <1>2, <1>6 DEF Post, Proceed, Typed
  <2>2. k + 1 \in 1 .. Len(c.ids) /\ (k + 1) - 1 = k
    BY <1>3, <1>6
  <2>3. Written(c.ids, (k + 1) - 1, w)
    BY <1>4, <2>2
  <2> QED
    BY <1>3, <1>4, <1>5, <2>1, <2>2, <2>3 DEF Local, Walking
<1>7. ASSUME ~(k < Len(c.ids)) PROVE Local(pc'[s], call'[s], pos'[s], edge'[s], wrote'[s], posted'[s])
  <2>1. pc'[s] = "commit" /\ pos'[s] = k
    BY <1>2, <1>7 DEF Post, Proceed, Typed
  <2>2. k = Len(c.ids)
    BY <1>3, <1>7
  <2> QED
    BY <1>3, <1>4, <1>5, <2>1, <2>2 DEF Local, Walking
<1>8. Local(pc'[s], call'[s], pos'[s], edge'[s], wrote'[s], posted'[s])
  BY <1>6, <1>7
<1>9. Others(s)
  BY DEF Others, Post, Proceed, Typed
<1> QED
  BY <1>2, <1>5, <1>8, <1>9, OthersStay

\* Each step leaves each session where its place, its entries and its postings agree.
LEMMA SessionsNext ==
  ASSUME Typed, SessionsOk, [Next]_vars
  PROVE  SessionsOk'
<1>1. CASE UNCHANGED <<pc, call, pos, edge, wrote, posted>>
  BY <1>1 DEF SessionsOk
<1>2. ASSUME NEW u \in Users, NEW i \in Instances, NEW given \in SUBSET Fields, CreateInstance(u, i, given)
      PROVE  SessionsOk'
  BY <1>1, <1>2 DEF CreateInstance
<1>3. ASSUME NEW s \in Sessions, NEW u \in Users, NEW ids \in Calls, NEW act \in Actions, NEW given \in SUBSET Fields,
             Call(s, u, ids, act, given)
      PROVE  SessionsOk'
  <2>1. wrote[s] = Nothing /\ posted[s] = Nothing
    BY <1>3 DEF SessionsOk, Local, Call
  <2>2. /\ pc'[s] = "lookup" /\ pos'[s] = 1 /\ edge'[s] = edge[s] /\ wrote'[s] = Nothing /\ posted'[s] = Nothing
        /\ call'[s].ids = ids /\ call'[s].user = u /\ call'[s].action = act
    BY <1>3, <2>1 DEF Call, Typed
  <2>3. Len(ids) \in Nat /\ 1 \in 1 .. Len(ids)
    <3>1. ids \in Seq(Instances) /\ ids # <<>>
      BY CallsAssumption
    <3> QED
      BY <3>1, EmptySeq
  <2>4. Written(ids, 1 - 1, Nothing) /\ ByAction(Nothing, act)
    <3>1. \A j \in Instances : Nothing[j] = <<>> /\ Len(Nothing[j]) = 0
      BY DEF Nothing
    <3>2. \A j \in Instances : Cardinality(Named(ids, 0, j)) = 0
      BY NamedGrows
    <3>3. 1 - 1 = 0
      OBVIOUS
    <3>4. Written(ids, 1 - 1, Nothing)
      BY <3>1, <3>2, <3>3 DEF Written
    <3>5. ByAction(Nothing, act)
      BY <3>1 DEF ByAction
    <3> QED
      BY <3>4, <3>5
  <2>5. Local(pc'[s], call'[s], pos'[s], edge'[s], wrote'[s], posted'[s])
    BY <2>2, <2>3, <2>4 DEF Local
  <2>6. Others(s)
    BY <1>3 DEF Others, Call, Typed
  <2> QED
    BY <2>5, <2>6, OthersStay
<1>4. ASSUME NEW s \in Sessions, Lookup(s) PROVE SessionsOk'
  <2>1. PICK e \in Edges : e.action = call[s].action /\ edge' = [edge EXCEPT ![s] = e]
    BY <1>4 DEF Lookup
  <2>2. /\ pc[s] = "lookup" /\ pc'[s] = "update" /\ call'[s] = call[s] /\ pos'[s] = pos[s] /\ edge'[s] = e
        /\ wrote'[s] = wrote[s] /\ posted'[s] = posted[s]
    BY <1>4, <2>1 DEF Lookup, Typed
  <2>3. Local("lookup", call[s], pos[s], edge[s], wrote[s], posted[s])
    BY <2>2 DEF SessionsOk
  <2>4. Local(pc'[s], call'[s], pos'[s], edge'[s], wrote'[s], posted'[s])
    BY <2>1, <2>2, <2>3 DEF Local, Walking
  <2>5. Others(s)
    BY <1>4, <2>1 DEF Others, Lookup, Typed
  <2> QED
    BY <2>4, <2>5, OthersStay
<1>5. ASSUME NEW s \in Sessions, Commit(s) PROVE SessionsOk'
  <2>1. /\ pc[s] = "commit" /\ pc'[s] = "notify" /\ call'[s] = call[s] /\ pos'[s] = pos[s] /\ edge'[s] = edge[s]
        /\ wrote'[s] = wrote[s] /\ posted'[s] = posted[s]
    BY <1>5 DEF Commit, Typed
  <2>2. Local("commit", call[s], pos[s], edge[s], wrote[s], posted[s])
    BY <2>1 DEF SessionsOk
  <2>3. Local(pc'[s], call'[s], pos'[s], edge'[s], wrote'[s], posted'[s])
    BY <2>1, <2>2 DEF Local, Walking
  <2>4. Others(s)
    BY <1>5 DEF Others, Commit, Typed
  <2> QED
    BY <2>3, <2>4, OthersStay
<1>6. ASSUME NEW s \in Sessions, Notify(s) \/ Rollback(s) \/ CrashAfterCommit(s) PROVE SessionsOk'
  <2>1. /\ pc'[s] = "idle" /\ wrote'[s] = Nothing /\ posted'[s] = Nothing /\ Others(s)
    BY <1>6, Forgets DEF Notify, Rollback, CrashAfterCommit, Others
  <2>2. Local(pc'[s], call'[s], pos'[s], edge'[s], wrote'[s], posted'[s])
    BY <2>1 DEF Local, Walking
  <2> QED
    BY <2>1, <2>2, OthersStay
<1> QED
  BY <1>1, <1>2, <1>3, <1>4, <1>5, <1>6, UpdateLocal, PostLocal DEF Next, Step, vars

\* Steps that leave the stock and what is posted alone.
LEMMA LocksStay ==
  ASSUME LocksOk, UNCHANGED <<stock, stockLock, posted>>, \A s \in Sessions : pc'[s] # "notify" => pc[s] # "notify"
  PROVE  LocksOk'
BY DEF LocksOk

\* A transaction locks the stock before it takes of it, and leaves no less than nothing.
LEMMA PostLocks ==
  ASSUME Typed, SessionsOk, LocksOk, NEW s \in Sessions, Post(s)
  PROVE  LocksOk'
<1>0. pc[s] = "effects" /\ pc[s] \in Walking
  BY DEF Post, Walking
<1>1. PICK i, w, q : i = Current(s) /\ w = Last(wrote[s][i]) /\ q = posted[s]
  OBVIOUS
<1>2. i \in Instances /\ w \in Entry /\ q \in Log
  BY <1>0, <1>1, Place, PostedEntry
<1>3. posted' = [posted EXCEPT ![s] = [q EXCEPT ![i] = Append(q[i], w)]]
  BY <1>1 DEF Post
<1>4. posted'[s] = [q EXCEPT ![i] = Append(q[i], w)] /\ \A t \in Sessions \ {s} : posted'[t] = posted[t] /\ pc'[t] = pc[t]
  BY <1>3 DEF Typed, Post, Proceed
<1>5. stock' = stock
  BY DEF Post, database
<1>6. ASSUME NEW t \in Sessions \ {s}, NEW p \in Products, pc[t] # "notify"
      PROVE  Holding(stockLock'[p], t, stock[p], ChangeOfAll(posted[t], p))
  <2>1. Holding(stockLock[p], t, stock[p], ChangeOfAll(posted[t], p))
    BY <1>6 DEF LocksOk
  <2>2. stockLock[p] = t => stockLock'[p] = t
    BY NoneAssumption DEF Post, Typed
  <2> QED
    BY <2>1, <2>2 DEF Holding
<1>7. ASSUME NEW p \in Products
      PROVE  Holding(stockLock'[p], s, stock[p], ChangeOfAll(posted'[s], p))
  <2>0. PICK a, b : a = ChangeOfAll(q, p) /\ b = ChangeOfAll(posted'[s], p)
    OBVIOUS
  <2>1. b = a + Takes(w, p) /\ a \in Int /\ Takes(w, p) \in Int
    <3>1. ChangeOfAll([q EXCEPT ![i] = Append(q[i], w)], p) = ChangeOfAll(q, p) + Takes(w, p)
      BY <1>2, AllAppend
    <3>2. ChangeOfAll(q, p) \in Int /\ Takes(w, p) \in Int
      BY <1>2, AllType, TakesType
    <3> QED
      BY <1>4, <2>0, <3>1, <3>2
  <2>2. Holding(stockLock[p], s, stock[p], a)
    BY <1>0, <1>1, <2>0 DEF LocksOk
  <2>3. CASE "stock" \in w.due /\ w.edge.product = p
    <3>1. stockLock'[p] = s /\ stock[p] + a + w.edge.change >= 0
      BY <1>1, <2>0, <2>3 DEF Post, Typed
    <3>2. Takes(w, p) = w.edge.change
      BY <2>3 DEF Takes
    <3>3. stock[p] \in Nat
      BY DEF Typed
    <3> QED
      BY <2>0, <2>1, <3>1, <3>2, <3>3 DEF Holding
  <2>4. CASE ~("stock" \in w.due /\ w.edge.product = p)
    <3>1. Takes(w, p) = 0
      BY <2>4 DEF Takes
    <3>2. stockLock[p] = s => stockLock'[p] = s
      BY DEF Post, Typed
    <3>3. a = b
      BY <2>1, <3>1
    <3> QED
      BY <2>0, <2>2, <3>2, <3>3 DEF Holding
  <2> QED
    BY <2>3, <2>4
<1> QED
  BY <1>4, <1>5, <1>6, <1>7 DEF LocksOk

\* A commit changes no stock that somebody else has locked.
LEMMA CommitLocks ==
  ASSUME Typed, SessionsOk, LocksOk, NEW s \in Sessions, Commit(s)
  PROVE  LocksOk'
<1>1. pc[s] = "commit" /\ pc'[s] = "notify" /\ posted' = posted /\ \A t \in Sessions \ {s} : pc'[t] = pc[t]
  BY DEF Commit, Typed
<1>2. ASSUME NEW t \in Sessions \ {s}, NEW p \in Products, pc[t] # "notify"
      PROVE  Holding(stockLock'[p], t, stock'[p], ChangeOfAll(posted[t], p))
  <2>1. Holding(stockLock[p], t, stock[p], ChangeOfAll(posted[t], p)) /\ Holding(stockLock[p], s, stock[p], ChangeOfAll(posted[s], p))
    BY <1>1, <1>2 DEF LocksOk
  <2>2. stock'[p] = stock[p] + ChangeOfAll(posted[s], p) /\ stock[p] \in Nat
    BY DEF Commit, Typed
  <2>3. CASE ChangeOfAll(posted[t], p) = 0
    BY <2>3 DEF Holding
  <2>4. CASE ChangeOfAll(posted[t], p) # 0
    <3>1. stockLock[p] = t /\ stock[p] + ChangeOfAll(posted[t], p) >= 0
      BY <2>1, <2>4 DEF Holding
    <3>2. ChangeOfAll(posted[s], p) = 0
      BY <2>1, <3>1 DEF Holding
    <3>3. stock'[p] = stock[p]
      BY <2>2, <3>2
    <3>4. stockLock'[p] = t
      BY <3>1, Releases DEF Commit
    <3> QED
      BY <3>1, <3>3, <3>4 DEF Holding
  <2> QED
    BY <2>3, <2>4
<1> QED
  BY <1>1, <1>2 DEF LocksOk

\* Every step keeps what sessions hold of the stock.
LEMMA LocksNext ==
  ASSUME Typed, SessionsOk, LocksOk, [Next]_vars
  PROVE  LocksOk'
<1>1. CASE UNCHANGED vars
  BY <1>1, LocksStay DEF vars, database
<1>2. ASSUME NEW u \in Users, NEW i \in Instances, NEW given \in SUBSET Fields, CreateInstance(u, i, given)
      PROVE  LocksOk'
  BY <1>2, LocksStay DEF CreateInstance
<1>3. ASSUME NEW s \in Sessions, NEW u \in Users, NEW ids \in Calls, NEW act \in Actions, NEW given \in SUBSET Fields,
             Call(s, u, ids, act, given)
      PROVE  LocksOk'
  <2>1. UNCHANGED <<stock, stockLock, posted>> /\ \A t \in Sessions : pc'[t] # "notify" => pc[t] # "notify"
    BY <1>3 DEF Call, database, Typed
  <2> QED
    BY <2>1, LocksStay
<1>4. ASSUME NEW s \in Sessions, Lookup(s) \/ Update(s) PROVE LocksOk'
  <2>1. UNCHANGED <<stock, stockLock, posted>> /\ \A t \in Sessions : pc'[t] # "notify" => pc[t] # "notify"
    BY <1>4 DEF Lookup, Update, database, Typed
  <2> QED
    BY <2>1, LocksStay
<1>5. ASSUME NEW s \in Sessions, Notify(s) \/ Rollback(s) \/ CrashAfterCommit(s) PROVE LocksOk'
  <2>1. posted'[s] = Nothing /\ \A t \in Sessions \ {s} : posted'[t] = posted[t] /\ pc'[t] = pc[t]
    BY <1>5, Forgets DEF Notify, Rollback, CrashAfterCommit
  <2>2. stock' = stock
    BY <1>5 DEF Notify, Rollback, CrashAfterCommit, database
  <2>3. \A t \in Sessions \ {s}, p \in Products : stockLock[p] = t => stockLock'[p] = t
    BY <1>5, Releases DEF Notify, Rollback, CrashAfterCommit
  <2>4. \A p \in Products : Holding(stockLock'[p], s, stock[p], ChangeOfAll(posted'[s], p))
    BY <2>1, AllNothing DEF Holding
  <2>5. ASSUME NEW t \in Sessions \ {s}, NEW p \in Products, pc[t] # "notify"
        PROVE  Holding(stockLock'[p], t, stock[p], ChangeOfAll(posted[t], p))
    BY <2>3, <2>5 DEF Holding, LocksOk
  <2> QED
    BY <2>1, <2>2, <2>4, <2>5 DEF LocksOk
<1> QED
  BY <1>1, <1>2, <1>3, <1>4, <1>5, PostLocks, CommitLocks DEF Next, Step

--------------------------------------------------------------------------------
(* The audit log, and what is derived from it.                                  *)

\* Only a commit changes the log, the documents or the stock; only a Notify sends news.
Quiet == UNCHANGED <<audit, docs, stock>>

\* The steps by what they do to those.
LEMMA StepKinds ==
  ASSUME Typed, [Next]_vars
  PROVE  \/ \E s \in Sessions : Commit(s)
         \/ Quiet /\ events' = events /\ \A t \in Sessions : news'[t] = news[t] \/ news'[t] = {}
         \/ Quiet /\ \E s \in Sessions : events' = news[s] /\ \A t \in Sessions : news'[t] = news[t] \/ news'[t] = {}
<1>1. CASE UNCHANGED vars
  BY <1>1 DEF vars, database, Quiet
<1>2. ASSUME NEW u \in Users, NEW i \in Instances, NEW given \in SUBSET Fields, CreateInstance(u, i, given)
      PROVE  Quiet /\ UNCHANGED <<events, news>>
  BY <1>2 DEF CreateInstance, Quiet
<1>3. ASSUME NEW s \in Sessions, NEW u \in Users, NEW ids \in Calls, NEW act \in Actions, NEW given \in SUBSET Fields,
             Call(s, u, ids, act, given)
      PROVE  Quiet /\ UNCHANGED <<events, news>>
  BY <1>3 DEF Call, database, Quiet
<1>4. ASSUME NEW s \in Sessions, Lookup(s) \/ Update(s) \/ Post(s)
      PROVE  Quiet /\ UNCHANGED <<events, news>>
  BY <1>4 DEF Lookup, Update, Post, database, Quiet
<1>5. ASSUME NEW s \in Sessions, Notify(s) \/ Rollback(s) \/ CrashAfterCommit(s)
      PROVE  Quiet /\ events' \in {events, news[s]} /\ \A t \in Sessions : news'[t] = news[t] \/ news'[t] = {}
  <2>1. Quiet /\ events' \in {events, news[s]}
    BY <1>5 DEF Notify, Rollback, CrashAfterCommit, database, Quiet
  <2>2. \A t \in Sessions : news'[t] = news[t] \/ news'[t] = {}
    BY <1>5, Forgets DEF Notify, Rollback, CrashAfterCommit
  <2> QED
    BY <2>1, <2>2
<1> QED
  BY <1>1, <1>2, <1>3, <1>4, <1>5 DEF Next, Step, vars

\* The place of an entry in a sequence that grows.
LEMMA Kept ==
  ASSUME NEW es \in Seq(Entry), NEW fs \in Seq(Entry), NEW n \in DOMAIN es
  PROVE  n \in DOMAIN (es \o fs) /\ (es \o fs)[n] = es[n]
BY ConcatProperties

\* What was true of a log stays so when it grows.
LEMMA TruthGrows ==
  ASSUME NEW log \in Log, NEW more \in Log, NEW both, Grown(log, more, both),
         NEW v \in Event, Truth(v, log)
  PROVE  Truth(v, both)
<1>1. v.inst \in Instances /\ Last(v.ids) \in Instances
  <2>1. v.ids \in Seq(Instances) /\ v.ids # <<>> /\ v.inst \in Instances
    BY CallsAssumption DEF Event
  <2>2. Len(v.ids) \in 1 .. Len(v.ids)
    BY <2>1
  <2> QED
    BY <2>1, <2>2, ElementOfSeq DEF Last
<1>2. ASSUME NEW i \in Instances, NEW n \in DOMAIN log[i]
      PROVE  n \in DOMAIN both[i] /\ both[i][n] = log[i][n]
  <2>1. log[i] \in Seq(Entry) /\ more[i] \in Seq(Entry) /\ both[i] = log[i] \o more[i]
    BY DEF Log, Grown
  <2> QED
    BY <2>1, Kept
<1>3. v.at \in DOMAIN log[v.inst] /\ v.last \in DOMAIN log[Last(v.ids)]
  BY DEF Truth
<1>4. /\ v.at \in DOMAIN both[v.inst] /\ both[v.inst][v.at] = log[v.inst][v.at]
      /\ v.last \in DOMAIN both[Last(v.ids)] /\ both[Last(v.ids)][v.last] = log[Last(v.ids)][v.last]
  BY <1>1, <1>2, <1>3
<1> QED
  BY <1>4 DEF Truth

\* The place of an entry that was appended.
LEMMA Appended ==
  ASSUME NEW es \in Seq(Entry), NEW fs \in Seq(Entry), NEW n \in DOMAIN fs
  PROVE  Len(es) + n \in DOMAIN (es \o fs) /\ (es \o fs)[Len(es) + n] = fs[n] /\ n \in 1 .. Len(fs)
BY ConcatProperties

\* What a committed transaction will announce is true.
LEMMA CommitNews ==
  ASSUME Typed, SessionsOk, NEW s \in Sessions, Commit(s), NEW v \in Events(s)
  PROVE  Truth(v, audit')
<1>0. pc[s] = "commit" /\ pc[s] \in Walking
  BY DEF Commit, Walking
<1>1. PICK c, k, e, w : c = call[s] /\ k = pos[s] /\ e = edge[s] /\ w = wrote[s]
  OBVIOUS
<1>2. /\ c.ids \in Calls /\ Len(c.ids) \in Nat /\ k \in 1 .. Len(c.ids) /\ k = Len(c.ids)
      /\ w \in Log /\ audit \in Log /\ c.ids \in Seq(Instances)
  BY <1>0, <1>1, Place DEF SessionsOk, Local, Typed
<1>3. Written(c.ids, k, w) /\ ByAction(w, c.action) /\ Last(w[c.ids[k]]).edge = e /\ e \in Edges /\ e.action = c.action
  BY <1>0, <1>1 DEF SessionsOk, Local, Walking
<1>a. PICK j : j = Last(call[s].ids)
  OBVIOUS
<1>b. PICK i \in Instances : v \in {[inst |-> i, at |-> Len(audit[i]) + n, to |-> edge[s].to,
                                    ids |-> call[s].ids, last |-> Len(audit[j]) + Len(wrote[s][j])] :
                                      n \in DOMAIN wrote[s][i]}
  BY <1>a DEF Events
<1>4. PICK n \in DOMAIN w[i] : v = [inst |-> i, at |-> Len(audit[i]) + n, to |-> e.to,
                                   ids |-> c.ids, last |-> Len(audit[j]) + Len(w[j])]
  BY <1>1, <1>b
<1>5. audit'[i] = audit[i] \o w[i] /\ audit[i] \in Seq(Entry) /\ w[i] \in Seq(Entry)
  BY <1>1, <1>2 DEF Commit, Log
<1>6. /\ v.at \in DOMAIN audit'[i] /\ audit'[i][v.at] = w[i][n] /\ n \in 1 .. Len(w[i])
      /\ v.inst = i /\ v.to = e.to /\ v.ids = c.ids /\ v.last = Len(audit[j]) + Len(w[j])
  BY <1>4, <1>5, Appended
<1>7. j = c.ids[k] /\ j \in Instances
  BY <1>1, <1>2, <1>a, ElementOfSeq DEF Last
<1>8. audit'[j] = audit[j] \o w[j] /\ audit[j] \in Seq(Entry) /\ w[j] \in Seq(Entry)
  BY <1>1, <1>2, <1>7 DEF Commit, Log
<1>9. Len(w[j]) \in DOMAIN w[j] /\ Last(w[j]) = w[j][Len(w[j])]
  <2>1. k - 1 \in Nat /\ (k - 1) + 1 = k
    BY <1>2
  <2>2. Cardinality(Named(c.ids, k - 1, j)) \in Nat
        /\ Cardinality(Named(c.ids, k, j)) = Cardinality(Named(c.ids, k - 1, j)) + 1
    <3>1. Cardinality(Named(c.ids, (k - 1) + 1, j)) =
            Cardinality(Named(c.ids, k - 1, j)) + (IF c.ids[(k - 1) + 1] = j THEN 1 ELSE 0)
          /\ Cardinality(Named(c.ids, k - 1, j)) \in Nat
      BY <2>1, NamedGrows
    <3> QED
      BY <1>7, <2>1, <3>1
  <2>3. Len(w[j]) = Cardinality(Named(c.ids, k, j))
    BY <1>3, <1>7 DEF Written
  <2>4. Len(w[j]) >= 1 /\ Len(w[j]) \in Nat
    BY <1>8, <2>2, <2>3
  <2> QED
    BY <1>8, <2>4 DEF Last
<1>10. v.last \in DOMAIN audit'[j] /\ audit'[j][v.last] = Last(w[j])
  <2>1. PICK es, fs, m : es = audit[j] /\ fs = w[j] /\ m = Len(w[j])
    OBVIOUS
  <2>2. es \in Seq(Entry) /\ fs \in Seq(Entry) /\ m \in DOMAIN fs
    BY <1>8, <1>9, <2>1
  <2>3. Len(es) + m \in DOMAIN (es \o fs) /\ (es \o fs)[Len(es) + m] = fs[m]
    BY <2>2, Appended
  <2> QED
    BY <1>6, <1>8, <1>9, <2>1, <2>3
<1>11. v.to = audit'[j][v.last].edge.to /\ Last(v.ids) = j
  BY <1>1, <1>3, <1>6, <1>7, <1>10, <1>a
<1>12. ASSUME Len(c.ids) = 1 PROVE audit'[i][v.at].edge.to = v.to
  <2>1. k = 1 /\ \A m \in 1 .. k : c.ids[m] = j
    BY <1>2, <1>7, <1>12
  <2>2. i = j /\ Len(w[j]) = 1
    <3>1. Len(w[i]) = Cardinality(Named(c.ids, 0 + 1, i))
      BY <1>3, <2>1 DEF Written
    <3>2. Cardinality(Named(c.ids, 0 + 1, i)) = IF c.ids[0 + 1] = i THEN 1 ELSE 0
      <4>1. Cardinality(Named(c.ids, 0 + 1, i)) = Cardinality(Named(c.ids, 0, i)) + (IF c.ids[0 + 1] = i THEN 1 ELSE 0)
            /\ Cardinality(Named(c.ids, 0, i)) = 0
        BY NamedGrows
      <4> QED
        BY <4>1
    <3>3. Len(w[i]) \in Nat /\ Len(w[i]) # 0
      BY <1>5, <1>6
    <3>4. c.ids[0 + 1] = i
      BY <3>1, <3>2, <3>3
    <3>5. c.ids[1] = j
      BY <2>1
    <3>6. i = j
      BY <3>4, <3>5
    <3> QED
      BY <3>1, <3>2, <3>4, <3>6
  <2>3. n = 1 /\ w[i][n] = Last(w[j])
    BY <1>6, <1>9, <2>2
  <2> QED
    BY <1>3, <1>6, <1>7, <2>3
<1> QED
  BY <1>6, <1>10, <1>11, <1>12 DEF Truth

\* Announced and pending events stay true.
LEMMA TruthNext ==
  ASSUME Typed, SessionsOk, EventsOk, NewsOk, [Next]_vars
  PROVE  EventsOk' /\ NewsOk'
<1>1. ASSUME NEW s \in Sessions, Commit(s) PROVE EventsOk' /\ NewsOk'
  <2>0. pc[s] \in Walking
    BY <1>1 DEF Commit, Walking
  <2>1. wrote[s] \in Log /\ audit \in Log
    BY <2>0, Place DEF Typed
  <2>2. PICK log, more, both : /\ log = audit /\ more = wrote[s] /\ both = audit'
                               /\ log \in Log /\ more \in Log /\ Grown(log, more, both)
    <3>1. Grown(audit, wrote[s], audit')
      BY <1>1 DEF Commit, Grown
    <3>2. PICK both : both = audit'
      OBVIOUS
    <3> QED
      BY <2>1, <3>1, <3>2
  <2>3. \A v \in Event : Truth(v, audit) => Truth(v, audit')
    <3>1. \A v \in Event : Truth(v, log) => Truth(v, both)
      BY <2>2, TruthGrows
    <3> QED
      BY <2>2, <3>1
  <2>4. EventsOk'
    BY <1>1, <2>3 DEF EventsOk, Commit, Typed
  <2>5. news' = [news EXCEPT ![s] = Events(s)]
    BY <1>1 DEF Commit
  <2>6. ASSUME NEW t \in Sessions, NEW v \in news'[t] PROVE Truth(v, audit')
    <3>1. CASE t = s
      BY <1>1, <2>5, <3>1, CommitNews DEF Typed
    <3>2. CASE t # s
      <4>1. v \in news[t] /\ v \in Event
        BY <2>5, <3>2 DEF Typed
      <4> QED
        BY <2>3, <4>1 DEF NewsOk
    <3> QED
      BY <3>1, <3>2
  <2> QED
    BY <2>4, <2>6 DEF NewsOk
<1>2. ASSUME Quiet, events' = events, \A t \in Sessions : news'[t] = news[t] \/ news'[t] = {}
      PROVE  EventsOk' /\ NewsOk'
  BY <1>2 DEF EventsOk, NewsOk, Quiet
<1>3. ASSUME Quiet, NEW s \in Sessions, events' = news[s], \A t \in Sessions : news'[t] = news[t] \/ news'[t] = {}
      PROVE  EventsOk' /\ NewsOk'
  BY <1>3 DEF EventsOk, NewsOk, Quiet
<1> QED
  BY <1>1, <1>2, <1>3, StepKinds

\* The documents and the stock move with the log.
LEMMA SyncNext ==
  ASSUME Typed, SessionsOk, LocksOk, LedgerInSync, StockInSync, [Next]_vars
  PROVE  LedgerInSync' /\ StockInSync'
<1>1. ASSUME NEW s \in Sessions, Commit(s) PROVE LedgerInSync' /\ StockInSync'
  <2>0. pc[s] = "commit" /\ pc[s] \in Walking /\ posted[s] = wrote[s]
    BY <1>1 DEF Commit, Walking, SessionsOk, Local
  <2>1. wrote[s] \in Log /\ audit \in Log
    BY <2>0, Place DEF Typed
  <2>2. \A i \in Instances : audit'[i] = audit[i] \o wrote[s][i] /\ audit[i] \in Seq(Entry) /\ wrote[s][i] \in Seq(Entry)
    BY <1>1, <2>1 DEF Commit, Log
  <2>3. ASSUME NEW i \in Instances, NEW k \in Kinds PROVE docs'[i][k] = Documents(audit'[i], k)
    <3>1. docs'[i][k] = docs[i][k] + Documents(wrote[s][i], k)
      BY <1>1, <2>0 DEF Commit
    <3>2. Documents(audit[i] \o wrote[s][i], k) = Documents(audit[i], k) + Documents(wrote[s][i], k)
      BY <2>2, SumsConcat
    <3> QED
      BY <2>2, <3>1, <3>2 DEF LedgerInSync
  <2>4. ASSUME NEW p \in Products PROVE stock'[p] >= 0 /\ stock'[p] = Stock[p] + ChangeOfAll(audit', p)
    <3>1. stock'[p] = stock[p] + ChangeOfAll(wrote[s], p)
      BY <1>1, <2>0 DEF Commit
    <3>2. stock'[p] \in Nat
      BY <2>0, <3>1, CommitLevels
    <3>3. PICK both : both = audit'
      OBVIOUS
    <3>4. both \in Log /\ \A i \in Instances : both[i] = audit[i] \o wrote[s][i]
      <4>1. Typed'
        BY CommitTyped, <1>1
      <4> QED
        BY <2>2, <3>3, <4>1 DEF Typed
    <3>5. ChangeOfAll(both, p) = ChangeOfAll(audit, p) + ChangeOfAll(wrote[s], p)
      <4>1. PICK log, more : log = audit /\ more = wrote[s]
        OBVIOUS
      <4>2. log \in Log /\ more \in Log /\ both \in Log
        BY <2>1, <3>4, <4>1
      <4>3. Grown(log, more, both)
        BY <3>4, <4>1 DEF Grown
      <4>4. ChangeOfAll(both, p) = ChangeOfAll(log, p) + ChangeOfAll(more, p)
        BY <4>2, <4>3, AllConcat
      <4> QED
        BY <4>1, <4>4
    <3>6. stock[p] = Stock[p] + ChangeOfAll(audit, p) /\ Stock[p] \in Nat
      BY StockAssumption DEF StockInSync
    <3>7. ChangeOfAll(audit, p) \in Int /\ ChangeOfAll(wrote[s], p) \in Int
      BY <2>1, AllType
    <3>8. stock'[p] = Stock[p] + ChangeOfAll(both, p)
      BY <3>1, <3>5, <3>6, <3>7
    <3> QED
      BY <3>2, <3>3, <3>8
  <2> QED
    BY <2>3, <2>4 DEF LedgerInSync, StockInSync
<1>2. ASSUME Quiet PROVE LedgerInSync' /\ StockInSync'
  BY <1>2 DEF Quiet, LedgerInSync, StockInSync
<1> QED
  BY <1>1, <1>2, StepKinds

\* A commit appends one entry for each place of the list.
LEMMA NotifyStep ==
  ASSUME Typed, SessionsOk, [Next]_vars, NEW s \in Sessions, pc[s] # "notify", pc'[s] = "notify", NEW i \in Instances
  PROVE  Len(audit'[i]) - Len(audit[i]) = Cardinality({n \in DOMAIN call[s].ids : call[s].ids[n] = i})
<1>1. Commit(s)
  <2>1. CASE UNCHANGED vars
    BY <2>1 DEF vars
  <2>2. ASSUME NEW u \in Users, NEW j \in Instances, NEW given \in SUBSET Fields, CreateInstance(u, j, given) PROVE FALSE
    BY <2>2 DEF CreateInstance
  <2>3. ASSUME NEW t \in Sessions, NEW u \in Users, NEW ids \in Calls, NEW act \in Actions, NEW given \in SUBSET Fields,
               Call(t, u, ids, act, given)
        PROVE  FALSE
    BY <2>3 DEF Call, Typed
  <2>4. ASSUME NEW t \in Sessions, Lookup(t) \/ Update(t) \/ Post(t) PROVE FALSE
    BY <2>4 DEF Lookup, Update, Post, Proceed, Typed
  <2>5. ASSUME NEW t \in Sessions, Notify(t) \/ Rollback(t) \/ CrashAfterCommit(t) PROVE FALSE
    BY <2>5, Forgets DEF Notify, Rollback, CrashAfterCommit
  <2>6. ASSUME NEW t \in Sessions, Commit(t) PROVE t = s
    BY <2>6 DEF Commit, Typed
  <2> QED
    BY <2>1, <2>2, <2>3, <2>4, <2>5, <2>6 DEF Next, Step
<1>2. pc[s] = "commit" /\ pc[s] \in Walking
  BY <1>1 DEF Commit, Walking
<1>3. wrote[s][i] \in Seq(Entry) /\ audit[i] \in Seq(Entry) /\ audit'[i] = audit[i] \o wrote[s][i]
  BY <1>1 DEF Commit, Typed, Log
<1>4. Len(audit'[i]) = Len(audit[i]) + Len(wrote[s][i]) /\ Len(audit[i]) \in Nat /\ Len(wrote[s][i]) \in Nat
  BY <1>3, ConcatProperties
<1>5. Len(wrote[s][i]) = Cardinality(Named(call[s].ids, Len(call[s].ids), i))
  BY <1>2 DEF SessionsOk, Local, Written
<1>6. DOMAIN call[s].ids = 1 .. Len(call[s].ids)
  BY <1>2, Place
<1> QED
  BY <1>4, <1>5, <1>6 DEF Named

--------------------------------------------------------------------------------
\* The invariant holds in every state.
LEMMA Inductive == Spec => []EngineInv
<1>1. Init => EngineInv
  <2> SUFFICES ASSUME Init PROVE EngineInv
    OBVIOUS
  <2>1. Typed
    BY TypedInit
  <2>2. SessionsOk
    BY DEF Init, SessionsOk, Local, Walking
  <2>3. LocksOk
    BY AllNothing DEF Init, LocksOk, Holding
  <2>4. EventsOk /\ NewsOk
    BY DEF Init, EventsOk, NewsOk
  <2>5. LedgerInSync
    BY SumsEmpty DEF Init, LedgerInSync
  <2>6. StockInSync
    <3>1. audit = Nothing /\ stock = Stock
      BY DEF Init, Nothing
    <3> QED
      BY <3>1, AllNothing, StockAssumption DEF StockInSync
  <2> QED
    BY <2>1, <2>2, <2>3, <2>4, <2>5, <2>6 DEF EngineInv
<1>2. EngineInv /\ [Next]_vars => EngineInv'
  <2> SUFFICES ASSUME EngineInv, [Next]_vars PROVE EngineInv'
    OBVIOUS
  <2>1. Typed /\ SessionsOk /\ LocksOk /\ EventsOk /\ NewsOk /\ LedgerInSync /\ StockInSync
    BY DEF EngineInv
  <2>2. Typed'
    BY <2>1, TypedNext
  <2>3. SessionsOk'
    BY <2>1, SessionsNext
  <2>4. LocksOk'
    BY <2>1, LocksNext
  <2>5. EventsOk' /\ NewsOk'
    BY <2>1, TruthNext
  <2>6. LedgerInSync' /\ StockInSync'
    BY <2>1, SyncNext
  <2> QED
    BY <2>2, <2>3, <2>4, <2>5, <2>6 DEF EngineInv
<1> QED
  BY <1>1, <1>2, PTL DEF Spec

\* The variables of the engine keep their types.
THEOREM EngineIsTyped == Spec => []TypeOK
<1>1. EngineInv => TypeOK
  <2> SUFFICES ASSUME EngineInv PROVE TypeOK
    OBVIOUS
  <2>1. Typed /\ SessionsOk
    BY DEF EngineInv
  <2>2. ASSUME NEW s \in Sessions, pc[s] # "idle"
        PROVE  call[s].ids \in Calls /\ call[s].user \in Users /\ call[s].given \subseteq Fields
    BY <2>1, <2>2 DEF SessionsOk, Local, Typed, CallRecord
  <2>3. ASSUME NEW s \in Sessions, NEW i \in Instances
        PROVE  wrote[s][i] \in Seq(Entry) /\ posted[s][i] \in Seq(Entry)
    BY <2>1 DEF Typed, Log
  <2> QED
    BY <2>1, <2>2, <2>3 DEF TypeOK, Typed, Log, Walking
<1> QED
  BY <1>1, Inductive, PTL

\* Documents and stock are those the committed transitions call for, and no stock level goes below
\* zero: whatever calls run side by side, and wherever they fail or crash (engine.go:1388-1405).
THEOREM EffectsFollowTransitions == Spec => []EffectsInSync
<1>1. EngineInv => EffectsInSync
  BY DEF EngineInv, EffectsInSync
<1> QED
  BY <1>1, Inductive, PTL

\* A webhook event is about a committed transition.  The event of a single call names the state it
\* led to, those of a bulk call the state its last instance was moved to (engine.go:1231,
\* bulk_transition.go:135-160).
THEOREM EventsTellTheTruth == Spec => []EventsTruthful
<1>1. EngineInv => EventsTruthful
  BY DEF EngineInv, EventsOk, Truth, EventsTruthful
<1> QED
  BY <1>1, Inductive, PTL

\* A call that commits has moved each instance as often as its list names it
\* (bulk_transition.go:63-70).
THEOREM CallsAreAllOrNothing == Spec => AllOrNothing
<1> DEFINE A == \A s \in Sessions : pc[s] # "notify" /\ pc'[s] = "notify" =>
                  \A i \in Instances :
                     Len(audit'[i]) - Len(audit[i]) = Cardinality({n \in DOMAIN call[s].ids : call[s].ids[n] = i})
<1>1. EngineInv /\ [Next]_vars => [A]_vars
  BY NotifyStep DEF EngineInv
<1> QED
  BY <1>1, Inductive, PTL DEF Spec, AllOrNothing
================================================================================
