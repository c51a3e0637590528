---------------------------- MODULE WorkflowEngine -----------------------------
(* internal/workflow/engine.go and bulk_transition.go: concurrent calls of        *)
(* CreateInstance, ExecuteTransition and BulkExecuteTransition against a database *)
(* at READ COMMITTED.                                                             *)
(*                                                                                *)
(* A transition reads the instance's state, finds the edge, checks the edge's     *)
(* permission, writes the state (taking the row's lock until the transaction      *)
(* ends), writes the audit entry and posts the edge's effects: documents          *)
(* (journal entry, delivery, customer, invoice, orders) and one stock adjustment, *)
(* which locks the stock level.  Other transactions see the writes when they are  *)
(* committed.  Rules and hooks run after the commit; the transitions they execute *)
(* are calls of their own here.                                                   *)
EXTENDS Integers, Sequences, FiniteSets, SequencesExt, Functions

CONSTANTS
    Instances,  \* identities a workflow instance can get
    States, Initial, Actions, Perms, Kinds, Fields, Products,
    Edges,      \* workflow_transitions with their effects
    Users,
    Holds,      \* <<user, permission>> pairs
    CreatePerm, \* the definition's create_permission_key
    Required,   \* fields its payload schema requires of a new instance
    Sessions,   \* request goroutines, each with a database connection
    Calls,      \* sequences of instances a call may name: <<i>> or a bulk call's list
    Stock,      \* the stock level of each product at the start
    MaxAudit,   \* bound: an instance with that many audit entries is not moved any more
    None

\* needs: the kinds of effects the edge has, with the payload fields each is resolved
\* from; product, change: the stock adjustment, if "stock" is one of them.
Effects == Kinds \cup {"stock"}
Edge == [from : States, action : Actions, to : States, perm : Perms,
         needs : UNION {[K -> SUBSET Fields] : K \in SUBSET Effects},
         product : Products \cup {None}, change : Int]

ASSUME EdgesAssumption ==
    /\ Edges \subseteq Edge
    /\ \A e, f \in Edges : e.from = f.from /\ e.action = f.action => e = f
    /\ \A e \in Edges : "stock" \in DOMAIN e.needs <=> e.product # None
ASSUME InitialAssumption == Initial \in States
ASSUME StockAssumption == Stock \in [Products -> Nat]
ASSUME CallsAssumption == IsFiniteSet(Instances) /\ Calls \subseteq Seq(Instances) \ {<<>>}
ASSUME NoneAssumption == None \notin Instances \cup Products \cup Sessions \cup Users \cup States

VARIABLES
    state,      \* committed workflow_instances.current_state_id, None before creation
    payload,    \* committed payload: the fields it has
    audit,      \* committed audit_log entries of each instance, oldest first
    docs,       \* committed rows each instance's effects have inserted, by kind
    stock,      \* committed stock_levels.quantity
    events,     \* the webhook.Dispatch calls of the session that has made some last
    rowLock,    \* session whose transaction has written the instance's row
    stockLock,  \* session whose transaction has locked the product's stock level
    pc, call, pos, edge,    \* a session's control, the list and position in it, the edge found
    wrote,      \* the session's uncommitted audit entries of each instance (one per state written)
    posted,     \* those whose effects it has posted, not committed either
    news        \* the events it will dispatch

database == <<state, payload, audit, docs, stock>>
vars == <<database, events, rowLock, stockLock, pc, call, pos, edge, wrote, posted, news>>

\* A webhook event: the to_state it announces for the at-th transition of the instance, in a
\* call of the list ids, whose last move was the last-th transition of the last of them (history).
Event == [inst : Instances, at : Nat, to : States, ids : Calls, last : Nat]

\* An audit entry; due: the effects whose fields the merged payload had.
Entry == [edge : Edges, due : SUBSET Effects]

TypeOK ==
    /\ state \in [Instances -> States \cup {None}]
    /\ payload \in [Instances -> SUBSET Fields]
    /\ audit \in [Instances -> Seq(Entry)]
    /\ docs \in [Instances -> [Kinds -> Nat]]
    /\ stock \in [Products -> Nat]
    /\ events \subseteq Event
    /\ rowLock \in [Instances -> Sessions \cup {None}]
    /\ stockLock \in [Products -> Sessions \cup {None}]
    /\ pc \in [Sessions -> {"idle", "lookup", "update", "effects", "commit", "notify"}]
    /\ \A s \in Sessions : pc[s] # "idle" =>
        call[s].ids \in Calls /\ call[s].user \in Users /\ call[s].given \subseteq Fields
    /\ pos \in [Sessions -> Nat]
    /\ edge \in [Sessions -> Edges \cup {None}]
    /\ \A s \in Sessions, i \in Instances : wrote[s][i] \in Seq(Entry) /\ posted[s][i] \in Seq(Entry)
    /\ news \in [Sessions -> SUBSET Event]

NoCall == [ids |-> <<>>, user |-> None, action |-> None, given |-> {}]
Nothing == [i \in Instances |-> <<>>]

Init ==
    /\ state = [i \in Instances |-> None]
    /\ payload = [i \in Instances |-> {}]
    /\ audit = [i \in Instances |-> <<>>]
    /\ docs = [i \in Instances |-> [k \in Kinds |-> 0]]
    /\ stock = Stock
    /\ events = {}
    /\ rowLock = [i \in Instances |-> None]
    /\ stockLock = [p \in Products |-> None]
    /\ pc = [s \in Sessions |-> "idle"]
    /\ call = [s \in Sessions |-> NoCall]
    /\ pos = [s \in Sessions |-> 0]
    /\ edge = [s \in Sessions |-> None]
    /\ wrote = [s \in Sessions |-> Nothing]
    /\ posted = [s \in Sessions |-> Nothing]
    /\ news = [s \in Sessions |-> {}]

--------------------------------------------------------------------------------
(* What a transaction sees: its own writes over what is committed.               *)

Sees(s, i) == IF wrote[s][i] = <<>> THEN state[i] ELSE Last(wrote[s][i]).edge.to

Merged(s, i) == payload[i] \cup call[s].given

\* The effects of the edge found whose fields the merged payload has; the others are
\* skipped (ok = false), one by one.
Due(s, i) == {k \in DOMAIN edge[s].needs : edge[s].needs[k] \subseteq Merged(s, i)}

\* What an entry changes of the stock of p, and the sum of it over entries and instances.
Takes(w, p) == IF "stock" \in w.due /\ w.edge.product = p THEN w.edge.change ELSE 0
Change(entries, p) == SumFunction([n \in DOMAIN entries |-> Takes(entries[n], p)])
ChangeOfAll(log, p) == SumFunction([i \in Instances |-> Change(log[i], p)])

\* How many documents of kind k the entries stand for.
Documents(entries, k) == SumFunction([n \in DOMAIN entries |-> IF k \in entries[n].due THEN 1 ELSE 0])

\* The instance the session works on.
Current(s) == call[s].ids[pos[s]]

\* The transaction ends: its locks are released.
Release(s) ==
    /\ rowLock' = [i \in Instances |-> IF rowLock[i] = s THEN None ELSE rowLock[i]]
    /\ stockLock' = [p \in Products |-> IF stockLock[p] = s THEN None ELSE stockLock[p]]

--------------------------------------------------------------------------------

\* CreateInstance: permission, payload validation and the insertion of the row in the
\* initial state are one transaction.  Only here is the payload validated.
CreateInstance(u, i, given) ==
    /\ state[i] = None
    /\ <<u, CreatePerm>> \in Holds /\ Required \subseteq given
    /\ state' = [state EXCEPT ![i] = Initial]
    /\ payload' = [payload EXCEPT ![i] = given]
    /\ UNCHANGED <<audit, docs, stock, events, rowLock, stockLock, pc, call, pos, edge, wrote, posted, news>>

\* A request calls ExecuteTransition (a list of one) or BulkExecuteTransition, which
\* checks that the instances share one definition: here there is one.
Call(s, u, ids, act, given) ==
    /\ pc[s] = "idle"
    /\ \A n \in DOMAIN ids : state[ids[n]] # None
    /\ pc' = [pc EXCEPT ![s] = "lookup"]
    /\ call' = [call EXCEPT ![s] = [ids |-> ids, user |-> u, action |-> act, given |-> given]]
    /\ pos' = [pos EXCEPT ![s] = 1]
    /\ UNCHANGED <<database, events, rowLock, stockLock, edge, wrote, posted, news>>

\* The instance's state is read without a lock, the edge it has for the action is
\* found and the caller's permission for that edge is checked.
Lookup(s) ==
    /\ pc[s] = "lookup" /\ Len(audit[Current(s)]) < MaxAudit
    /\ \E e \in Edges :
        /\ e.from = Sees(s, Current(s)) /\ e.action = call[s].action
        /\ <<call[s].user, e.perm>> \in Holds
        /\ edge' = [edge EXCEPT ![s] = e]
    /\ pc' = [pc EXCEPT ![s] = "update"]
    /\ UNCHANGED <<database, events, rowLock, stockLock, call, pos, wrote, posted, news>>

\* The event goes out with the UPDATE, before the commit.
UpdateAndAnnounce(s) ==
    LET i == Current(s)
        w == [edge |-> edge[s], due |-> Due(s, i)] IN
    /\ pc[s] = "update"
    /\ rowLock[i] \in {None, s}
    /\ rowLock' = [rowLock EXCEPT ![i] = s]
    /\ wrote' = [wrote EXCEPT ![s][i] = Append(@, w)]
    /\ events' = events \cup {[inst |-> i, at |-> Len(audit[i]) + 1, to |-> edge[s].to,
                               ids |-> <<i>>, last |-> Len(audit[i]) + 1]}
    /\ pc' = [pc EXCEPT ![s] = "effects"]
    /\ UNCHANGED <<database, stockLock, call, pos, edge, posted, news>>

\* UPDATE workflow_instances ... WHERE id = $3, which waits for the row's lock and
\* then writes whatever the row holds by then; the audit entry is inserted.
Update(s) ==
    LET i == Current(s)
        w == [edge |-> edge[s], due |-> Due(s, i)] IN
    /\ pc[s] = "update"
    /\ rowLock[i] \in {None, s}
    /\ rowLock' = [rowLock EXCEPT ![i] = s]
    /\ wrote' = [wrote EXCEPT ![s][i] = Append(@, w)]
    /\ pc' = [pc EXCEPT ![s] = "effects"]
    /\ UNCHANGED <<database, events, stockLock, call, pos, edge, posted, news>>

\* After one instance of the list: the next one, or the commit.
Proceed(s) ==
    /\ pc' = [pc EXCEPT ![s] = IF pos[s] < Len(call[s].ids) THEN "lookup" ELSE "commit"]
    /\ pos' = [pos EXCEPT ![s] = IF pos[s] < Len(call[s].ids) THEN @ + 1 ELSE @]

\* AdjustStockTx without the row lock: two sales of the last unit both see it.
PostUnlocked(s) ==
    LET w == Last(wrote[s][Current(s)])
        p == w.edge.product IN
    /\ pc[s] = "effects"
    /\ "stock" \in w.due => stock[p] + ChangeOfAll(posted[s], p) + w.edge.change >= 0
    /\ posted' = [posted EXCEPT ![s][Current(s)] = Append(@, w)]
    /\ Proceed(s)
    /\ UNCHANGED <<database, events, rowLock, stockLock, call, edge, wrote, news>>

\* The effects run in a transaction of their own, committed at once.
PostAtOnce(s) ==
    LET w == Last(wrote[s][Current(s)]) IN
    /\ pc[s] = "effects"
    /\ docs' = [docs EXCEPT ![Current(s)] = [k \in Kinds |-> @[k] + Documents(<<w>>, k)]]
    /\ Proceed(s)
    /\ UNCHANGED <<state, payload, audit, stock, events, rowLock, stockLock, call, edge, wrote, posted, news>>

\* The effects that are due: the documents are inserted, and AdjustStockTx
\* locks the stock level, reads it and refuses to take it below zero.
Post(s) ==
    LET w == Last(wrote[s][Current(s)])
        p == w.edge.product IN
    /\ pc[s] = "effects"
    /\ IF "stock" \in w.due
       THEN /\ stockLock[p] \in {None, s}
            /\ stockLock' = [stockLock EXCEPT ![p] = s]
            /\ stock[p] + ChangeOfAll(posted[s], p) + w.edge.change >= 0
       ELSE UNCHANGED stockLock
    /\ posted' = [posted EXCEPT ![s][Current(s)] = Append(@, w)]
    /\ Proceed(s)
    /\ UNCHANGED <<database, events, rowLock, call, edge, wrote, news>>

\* The events of a committed transaction: one for each instance of the list, all with
\* the state the last one moved to (BulkTransitionResult.ToStateKey).
Events(s) ==
    LET j == Last(call[s].ids) IN
    UNION {{[inst |-> i, at |-> Len(audit[i]) + n, to |-> edge[s].to,
             ids |-> call[s].ids, last |-> Len(audit[j]) + Len(wrote[s][j])] :
                n \in DOMAIN wrote[s][i]} : i \in Instances}

\* A bulk call that fails half way commits the part of the list it has done.
CommitPartly(s) ==
    /\ \/ pc[s] = "commit"
       \/ pc[s] = "lookup" /\ wrote[s] # Nothing
    /\ state' = [i \in Instances |-> Sees(s, i)]
    /\ payload' = [i \in Instances |-> IF wrote[s][i] = <<>> THEN payload[i] ELSE Merged(s, i)]
    /\ audit' = [i \in Instances |-> audit[i] \o wrote[s][i]]
    /\ docs' = [i \in Instances |-> [k \in Kinds |-> docs[i][k] + Documents(posted[s][i], k)]]
    /\ stock' = [p \in Products |-> stock[p] + ChangeOfAll(posted[s], p)]
    /\ Release(s)
    /\ news' = [news EXCEPT ![s] = Events(s)]
    /\ pc' = [pc EXCEPT ![s] = "notify"]
    /\ UNCHANGED <<events, call, pos, edge, wrote, posted>>

\* COMMIT makes the writes visible.
Commit(s) ==
    /\ pc[s] = "commit"
    /\ state' = [i \in Instances |-> Sees(s, i)]
    /\ payload' = [i \in Instances |-> IF wrote[s][i] = <<>> THEN payload[i] ELSE Merged(s, i)]
    /\ audit' = [i \in Instances |-> audit[i] \o wrote[s][i]]
    /\ docs' = [i \in Instances |-> [k \in Kinds |-> docs[i][k] + Documents(posted[s][i], k)]]
    /\ stock' = [p \in Products |-> stock[p] + ChangeOfAll(posted[s], p)]
    /\ Release(s)
    /\ news' = [news EXCEPT ![s] = Events(s)]
    /\ pc' = [pc EXCEPT ![s] = "notify"]
    /\ UNCHANGED <<events, call, pos, edge, wrote, posted>>

\* The session's request is over.
Forget(s) ==
    /\ pc' = [pc EXCEPT ![s] = "idle"]
    /\ call' = [call EXCEPT ![s] = NoCall]
    /\ pos' = [pos EXCEPT ![s] = 0]
    /\ edge' = [edge EXCEPT ![s] = None]
    /\ wrote' = [wrote EXCEPT ![s] = Nothing]
    /\ posted' = [posted EXCEPT ![s] = Nothing]
    /\ news' = [news EXCEPT ![s] = {}]

\* The webhook dispatches after the commit.
Notify(s) ==
    /\ pc[s] = "notify"
    /\ events' = news[s]
    /\ Forget(s)
    /\ UNCHANGED <<database, rowLock, stockLock>>

\* The transaction rolls back: no such edge, permission denied, insufficient stock, a
\* failed posting, a cancelled request, a deadlock the database broke, a crash.
Rollback(s) ==
    /\ pc[s] \in {"lookup", "update", "effects", "commit"}
    /\ Release(s)
    /\ Forget(s)
    /\ UNCHANGED <<database, events>>

\* The process dies after the commit: the events are lost.
CrashAfterCommit(s) ==
    /\ pc[s] = "notify"
    /\ Forget(s)
    /\ UNCHANGED <<database, events, rowLock, stockLock>>

Step(s) == Lookup(s) \/ Update(s) \/ Post(s) \/ Commit(s) \/ Notify(s)

Next ==
    \/ \E u \in Users, i \in Instances, given \in SUBSET Fields : CreateInstance(u, i, given)
    \/ \E s \in Sessions :
        \/ \E u \in Users, ids \in Calls, act \in Actions, given \in SUBSET Fields :
            Call(s, u, ids, act, given)
        \/ Step(s) \/ Rollback(s) \/ CrashAfterCommit(s)

Spec == Init /\ [][Next]_vars

--------------------------------------------------------------------------------
(* Properties.                                                                   *)

\* The ledger cannot drift from the workflow: what the effects have inserted is what
\* the committed transitions call for, no more and no less (engine.go:1388-1405).
LedgerInSync ==
    \A i \in Instances, k \in Kinds : docs[i][k] = Documents(audit[i], k)

\* The stock level is the opening level plus the changes of the committed
\* transitions, and concurrent sales never take it below zero (stock.go:133-195).
StockInSync ==
    \A p \in Products :
        /\ stock[p] >= 0
        /\ stock[p] = Stock[p] + ChangeOfAll(audit, p)

\* The effects are in step with the transitions: documents and stock.
EffectsInSync == LedgerInSync /\ StockInSync

\* A call applies to its whole list or to nothing (bulk_transition.go:63-70): when it
\* commits, each instance gets as many audit entries as the list names it.
AllOrNothing ==
    [][\A s \in Sessions : pc[s] # "notify" /\ pc'[s] = "notify" =>
        \A i \in Instances :
            Len(audit'[i]) - Len(audit[i]) = Cardinality({n \in DOMAIN call[s].ids : call[s].ids[n] = i})]_vars

\* A webhook event is about a transition that is committed (webhook.Dispatch is called after the
\* commit, engine.go:1231 and bulk_transition.go:155).  The event of a single call names the state
\* its own transition moved the instance to; those of a bulk call all name the state that its
\* last instance was moved to, in that very call (bulk_transition.go:135-146).
EventsTruthful ==
    \A e \in events :
        LET j == Last(e.ids) IN
        /\ e.at \in DOMAIN audit[e.inst] /\ e.last \in DOMAIN audit[j]
        /\ e.to = audit[j][e.last].edge.to
        /\ Len(e.ids) = 1 => e.to = audit[e.inst][e.at].edge.to

\* What BulkTransitionResult's doc says of the state key that a bulk call answers and announces:
\* all instances moved to it, "necessarily the same key for all of them, since they're required
\* to share one definition and one action" (bulk_transition.go:38-41).
OneStateForAll ==
    \A e \in events : e.at \in DOMAIN audit[e.inst] => e.to = audit[e.inst][e.at].edge.to

\* What ExecuteTransition's doc says (engine.go:1203-1204): a transition moves the
\* instance from its current state along an edge that leaves that state.
FollowsTheGraph ==
    \A i \in Instances : \A n \in DOMAIN audit[i] :
        audit[i][n].edge.from = IF n = 1 THEN Initial ELSE audit[i][n - 1].edge.to
================================================================================
