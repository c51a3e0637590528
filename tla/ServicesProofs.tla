------------------------------- MODULE ServicesProofs -------------------------------
(* Proofs about the ten modules that MCServices checks: webhooks, inbound pulls, orders *)
(* and deals, metrics, memberships and invites, absences, payroll, versions of which     *)
(* one is active, the ledger, and conditions.  Each has an inductive invariant, a lemma   *)
(* that every step keeps it, with one case per action, and the theorems that follow from  *)
(* it, for all its constants; the last section puts them together.                        *)
EXTENDS MCServices, SumLemmas

------------------------------------------------------------------------------------
\* Webhooks: where a delivery is says how often its endpoint can have heard of the news, and
\* that it is news.  What is sent later must be true by then, so the hooks that are active now
\* are among those remembered for an operation that is committed and not yet announced.
HookInv ==
    /\ HookTypeOK
    /\ OnlyTrueNews
    /\ \A o \in Operations : operation[o] = "committed" => Active \subseteq wanted[o]
    /\ \A n \in News :
        /\ delivery[n] # "none" => operation[n[1]] = "over" /\ n[2] \in wanted[n[1]]
        /\ delivery[n] \in {"none", "first"} => received[n] = 0
        /\ delivery[n] = "retry" => received[n] <= 1
        /\ delivery[n] = "sent" => received[n] > 0

\* Every step of the owners, the handlers and the deliveries keeps the invariant.
LEMMA HookStepInv == HookInv /\ [HookNext]_hookVars => HookInv'
<1> SUFFICES ASSUME HookInv, [HookNext]_hookVars PROVE HookInv'
  OBVIOUS
<1> USE DEF HookInv, HookTypeOK, OnlyTrueNews, Active, News
<1>1. ASSUME NEW h \in Hooks, NEW s \in {"active", "off"}, CreateWebhook(h, s) \/ UpdateWebhook(h, s)
      PROVE  HookInv'
  BY <1>1 DEF CreateWebhook, UpdateWebhook, Remember, Committed
<1>2. ASSUME NEW h \in Hooks, DeleteWebhook(h)
      PROVE  HookInv'
  BY <1>2 DEF DeleteWebhook
<1>3. ASSUME NEW o \in Operations, BeginOperation(o)
      PROVE  HookInv'
  BY <1>3 DEF BeginOperation
<1>4. ASSUME NEW o \in Operations, EndOperation(o)
      PROVE  HookInv'
  BY <1>4 DEF EndOperation
<1>5. ASSUME NEW o \in Operations, Dispatch(o)
      PROVE  HookInv'
  BY <1>5 DEF Dispatch
<1>6. ASSUME NEW n \in News, FirstSend(n)
      PROVE  HookInv'
  <2>1. /\ delivery[n] = "first" /\ UNCHANGED <<hook, operation, outcome, wanted>>
        /\ \E d \in {"sent", "retry"} : delivery' = [delivery EXCEPT ![n] = d]
        /\ received' = [received EXCEPT ![n] = @ + 1] \/ (received' = received /\ delivery'[n] # "sent")
    BY <1>6 DEF FirstSend, Send
  <2> QED
    BY <2>1
<1>7. ASSUME NEW n \in News, Retry(n)
      PROVE  HookInv'
  <2>1. /\ delivery[n] = "retry" /\ UNCHANGED <<hook, operation, outcome, wanted>>
        /\ \E d \in {"sent", "failed"} : delivery' = [delivery EXCEPT ![n] = d]
        /\ received' = [received EXCEPT ![n] = @ + 1] \/ (received' = received /\ delivery'[n] # "sent")
    BY <1>7 DEF Retry, Send
  <2>2. received[n] \in 0 .. 1 /\ operation[n[1]] = "over" /\ n[2] \in wanted[n[1]]
    BY <2>1
  <2> QED
    BY <2>1, <2>2
<1>8. ASSUME NEW n \in News, RecordDelivery(n)
      PROVE  HookInv'
  BY <1>8 DEF RecordDelivery
<1>9. CASE HookCrash
  BY <1>9 DEF HookCrash
<1>10. CASE UNCHANGED hookVars
  BY <1>10 DEF hookVars
<1> HIDE DEF HookInv, HookTypeOK, OnlyTrueNews, Active, News
<1> QED
  BY <1>1, <1>2, <1>3, <1>4, <1>5, <1>6, <1>7, <1>8, <1>9, <1>10 DEF HookNext

\* Nothing has happened at first.
LEMMA HookStarts == HookInit => HookInv
BY DEF HookInit, HookInv, HookTypeOK, OnlyTrueNews, News

\* No false news: an endpoint hears only of operations that were committed, and only if its
\* webhook was active between the commit and the lookup; a success was received.
THEOREM HooksTellTheTruth == HookSpec => [](HookTypeOK /\ OnlyTrueNews)
<1>1. HookInit => HookInv
  BY HookStarts
<1>2. HookInv => HookTypeOK /\ OnlyTrueNews
  BY DEF HookInv
<1> QED
  BY <1>1, <1>2, HookStepInv, PTL DEF HookSpec

------------------------------------------------------------------------------------
\* Inbound pulls: between the lookup of a key and the creation that follows from it nothing but
\* this pull creates for pulls, so what was not found has not been pulled.
SyncInv ==
    /\ SyncTypeOK
    /\ OnePerKey
    /\ pull.phase = "apply" =>
        /\ pull.at <= Len(Feed)
        /\ ~pull.found /\ Feed[pull.at] \notin Padded => rows[Feed[pull.at]].pull = 0

\* Every step of the pulls, and of those who create by hand, keeps the invariant.
LEMMA SyncStepInv == SyncInv /\ [SyncStep]_syncVars => SyncInv'
<1> SUFFICES ASSUME SyncInv, [SyncStep]_syncVars PROVE SyncInv'
  OBVIOUS
<1> DEFINE N == Len(Feed) + 1
<1>a. /\ Len(Feed) \in Nat /\ 1 \in 1 .. N /\ pull.at \in 1 .. N
      /\ pulls \in 0 .. Pulls /\ stops \in 0 .. Stops /\ edits \in 0 .. Edits
      /\ Pulls \in Nat /\ Stops \in Nat /\ Edits \in Nat
      /\ \A i \in 1 .. Len(Feed) : Feed[i] \in Keys
  BY FeedAssumption DEF SyncInv, SyncTypeOK
<1> USE DEF SyncInv, SyncTypeOK, OnePerKey, Made, NoPull
<1>1. CASE StartPull
  <2>1. /\ pull' \in [phase : {"none", "find", "apply", "end"}, at : 1 .. Len(Feed) + 1, found : BOOLEAN]
        /\ pull'.phase # "apply"
    BY <1>1, <1>a DEF StartPull
  <2>2. UNCHANGED <<target, overdue, rows, stops, edits>> /\ pulls' \in 0 .. Pulls
    BY <1>1, <1>a DEF StartPull
  <2> QED
    BY <2>1, <2>2
<1>2. CASE FindRecord
  <2>1. /\ pull' \in [phase : {"none", "find", "apply", "end"}, at : 1 .. Len(Feed) + 1, found : BOOLEAN]
        /\ pull.at <= Len(Feed) /\ pull'.at = pull.at
    BY <1>2, <1>a DEF FindRecord
  <2>2. UNCHANGED <<target, overdue, pulls, rows, stops, edits>>
    BY <1>2 DEF FindRecord
  <2>3. ASSUME Feed[pull.at] \notin Padded, rows[Feed[pull.at]].pull # 0
        PROVE  pull'.found
    <3>1. Feed[pull.at] \in Keys
      BY <2>1, <1>a
    <3>2. Made(Feed[pull.at]) > 0
      BY <2>3, <3>1
    <3> QED
      BY <1>2, <2>3, <3>2 DEF FindRecord
  <2> QED
    BY <2>1, <2>2, <2>3
<1>3. CASE ApplyRecord
  <2> DEFINE k == Feed[pull.at]
  <2>1. pull.phase = "apply" /\ pull.at <= Len(Feed) /\ k \in Keys
    BY <1>3, <1>a DEF ApplyRecord
  <2>a. pull.at + 1 \in 1 .. N
    BY <1>a, <2>1
  <2>2. /\ pull' \in [phase : {"none", "find", "apply", "end"}, at : 1 .. Len(Feed) + 1, found : BOOLEAN]
        /\ pull'.phase # "apply"
    BY <1>3, <2>1, <2>a DEF ApplyRecord
  <2>3. UNCHANGED <<target, overdue, pulls, stops, edits>>
    BY <1>3 DEF ApplyRecord
  <2>4. CASE UNCHANGED rows
    BY <2>2, <2>3, <2>4
  <2>5. CASE rows' = [rows EXCEPT ![k].pull = @ + 1] /\ ~pull.found /\ ~Refused(k)
    <3>1. k \notin Padded => rows[k].pull = 0
      BY <2>1, <2>5
    <3>2. target = "products" => Made(k) = 0
      BY <2>1, <2>5 DEF Refused
    <3> HIDE DEF k
    <3>a. rows \in [Keys -> [hand : Nat, pull : Nat]] /\ k \in Keys /\ rows[k].pull + 1 \in Nat
      BY <2>1
    <3>b. rows' = [rows EXCEPT ![k].pull = rows[k].pull + 1]
      BY <2>5, <3>a
    <3>3. /\ rows' \in [Keys -> [hand : Nat, pull : Nat]]
          /\ \A l \in Keys \ {k} : rows'[l] = rows[l]
          /\ rows'[k].hand = rows[k].hand /\ rows'[k].pull = rows[k].pull + 1
      BY <3>a, <3>b
    <3>4. OnePerKey'
      <4> SUFFICES ASSUME NEW l \in Keys \ Padded PROVE rows'[l].pull <= 1
        OBVIOUS
      <4> QED
        BY <3>1, <3>3
    <3>5. ASSUME target' = "products", NEW l \in Keys
          PROVE  rows'[l].hand + rows'[l].pull <= 1
      <4>1. CASE l = k
        <5>1. rows[k].hand \in Nat /\ rows[k].pull \in Nat
          BY <2>1
        <5> QED
          BY <4>1, <5>1, <2>3, <3>2, <3>3, <3>5
      <4>2. CASE l # k
        BY <4>2, <2>3, <3>3, <3>5
      <4> QED
        BY <4>1, <4>2
    <3> QED
      BY <2>2, <2>3, <3>3, <3>4, <3>5
  <2> QED
    BY <1>3, <2>4, <2>5 DEF ApplyRecord
<1>4. CASE FinishPull
  BY <1>4, <1>a DEF FinishPull
<1>5. CASE PullStops
  BY <1>5, <1>a DEF PullStops
<1>6. CASE PushFinishes \/ IntervalPasses
  BY <1>6 DEF PushFinishes, IntervalPasses
<1>7. ASSUME NEW k \in Keys, CreateByHand(k)
      PROVE  SyncInv'
  <2>1. /\ edits' \in 0 .. Edits /\ UNCHANGED <<target, overdue, pulls, pull, stops>>
        /\ rows' = [rows EXCEPT ![k].hand = rows[k].hand + 1]
        /\ target = "products" => Made(k) = 0
        /\ rows[k].hand + 1 \in Nat
    BY <1>7, <1>a DEF CreateByHand, Refused
  <2>2. rows' \in [Keys -> [hand : Nat, pull : Nat]] /\ \A l \in Keys : rows'[l].pull = rows[l].pull
    BY <2>1
  <2>3. ASSUME target' = "products", NEW l \in Keys
        PROVE  rows'[l].hand + rows'[l].pull <= 1
    BY <2>1, <2>3
  <2> QED
    BY <1>a, <2>1, <2>2, <2>3
<1>8. ASSUME NEW k \in Keys, NEW by \in {"hand", "pull"}, ChangeEmail(k, by)
      PROVE  SyncInv'
  <2> DEFINE Left == [rows EXCEPT ![k][by] = @ - 1]
  <2>1. /\ target' = "customers" /\ edits' \in 0 .. Edits /\ rows[k][by] > 0
        /\ UNCHANGED <<target, overdue, pulls, pull, stops>>
        /\ rows' \in {Left} \cup {[Left EXCEPT ![l].hand = @ + 1] : l \in Keys \ {k}}
    <3>1. edits + 1 \in 0 .. Edits
      BY <1>8, <1>a DEF ChangeEmail
    <3> QED
      BY <1>8, <3>1 DEF ChangeEmail
  <2>2. /\ Left \in [Keys -> [hand : Nat, pull : Nat]]
        /\ \A l \in Keys : Left[l].pull <= rows[l].pull
    BY <2>1
  <2> HIDE DEF Left
  <2>3. /\ rows' \in [Keys -> [hand : Nat, pull : Nat]]
        /\ \A l \in Keys : rows'[l].pull <= rows[l].pull
    <3>1. CASE rows' = Left
      BY <2>2, <3>1
    <3>2. ASSUME NEW m \in Keys, rows' = [Left EXCEPT ![m].hand = @ + 1]
          PROVE  \A l \in Keys : rows'[l].pull = Left[l].pull
      BY <2>2, <3>2
    <3>3. ASSUME NEW m \in Keys, rows' = [Left EXCEPT ![m].hand = @ + 1]
          PROVE  rows' \in [Keys -> [hand : Nat, pull : Nat]]
      BY <2>2, <3>3
    <3> QED
      BY <2>1, <2>2, <3>1, <3>2, <3>3
  <2>4. OnePerKey'
    <3> SUFFICES ASSUME NEW l \in Keys \ Padded PROVE rows'[l].pull <= 1
      OBVIOUS
    <3>1. rows[l].pull <= 1 /\ rows'[l].pull <= rows[l].pull /\ rows[l].pull \in Nat /\ rows'[l].pull \in Nat
      BY <2>3
    <3> QED
      BY <3>1
  <2>5. ASSUME pull.phase = "apply", ~pull.found, Feed[pull.at] \notin Padded
        PROVE  rows'[Feed[pull.at]].pull = 0
    <3>1. Feed[pull.at] \in Keys /\ rows[Feed[pull.at]].pull = 0
      BY <2>5, <1>a
    <3> QED
      BY <2>3, <3>1
  <2> QED
    BY <2>1, <2>3, <2>4, <2>5
<1>9. CASE UNCHANGED syncVars
  BY <1>9 DEF syncVars
<1> HIDE DEF SyncInv
<1> QED
  BY <1>1, <1>2, <1>3, <1>4, <1>5, <1>6, <1>7, <1>8, <1>9 DEF SyncStep

\* No record is there at first.
LEMMA SyncStarts == SyncInit => SyncInv
BY FeedAssumption DEF SyncInit, SyncInv, SyncTypeOK, OnePerKey, NoPull, Made

\* However pulls, of which one is in progress at a time, are repeated and interrupted, at most one
\* of the entities they created for a key without white space still has it: they create another
\* only after somebody has changed the email of the first.
THEOREM PullsCreateOnce == SyncSpec => [](SyncTypeOK /\ OnePerKey)
<1>1. SyncInit => SyncInv
  BY SyncStarts
<1>2. SyncInv => SyncTypeOK /\ OnePerKey
  BY DEF SyncInv
<1> QED
  BY <1>1, <1>2, SyncStepInv, PTL DEF SyncSpec

------------------------------------------------------------------------------------
\* The statuses, the transactions of calls and the documents of a kind that were made.
AnyStatus == {"none"} \cup Statuses("sale") \cup Statuses("purchase") \cup Statuses("deal")
OrderTask == [at : {"idle", "created", "checked", "locked"}, doc : Documents \cup {NoDocument},
         to : AnyStatus, number : Nat]
OrdersMade(kind) == {d \in Documents : Kind[d] = kind /\ status[d] # "none"}

\* What the transaction t of a call holds and has seen: a number is claimed by one transaction at
\* a time; a status that was checked has not changed since, unless updates of it overlapped.
OrderTaskOK(t) ==
    /\ t \in OrderTask
    /\ t.at # "idle" => t.doc \in Documents /\ t.to \in Statuses(Kind[t.doc])
    /\ t.at = "created" => /\ Kind[t.doc] \in OrderKinds /\ status[t.doc] = "none"
                           /\ t.number = next[Kind[t.doc]]
    /\ t.at = "checked" => /\ Kind[t.doc] \in OrderKinds /\ status[t.doc] # "none"
                           /\ t.doc \notin raced => t.to \in Allowed(Kind[t.doc], status[t.doc])
    /\ t.at = "locked" => /\ Kind[t.doc] = "deal" /\ status[t.doc] # "none"
                          /\ t.to \in Allowed("deal", status[t.doc])

\* Two transactions stay out of each other's way.
OrdersApart(t, u) ==
    /\ t.at = "created" /\ u.at = "created" => Kind[t.doc] # Kind[u.doc]
    /\ t.at = "checked" /\ u.at = "checked" /\ t.doc = u.doc => t.doc \in raced
    /\ t.at = "locked" /\ u.at = "locked" => t.doc # u.doc

\* The numbers of the orders made are without a gap, and the sequence row is ahead by one.
NumbersOK(kind, made) ==
    /\ {number[d] : d \in made} = 1 .. Cardinality(made)
    /\ next[kind] = Cardinality(made) + 1

\* Orders: what calls have claimed and checked is so, and the numbers have no gap.
OrdersInv ==
    /\ OrdersTypeOK
    /\ status \in [Documents -> AnyStatus] /\ task \in [Staff -> OrderTask]
    /\ \A k \in Staff : OrderTaskOK(task[k])
    /\ \A k, j \in Staff : k # j => OrdersApart(task[k], task[j])
    /\ \A kind \in OrderKinds : NumbersOK(kind, OrdersMade(kind))

USE DocumentsAssumption

\* What the tables of allowed transitions lead to.
LEMMA AllowedFacts ==
  ASSUME NEW kind \in {"sale", "purchase", "deal"}
  PROVE  /\ \A s \in AnyStatus : Allowed(kind, s) \subseteq Statuses(kind)
         /\ "none" \notin Statuses(kind) /\ Statuses(kind) \subseteq AnyStatus
         /\ kind # "deal" => Allowed(kind, "none") = {}
<1>1. CASE kind = "sale"
  BY <1>1 DEF Allowed, Statuses, AnyStatus
<1>2. CASE kind = "purchase"
  BY <1>2 DEF Allowed, Statuses, AnyStatus
<1>3. CASE kind = "deal"
  BY <1>3 DEF Allowed, Statuses, AnyStatus
<1> QED
  BY <1>1, <1>2, <1>3

\* A step of one call that leaves the rows as they are.
LEMMA OrderMoves ==
  ASSUME OrdersInv, NEW k \in Staff, NEW t, OrderTaskOK(t)', task' = [task EXCEPT ![k] = t],
         UNCHANGED <<status, number, next>>, raced \subseteq raced', raced' \subseteq Documents,
         \A j \in Staff \ {k} : OrdersApart(t, task[j])' /\ OrdersApart(task[j], t)'
  PROVE  OrdersInv'
<1>1. task'[k] = t /\ \A j \in Staff \ {k} : task'[j] = task[j]
  BY DEF OrdersInv
<1>2. \A j \in Staff : OrderTaskOK(task[j])'
  BY <1>1 DEF OrdersInv, OrderTaskOK
<1>3. \A i, j \in Staff : i # j => OrdersApart(task[i], task[j])'
  BY <1>1 DEF OrdersInv, OrdersApart
<1>4. task' \in [Staff -> OrderTask]
  BY DEF OrdersInv, OrderTaskOK
<1>5. OrdersTypeOK'
  BY <1>4 DEF OrdersInv, OrdersTypeOK, OrderTask
<1>6. \A kind \in OrderKinds : OrdersMade(kind)' = OrdersMade(kind)
  BY DEF OrdersMade
<1> QED
  BY <1>2, <1>3, <1>4, <1>5, <1>6 DEF OrdersInv, NumbersOK

\* A status update ends: the status of one row changes, one that no other transaction relies on.
LEMMA OrderStatusMoves ==
  ASSUME OrdersInv, NEW k \in Staff, NEW d \in Documents, NEW s \in Statuses(Kind[d]), status[d] # "none",
         status' = [status EXCEPT ![d] = s], task' = [task EXCEPT ![k] = NoTask],
         UNCHANGED <<number, next, raced>>,
         \A j \in Staff \ {k} : task[j].doc = d /\ task[j].at # "idle" => task[j].at = "checked" /\ d \in raced
  PROVE  OrdersInv'
<1>1. s \in AnyStatus /\ s # "none"
  BY AllowedFacts
<1>2. /\ status' \in [Documents -> AnyStatus] /\ status'[d] = s
      /\ \A c \in Documents \ {d} : status'[c] = status[c]
  BY <1>1 DEF OrdersInv
<1>3. OrderTaskOK(NoTask)' /\ NoTask.at = "idle"
  BY DEF OrderTaskOK, NoTask, OrderTask, AnyStatus
<1>4. task'[k] = NoTask /\ \A j \in Staff \ {k} : task'[j] = task[j]
  BY DEF OrdersInv
<1>5. \A j \in Staff : OrderTaskOK(task[j])'
  BY <1>1, <1>2, <1>3, <1>4 DEF OrdersInv, OrderTaskOK
<1>6. \A i, j \in Staff : i # j => OrdersApart(task[i], task[j])'
  BY <1>3, <1>4 DEF OrdersInv, OrdersApart
<1>7. task' \in [Staff -> OrderTask]
  BY <1>3 DEF OrdersInv, OrderTaskOK
<1>8. OrdersTypeOK'
  BY <1>2, <1>7 DEF OrdersInv, OrdersTypeOK, OrderTask
<1>9. \A kind \in OrderKinds : OrdersMade(kind)' = OrdersMade(kind)
  BY <1>1, <1>2 DEF OrdersMade
<1> QED
  BY <1>2, <1>5, <1>6, <1>7, <1>8, <1>9 DEF OrdersInv, NumbersOK

\* The order is made: the next number is its own.
LEMMA OrderCommitKeepsInv ==
  ASSUME OrdersInv, NEW k \in Staff, OrderCommits(k)
  PROVE  OrdersInv'
<1> DEFINE d == task[k].doc
           n == task[k].number
<1>1. /\ d \in Documents /\ status[d] = "none" /\ Kind[d] \in OrderKinds /\ n = next[Kind[d]] /\ n \in Nat
      /\ task[k].to \in Statuses(Kind[d]) /\ task[k].at = "created"
  BY DEF OrderCommits, OrdersInv, OrderTaskOK, OrderTask
<1>2. PICK s : s = task[k].to /\ s \in AnyStatus /\ s # "none" /\ s \in Statuses(Kind[d])
  BY <1>1, AllowedFacts
<1>3. /\ status' = [status EXCEPT ![d] = s] /\ number' = [number EXCEPT ![d] = n]
      /\ next' = [next EXCEPT ![Kind[d]] = n + 1] /\ task' = [task EXCEPT ![k] = NoTask] /\ UNCHANGED raced
  BY <1>2 DEF OrderCommits, Ends
<1>4. PICK e : e = d
  OBVIOUS
<1>M. PICK M : M = OrdersMade(Kind[e])
  OBVIOUS
<1>5. /\ e \in Documents /\ status[e] = "none" /\ Kind[e] \in OrderKinds /\ n = next[Kind[e]] /\ M = OrdersMade(Kind[e])
      /\ status' = [status EXCEPT ![e] = s] /\ number' = [number EXCEPT ![e] = n]
      /\ next' = [next EXCEPT ![Kind[e]] = n + 1] /\ s \in Statuses(Kind[e])
  BY <1>1, <1>2, <1>3, <1>4, <1>M
<1>6. IsFiniteSet(M) /\ e \notin M /\ M \subseteq Documents
  BY <1>5, FS_Subset DEF OrdersMade
<1>7. OrdersMade(Kind[e])' = M \cup {e} /\ \A kind \in OrderKinds \ {Kind[e]} : OrdersMade(kind)' = OrdersMade(kind)
  BY <1>2, <1>5 DEF OrdersMade, OrdersInv
<1>8. /\ Cardinality(M \cup {e}) = Cardinality(M) + 1 /\ Cardinality(M) \in Nat
      /\ Cardinality(M \cup {e}) <= Cardinality(Documents) /\ Cardinality(Documents) \in Nat
  <2>1. M \cup {e} \subseteq Documents
    BY <1>5, <1>6
  <2> QED
    BY <1>6, <2>1, FS_AddElement, FS_CardinalityType, FS_Subset
<1>9. NumbersOK(Kind[e], M)
  BY <1>5 DEF OrdersInv
<1>10. n = Cardinality(M) + 1
  BY <1>5, <1>9 DEF NumbersOK
<1>11. NumbersOK(Kind[e], M \cup {e})'
  <2>1. next'[Kind[e]] = n + 1
    BY <1>5 DEF OrdersInv, OrdersTypeOK
  <2>2. number'[e] = n /\ \A c \in M : number'[c] = number[c]
    BY <1>5, <1>6 DEF OrdersInv, OrdersTypeOK
  <2>3. {number'[c] : c \in M \cup {e}} = {number[c] : c \in M} \cup {n}
    BY <2>2
  <2>4. (1 .. Cardinality(M)) \cup {n} = 1 .. n
    BY <1>8, <1>10
  <2>5. /\ {number[c] : c \in M} = 1 .. Cardinality(M)
        /\ Cardinality(M \cup {e}) = n
    BY <1>8, <1>9, <1>10 DEF NumbersOK
  <2> HIDE DEF n
  <2> QED
    BY <2>1, <2>3, <2>4, <2>5 DEF NumbersOK
<1>12. ASSUME NEW kind \in OrderKinds, kind # Kind[e]
       PROVE  NumbersOK(kind, OrdersMade(kind))'
  <2>1. NumbersOK(kind, OrdersMade(kind)) /\ OrdersMade(kind)' = OrdersMade(kind) /\ e \notin OrdersMade(kind) /\ OrdersMade(kind) \subseteq Documents
    BY <1>7, <1>12 DEF OrdersInv, OrdersMade
  <2>2. PICK m : m = OrdersMade(kind)
    OBVIOUS
  <2>3. \A c \in m : number'[c] = number[c]
    BY <1>5, <2>1, <2>2 DEF OrdersInv, OrdersTypeOK
  <2>4. next'[kind] = next[kind]
    BY <1>5, <1>12 DEF OrdersInv, OrdersTypeOK
  <2>5. {number'[c] : c \in m} = {number[c] : c \in m}
    BY <2>3
  <2> QED
    BY <2>1, <2>2, <2>4, <2>5 DEF NumbersOK
<1>13. ASSUME NEW kind \in OrderKinds
       PROVE  NumbersOK(kind, OrdersMade(kind))'
  <2>1. CASE kind = Kind[e]
    BY <1>7, <1>11, <1>M, <2>1 DEF NumbersOK
  <2> QED
    BY <1>12, <2>1
<1>14. /\ status' \in [Documents -> AnyStatus] /\ status'[e] = s
       /\ \A c \in Documents \ {e} : status'[c] = status[c]
  BY <1>2, <1>5 DEF OrdersInv
<1>15. /\ task'[k] = NoTask /\ \A j \in Staff \ {k} : task'[j] = task[j]
       /\ NoTask \in OrderTask /\ NoTask.at = "idle"
  BY <1>3 DEF OrdersInv, NoTask, OrderTask, AnyStatus
<1>16. task' \in [Staff -> OrderTask]
  BY <1>3, <1>15 DEF OrdersInv
<1>17. \A kind \in OrderKinds \ {Kind[e]} : next'[kind] = next[kind]
  BY <1>5 DEF OrdersInv, OrdersTypeOK
<1>18. ASSUME NEW j \in Staff
       PROVE  OrderTaskOK(task[j])'
  <2>1. CASE j = k
    BY <1>15, <2>1 DEF OrderTaskOK
  <2>2. CASE j # k
    <3>1. task'[j] = task[j] /\ OrderTaskOK(task[j]) /\ OrdersApart(task[k], task[j])
      BY <1>15, <2>2 DEF OrdersInv
    <3>2. task[j].at = "created" => Kind[task[j].doc] # Kind[e]
      BY <1>1, <1>4, <3>1 DEF OrdersApart
    <3>3. task[j].at \in {"idle", "created", "checked", "locked"}
      BY DEF OrdersInv, OrderTask
    <3>4. task[j].at # "idle" => task[j].doc # e
      BY <1>5, <3>1, <3>2, <3>3 DEF OrderTaskOK
    <3> QED
      BY <1>3, <1>14, <1>17, <3>1, <3>2, <3>4 DEF OrderTaskOK
  <2> QED
    BY <2>1, <2>2
<1>19. \A i, j \in Staff : i # j => OrdersApart(task[i], task[j])'
  BY <1>3, <1>15 DEF OrdersInv, OrdersApart
<1>20. OrdersTypeOK'
  <2>1. n \in 0 .. Cardinality(Documents) /\ n + 1 \in 1 .. Cardinality(Documents) + 1
    BY <1>8, <1>10
  <2>2. /\ number' \in [Documents -> 0 .. Cardinality(Documents)]
        /\ next' \in [OrderKinds -> 1 .. Cardinality(Documents) + 1]
    BY <1>5, <2>1 DEF OrdersInv, OrdersTypeOK
  <2>3. \A c \in Documents : status'[c] \in Statuses(Kind[c]) \cup {"none"}
    BY <1>5, <1>14 DEF OrdersInv, OrdersTypeOK
  <2>4. \A j \in Staff : task'[j].at \in {"idle", "created", "checked", "locked"}
    BY <1>16 DEF OrderTask
  <2> QED
    BY <1>3, <2>2, <2>3, <2>4 DEF OrdersInv, OrdersTypeOK
<1> QED
  BY <1>13, <1>14, <1>16, <1>18, <1>19, <1>20 DEF OrdersInv

\* Every step keeps the invariant.
LEMMA OrdersStepInv == OrdersInv /\ [OrdersStep]_orderVars => OrdersInv'
<1> SUFFICES ASSUME OrdersInv, [OrdersStep]_orderVars PROVE OrdersInv'
  OBVIOUS
<1>a. \A k \in Staff : OrderTaskOK(task[k])
  BY DEF OrdersInv
<1>1. ASSUME NEW k \in Staff, NEW d \in Documents, NEW to \in Statuses(Kind[d]), CreateOrder(k, d, to)
      PROVE  OrdersInv'
  <2>1. PICK t : t = [at |-> "created", doc |-> d, to |-> to, number |-> next[Kind[d]]]
    OBVIOUS
  <2>2. task' = [task EXCEPT ![k] = t] /\ UNCHANGED <<status, number, next, raced>>
    BY <1>1, <2>1 DEF CreateOrder, Begins
  <2>3. next[Kind[d]] \in Nat /\ to \in AnyStatus /\ Kind[d] \in OrderKinds /\ status[d] = "none"
    BY <1>1, AllowedFacts DEF CreateOrder, OrdersInv, OrdersTypeOK
  <2>4. OrderTaskOK(t)'
    BY <2>1, <2>2, <2>3 DEF OrderTaskOK, OrderTask
  <2>5. \A j \in Staff : ~(task[j].at = "created" /\ Kind[task[j].doc] = Kind[d])
    BY <1>1 DEF CreateOrder
  <2>6. \A j \in Staff \ {k} : task'[j] = task[j]
    BY <2>2 DEF OrdersInv
  <2>7. \A j \in Staff \ {k} : OrdersApart(t, task[j])' /\ OrdersApart(task[j], t)'
    BY <2>1, <2>5, <2>6 DEF OrdersApart
  <2> QED
    BY <2>2, <2>4, <2>7, OrderMoves DEF OrdersInv, OrdersTypeOK
<1>2. ASSUME NEW k \in Staff, NEW d \in Documents, NEW to \in Statuses(Kind[d]), CheckStatus(k, d, to)
      PROVE  OrdersInv'
  <2>1. PICK t : t = [at |-> "checked", doc |-> d, to |-> to, number |-> 0]
    OBVIOUS
  <2>2. /\ task' = [task EXCEPT ![k] = t] /\ UNCHANGED <<status, number, next>>
        /\ raced' = IF Doing("checked", d) THEN raced \cup {d} ELSE raced
        /\ Kind[d] \in OrderKinds /\ to \in Allowed(Kind[d], status[d])
    BY <1>2, <2>1 DEF CheckStatus, Begins
  <2>3. to \in AnyStatus /\ status[d] # "none"
    BY <2>2, AllowedFacts DEF OrderKinds
  <2>4. OrderTaskOK(t)'
    BY <2>1, <2>2, <2>3 DEF OrderTaskOK, OrderTask
  <2>6. \A j \in Staff \ {k} : task'[j] = task[j]
    BY <2>2 DEF OrdersInv
  <2>7. \A j \in Staff \ {k} : OrdersApart(t, task[j])' /\ OrdersApart(task[j], t)'
    BY <2>1, <2>2, <2>6 DEF OrdersApart, Doing
  <2>8. raced \subseteq raced' /\ raced' \subseteq Documents
    BY <2>2 DEF OrdersInv, OrdersTypeOK
  <2> QED
    BY <2>2, <2>4, <2>7, <2>8, OrderMoves
<1>3. ASSUME NEW k \in Staff, NEW d \in Documents, NEW to \in Statuses(Kind[d]), LockDeal(k, d, to)
      PROVE  OrdersInv'
  <2>1. PICK t : t = [at |-> "locked", doc |-> d, to |-> to, number |-> 0]
    OBVIOUS
  <2>2. /\ task' = [task EXCEPT ![k] = t] /\ UNCHANGED <<status, number, next, raced>>
        /\ Kind[d] = "deal" /\ to \in Allowed("deal", status[d]) /\ status[d] # "none" /\ ~Doing("locked", d)
    BY <1>3, <2>1 DEF LockDeal, Begins
  <2>3. to \in AnyStatus
    BY AllowedFacts
  <2>4. OrderTaskOK(t)'
    BY <2>1, <2>2, <2>3 DEF OrderTaskOK, OrderTask
  <2>6. \A j \in Staff \ {k} : task'[j] = task[j]
    BY <2>2 DEF OrdersInv
  <2>7. \A j \in Staff \ {k} : OrdersApart(t, task[j])' /\ OrdersApart(task[j], t)'
    BY <2>1, <2>2, <2>6 DEF OrdersApart, Doing
  <2> QED
    BY <2>2, <2>4, <2>7, OrderMoves DEF OrdersInv, OrdersTypeOK
<1>4. ASSUME NEW k \in Staff, OrderFails(k)
      PROVE  OrdersInv'
  <2>1. OrderTaskOK(NoTask)' /\ \A u : OrdersApart(NoTask, u)' /\ OrdersApart(u, NoTask)'
    BY DEF OrderTaskOK, OrderTask, NoTask, AnyStatus, OrdersApart
  <2> QED
    BY <1>4, <2>1, OrderMoves DEF OrderFails, Ends, OrdersInv, OrdersTypeOK
<1>5. ASSUME NEW k \in Staff, WriteStatus(k) \/ MoveDeal(k)
      PROVE  OrdersInv'
  <2>d. PICK d : d = task[k].doc
    OBVIOUS
  <2>s. PICK s : s = task[k].to
    OBVIOUS
  <2>1. /\ status' = [status EXCEPT ![d] = s] /\ task' = [task EXCEPT ![k] = NoTask]
        /\ UNCHANGED <<number, next, raced>>
    BY <1>5, <2>d, <2>s DEF WriteStatus, MoveDeal, Ends
  <2>2. d \in Documents /\ s \in Statuses(Kind[d]) /\ status[d] # "none"
    BY <1>5, <1>a, <2>d, <2>s DEF WriteStatus, MoveDeal, OrderTaskOK
  <2>3. ASSUME NEW j \in Staff \ {k}, task[j].doc = d, task[j].at # "idle"
        PROVE  task[j].at = "checked" /\ d \in raced
    <3>1. OrdersApart(task[j], task[k]) /\ OrderTaskOK(task[j]) /\ OrderTaskOK(task[k])
      BY <1>a DEF OrdersInv
    <3>2. CASE WriteStatus(k)
      BY <2>d, <2>2, <2>3, <3>1, <3>2 DEF WriteStatus, OrderTaskOK, OrderTask, OrdersApart, OrderKinds
    <3>3. CASE MoveDeal(k)
      BY <2>d, <2>2, <2>3, <3>1, <3>3 DEF MoveDeal, OrderTaskOK, OrderTask, OrdersApart, OrderKinds
    <3> QED
      BY <1>5, <3>2, <3>3
  <2> QED
    BY <2>1, <2>2, <2>3, OrderStatusMoves
<1>6. ASSUME NEW d \in Documents, CreateDeal(d)
      PROVE  OrdersInv'
  <2>1. "prospect" \in AnyStatus /\ "prospect" \in Statuses("deal")
    BY DEF AnyStatus, Statuses
  <2>2. /\ status' \in [Documents -> AnyStatus] /\ status'[d] = "prospect" /\ status[d] = "none" /\ Kind[d] = "deal"
        /\ \A c \in Documents \ {d} : status'[c] = status[c]
        /\ UNCHANGED <<number, next, task, raced>>
    BY <1>6, <2>1 DEF CreateDeal, OrdersInv
  <2>3. \A k \in Staff : OrderTaskOK(task[k])'
    BY <1>a, <2>2 DEF OrderTaskOK, OrderKinds
  <2>4. \A kind \in OrderKinds : OrdersMade(kind)' = OrdersMade(kind)
    BY <2>2 DEF OrdersMade, OrderKinds
  <2>5. OrdersTypeOK'
    BY <2>1, <2>2 DEF OrdersInv, OrdersTypeOK
  <2>6. \A i, j \in Staff : i # j => OrdersApart(task[i], task[j])'
    BY <2>2 DEF OrdersInv, OrdersApart
  <2> QED
    BY <2>2, <2>3, <2>4, <2>5, <2>6 DEF OrdersInv, NumbersOK
<1>7. CASE UNCHANGED orderVars
  <2>1. \A kind \in OrderKinds : OrdersMade(kind)' = OrdersMade(kind)
    BY <1>7 DEF OrdersMade, orderVars
  <2> QED
    BY <1>7, <2>1 DEF orderVars, OrdersInv, OrdersTypeOK, OrderTaskOK, OrdersApart, NumbersOK
<1> QED
  BY <1>1, <1>2, <1>3, <1>4, <1>5, <1>6, <1>7, OrderCommitKeepsInv DEF OrdersStep

\* No order has been made at first.
LEMMA OrdersStart == OrdersInit => OrdersInv
<1> SUFFICES ASSUME OrdersInit PROVE OrdersInv
  OBVIOUS
<1>1. \A kind \in OrderKinds : OrdersMade(kind) = {}
  BY DEF OrdersMade, OrdersInit
<1>2. Cardinality({}) = 0 /\ Cardinality(Documents) \in Nat
  BY FS_EmptySet, FS_CardinalityType
<1>3. \A kind \in OrderKinds : NumbersOK(kind, OrdersMade(kind))
  BY <1>1, <1>2 DEF NumbersOK, OrdersInit
<1>4. /\ NoTask \in OrderTask /\ NoTask.at = "idle" /\ status \in [Documents -> AnyStatus]
      /\ task = [k \in Staff |-> NoTask]
  BY DEF NoTask, OrderTask, AnyStatus, OrdersInit
<1>5. OrdersTypeOK
  BY <1>2, <1>4 DEF OrdersTypeOK, OrdersInit
<1> QED
  BY <1>3, <1>4, <1>5 DEF OrdersInv, OrderTaskOK, OrdersApart

\* The inductive invariant, from the initial state on.
LEMMA OrdersAlways == OrdersSpec => []OrdersInv
<1>1. OrdersInit => OrdersInv
  BY OrdersStart
<1> QED
  BY <1>1, OrdersStepInv, PTL DEF OrdersSpec

\* The numbers of the orders of each kind are 1, 2, 3 ... without a gap or a repetition, whatever
\* creations race, fail or are rolled back (nextOrderNumber under the sequence row's lock).
THEOREM GaplessHolds == OrdersSpec => [](OrdersTypeOK /\ OrderNumbersGapless)
<1>1. OrdersInv => OrdersTypeOK /\ OrderNumbersGapless
  BY DEF OrdersInv, NumbersOK, OrdersMade, OrderNumbersGapless
<1> QED
  BY <1>1, OrdersAlways, PTL

\* A step leaves a terminal status alone, unless updates of the document overlapped.
LEMMA ClosedStays ==
  ASSUME OrdersInv, [OrdersStep]_orderVars, NEW d \in Documents, Terminal(d), d \notin raced'
  PROVE  status'[d] = status[d]
<1>1. /\ status[d] # "none" /\ Allowed(Kind[d], status[d]) = {} /\ status \in [Documents -> AnyStatus]
  BY DEF Terminal, OrdersInv
<1>2. ASSUME NEW k \in Staff, OrderCommits(k)
      PROVE  status'[d] = status[d]
  BY <1>1, <1>2 DEF OrderCommits, OrdersInv, OrderTaskOK
<1>3. ASSUME NEW k \in Staff, WriteStatus(k) \/ MoveDeal(k)
      PROVE  status'[d] = status[d]
  <2>1. OrderTaskOK(task[k]) /\ raced' = raced /\ status' = [status EXCEPT ![task[k].doc] = task[k].to]
    BY <1>3 DEF WriteStatus, MoveDeal, OrdersInv
  <2>2. task[k].doc # d
    BY <1>1, <1>3, <2>1 DEF WriteStatus, MoveDeal, OrderTaskOK
  <2> QED
    BY <1>1, <2>1, <2>2
<1>4. ASSUME NEW c \in Documents, CreateDeal(c)
      PROVE  status'[d] = status[d]
  BY <1>1, <1>4 DEF CreateDeal
<1>5. CASE UNCHANGED status
  BY <1>5
<1> QED
  BY <1>2, <1>3, <1>4, <1>5 DEF OrdersStep, CreateOrder, CheckStatus, LockDeal, OrderFails, orderVars

\* A document in a status that nothing leads out of stays there, unless updates of it overlapped.
THEOREM ClosedHolds == OrdersSpec => ClosedStaysClosed
<1>1. OrdersInv /\ [OrdersStep]_orderVars
      => [\A d \in Documents : Terminal(d) /\ d \notin raced' => status'[d] = status[d]]_orderVars
  BY ClosedStays
<1> QED
  BY <1>1, OrdersAlways, PTL DEF OrdersSpec, ClosedStaysClosed

\* Order numbers run without gap, and closed deals stay closed; so do closed orders, unless two
\* updates of one overlapped: the check of UpdateSalesOrderStatus is not under a lock.
THEOREM OrdersKeepOrder == OrdersSpec => OrdersInOrder
BY GaplessHolds, ClosedHolds, PTL DEF OrdersInOrder

------------------------------------------------------------------------------------
\* A goroutine that is not writing holds nothing.
HoldsNothing(w) == IF w = Loop THEN flush \notin {"tick", "last"} ELSE phase[w] # "writing"

\* Metrics: a record is in the buffer, in one batch or written, and lost only if a write failed.
MetricsInv ==
    /\ MetricsTypeOK
    /\ IsFiniteSet(buffer)
    /\ \A w \in Writers : HoldsNothing(w) => batches[w] = {}
    /\ buffer \cup written \cup UNION {batches[w] : w \in Writers} \subseteq Recorded
    /\ \A w \in Writers :
        /\ batches[w] \cap (buffer \cup written) = {}
        /\ \A v \in Writers \ {w} : batches[v] \cap batches[w] = {}
    /\ buffer \cap written = {}
    /\ ~failed => Recorded \subseteq buffer \cup written \cup UNION {batches[w] : w \in Writers}

\* The flush loop is a writer beside the requests.
LEMMA LoopWrites == Loop \in Writers /\ \A r \in Requests : r \in Writers /\ r # Loop
BY MetricsAssumption DEF Writers

\* One goroutine detaches the buffer, with or without one record more.
LEMMA DetachKeepsMetrics ==
  ASSUME MetricsInv, NEW w \in Writers, HoldsNothing(w), HoldsNothing(w)' => batches' = batches,
         MetricsTypeOK', IsFiniteSet(buffer'),
         \A v \in Writers \ {w} : HoldsNothing(v)' => HoldsNothing(v),
         NEW new \in SUBSET Requests, new \cap Recorded = {}, Recorded' = Recorded \cup new,
         UNCHANGED <<written, failed>>,
         \/ buffer' = {} /\ batches' = [batches EXCEPT ![w] = buffer \cup new]
         \/ buffer' = buffer \cup new /\ batches' = batches
  PROVE  MetricsInv'
<1>1. /\ \A v \in Writers \ {w} : batches'[v] = batches[v]
      /\ batches[w] = {} /\ w \in Writers
      /\ \/ buffer' = {} /\ batches'[w] = buffer \cup new
         \/ buffer' = buffer \cup new /\ batches'[w] = {}
  BY DEF MetricsInv, MetricsTypeOK
<1>2. \A v \in Writers : new \cap (buffer \cup written \cup batches[v]) = {}
  BY DEF MetricsInv
<1>3. \A v \in Writers : batches[v] \cap (buffer \cup written) = {} /\ \A u \in Writers \ {v} : batches[u] \cap batches[v] = {}
  BY DEF MetricsInv
<1>4. \A v \in Writers : batches'[v] \cap (buffer' \cup written') = {}
  BY <1>1, <1>2, <1>3 DEF MetricsInv
<1>5. \A v \in Writers : \A u \in Writers \ {v} : batches'[u] \cap batches'[v] = {}
  BY <1>1, <1>2, <1>3 DEF MetricsInv
<1>6. buffer' \cap written' = {}
  BY <1>2, <1>1 DEF MetricsInv
<1>7. buffer' \cup UNION {batches'[v] : v \in Writers} = buffer \cup new \cup UNION {batches[v] : v \in Writers}
  BY <1>1
<1>8. \A v \in Writers : HoldsNothing(v)' => batches'[v] = {}
  BY <1>1 DEF MetricsInv
<1> QED
  BY <1>4, <1>5, <1>6, <1>7, <1>8 DEF MetricsInv

\* A goroutine goes on, with its batch written or lost.
LEMMA ContinueKeepsMetrics ==
  ASSUME MetricsInv, NEW w \in Writers, Writing(w), Continue(w), UNCHANGED <<buffer, main>>,
         \/ written' = written \cup batches[w] /\ UNCHANGED failed
         \/ written' = written /\ failed' = TRUE
  PROVE  MetricsInv'
<1>1. /\ \A v \in Writers \ {w} : batches'[v] = batches[v]
      /\ batches'[w] = {} /\ batches[w] \subseteq Requests
      /\ batches' \in [Writers -> SUBSET Requests]
  BY DEF Continue, MetricsInv, MetricsTypeOK
<1>2. \A v \in Writers : batches[v] \cap (buffer \cup written) = {} /\ \A u \in Writers \ {v} : batches[u] \cap batches[v] = {}
  BY DEF MetricsInv
<1>3. /\ \A v \in Writers : batches'[v] \cap (buffer' \cup written') = {}
      /\ \A v \in Writers : \A u \in Writers \ {v} : batches'[u] \cap batches'[v] = {}
      /\ buffer' \cap written' = {}
  BY <1>1, <1>2 DEF MetricsInv
<1>4. /\ buffer' \cup written' \cup UNION {batches'[v] : v \in Writers}
           \subseteq buffer \cup written \cup UNION {batches[v] : v \in Writers}
      /\ ~failed' => buffer \cup written \cup UNION {batches[v] : v \in Writers}
                      \subseteq buffer' \cup written' \cup UNION {batches'[v] : v \in Writers}
  BY <1>1
<1>5. Recorded' = Recorded /\ phase' \in [Requests -> {"new", "running", "writing", "done"}]
      /\ flush' \in {"waiting", "tick", "last", "done"}
      /\ \A v \in Writers : HoldsNothing(v)' => v = w \/ HoldsNothing(v)
  <2>1. CASE w = Loop
    BY <2>1 DEF Continue, Writing, MetricsInv, MetricsTypeOK, Recorded, HoldsNothing
  <2>2. CASE w # Loop
    <3>1. w \in Requests /\ phase[w] = "writing" /\ flush' = flush /\ phase' = [phase EXCEPT ![w] = "done"]
      BY <2>2 DEF Continue, Writing, Writers
    <3> QED
      BY <3>1 DEF MetricsInv, MetricsTypeOK, Recorded, HoldsNothing, Writers
  <2> QED
    BY <2>1, <2>2
<1>6. \A v \in Writers : HoldsNothing(v)' => batches'[v] = {}
  BY <1>1, <1>5 DEF MetricsInv
<1>7. MetricsTypeOK' /\ IsFiniteSet(buffer')
  BY <1>1, <1>5 DEF MetricsInv, MetricsTypeOK
<1> QED
  BY <1>3, <1>4, <1>5, <1>6, <1>7 DEF MetricsInv

\* Every step of the requests, of the flush loop and of the shutdown keeps the invariant.
LEMMA MetricsStepInv == MetricsInv /\ [MetricsNext]_metricsVars => MetricsInv'
<1> SUFFICES ASSUME MetricsInv, [MetricsNext]_metricsVars PROVE MetricsInv'
  OBVIOUS
<1>t. MetricsTypeOK /\ IsFiniteSet(buffer) /\ Cardinality({}) = 0 /\ MaxBuffer \in Nat /\ IsFiniteSet({}) /\ MaxBuffer > 0
  BY MetricsAssumption, FS_EmptySet DEF MetricsInv
<1>1. ASSUME NEW r \in Requests, Arrive(r)
      PROVE  MetricsInv'
  <2>1. Recorded' = Recorded /\ \A w \in Writers : HoldsNothing(w)' => HoldsNothing(w)
    BY <1>t, <1>1 DEF Arrive, MetricsTypeOK, Recorded, HoldsNothing, Writers
  <2>2. MetricsTypeOK'
    BY <1>t, <1>1 DEF Arrive, MetricsTypeOK
  <2> QED
    BY <1>1, <2>1, <2>2 DEF Arrive, MetricsInv
<1>2. ASSUME NEW r \in Requests, RecordRequest(r)
      PROVE  MetricsInv'
  <2> DEFINE records == buffer \cup {r}
             full == Cardinality(records) >= MaxBuffer
  <2>1. /\ phase[r] = "running" /\ phase' = [phase EXCEPT ![r] = IF full THEN "writing" ELSE "done"]
        /\ UNCHANGED <<written, flush, main, failed>>
        /\ \/ full /\ buffer' = {} /\ batches' = [batches EXCEPT ![r] = records]
           \/ ~full /\ buffer' = records /\ batches' = [batches EXCEPT ![r] = {}]
    BY <1>2 DEF RecordRequest
  <2>2. r \in Writers /\ HoldsNothing(r) /\ r # Loop
    BY <2>1, LoopWrites DEF HoldsNothing
  <2>3. {r} \cap Recorded = {} /\ Recorded' = Recorded \cup {r}
    BY <1>t, <2>1 DEF Recorded, MetricsTypeOK
  <2>4. batches[r] = {}
    BY <2>2 DEF MetricsInv
  <2>5. ~full => batches' = batches
    BY <1>t, <2>1, <2>2, <2>4 DEF MetricsTypeOK
  <2>6. full => ~HoldsNothing(r)'
    BY <1>t, <2>1, <2>2 DEF HoldsNothing, MetricsTypeOK
  <2>7. \A v \in Writers \ {r} : HoldsNothing(v)' => HoldsNothing(v)
    BY <1>t, <2>1 DEF HoldsNothing, MetricsTypeOK, Writers
  <2>8. IsFiniteSet(records) /\ Cardinality(records) \in Nat
    BY <1>t, FS_AddElement, FS_CardinalityType
  <2>9. IsFiniteSet(buffer') /\ Cardinality(buffer') < MaxBuffer /\ buffer' \subseteq Requests
    <3>1. buffer \subseteq Requests
      BY <1>t DEF MetricsTypeOK
    <3>2. CASE full
      <4>1. buffer' = {}
        BY <2>1, <3>2
      <4> QED
        BY <1>t, <4>1
    <3>3. CASE ~full
      <4>1. buffer' = records /\ ~(Cardinality(records) >= MaxBuffer)
        BY <2>1, <3>3
      <4> QED
        BY <1>t, <2>8, <3>1, <4>1
    <3> QED
      BY <3>2, <3>3
  <2>10. MetricsTypeOK'
    BY <1>t, <2>1, <2>2, <2>9 DEF MetricsTypeOK
  <2>11. PICK new : new = {r}
    OBVIOUS
  <2>12. /\ HoldsNothing(r)' => batches' = batches
         /\ \/ buffer' = {} /\ batches' = [batches EXCEPT ![r] = buffer \cup new]
            \/ buffer' = buffer \cup new /\ batches' = batches
    BY <2>1, <2>5, <2>6, <2>11
  <2>13. new \in SUBSET Requests /\ new \cap Recorded = {} /\ Recorded' = Recorded \cup new
    BY <2>3, <2>11
  <2> QED
    BY <2>1, <2>2, <2>7, <2>9, <2>10, <2>12, <2>13, DetachKeepsMetrics
<1>3. CASE Tick \/ LastFlush
  <2>1. /\ flush = "waiting" /\ flush' \in {"tick", "last"}
        /\ batches' = [batches EXCEPT ![Loop] = buffer] /\ buffer' = {}
        /\ UNCHANGED <<phase, written, main, failed>>
    BY <1>3 DEF Tick, LastFlush
  <2>2. Loop \in Writers /\ HoldsNothing(Loop) /\ ~HoldsNothing(Loop)'
    BY <2>1, LoopWrites DEF HoldsNothing
  <2>3. \A v \in Writers \ {Loop} : HoldsNothing(v)' => HoldsNothing(v)
    BY <2>1 DEF HoldsNothing
  <2>4. MetricsTypeOK'
    BY <1>t, <2>1, <2>2 DEF MetricsTypeOK
  <2>5. Recorded' = Recorded \cup {} /\ {} \cap Recorded = {}
    BY <2>1 DEF Recorded
  <2> QED
    BY <1>t, <2>1, <2>2, <2>3, <2>4, <2>5, DetachKeepsMetrics
<1>4. ASSUME NEW w \in Writers, WriteBatch(w) \/ WriteFails(w)
      PROVE  MetricsInv'
  BY <1>4, ContinueKeepsMetrics DEF WriteBatch, WriteFails
<1>5. CASE Sigterm \/ Drained \/ Exit \/ UNCHANGED metricsVars
  BY <1>5 DEF Sigterm, Drained, Exit, metricsVars, MetricsInv, MetricsTypeOK, Recorded, HoldsNothing
<1> QED
  BY <1>1, <1>2, <1>3, <1>4, <1>5 DEF MetricsNext

\* The buffer is empty at first.
LEMMA MetricsStart == MetricsInit => MetricsInv
<1> SUFFICES ASSUME MetricsInit PROVE MetricsInv
  OBVIOUS
<1>1. IsFiniteSet(buffer) /\ Cardinality(buffer) = 0 /\ \A w \in Writers : batches[w] = {}
  BY FS_EmptySet DEF MetricsInit
<1>2. MetricsTypeOK
  <2>1. Cardinality(buffer) < MaxBuffer
    BY <1>1, MetricsAssumption
  <2>2. batches \in [Writers -> SUBSET Requests]
    BY DEF MetricsInit
  <2>3. phase \in [Requests -> {"new", "running", "writing", "done"}]
    BY DEF MetricsInit
  <2> QED
    BY <2>1, <2>2, <2>3 DEF MetricsInit, MetricsTypeOK
<1>3. Recorded = {} /\ UNION {batches[w] : w \in Writers} = {} /\ buffer = {} /\ written = {}
  BY <1>1 DEF MetricsInit, Recorded
<1> QED
  BY <1>1, <1>2, <1>3 DEF MetricsInv

\* A metric is in one place at a time and written once at most; as long as no write has failed
\* and the shutdown has cancelled none (buffer.go:181-193) none is lost either, for any number of
\* requests that record at once, with ticks, full buffers and the last flush in between.
THEOREM MetricsKept == MetricsSpec => [](MetricsTypeOK /\ EachMetricOnce)
<1>1. MetricsInit => MetricsInv
  BY MetricsStart
<1>2. MetricsInv => MetricsTypeOK /\ EachMetricOnce
  BY DEF MetricsInv, EachMetricOnce
<1> QED
  BY <1>1, <1>2, MetricsStepInv, PTL DEF MetricsSpec

------------------------------------------------------------------------------------
\* Memberships: c is accepting i and has it locked.
Accepts(c, i) == (Does(c, "accept", "locked") \/ Does(c, "accept", "inserted")) /\ call[c].invite = i

\* The lock keeps an invite pending from the check to the change, for one call at a time; a
\* revocation, whose check is not under the lock, at least finds an invite that was made; an
\* invite that let somebody in is not pending any more.
MemberInv ==
    /\ MemberTypeOK
    /\ \A c \in Calls, i \in Invites : Accepts(c, i) =>
        /\ invite[i].status = "pending"
        /\ \A d \in Calls : Accepts(d, i) => d = c
    /\ \A c \in Calls : Does(c, "revoke", "read") => invite[call[c].invite].status # "none"
    /\ \A i \in Invites : joined[i] # {} => invite[i].status \notin {"none", "pending"}

\* What a call in progress is about, by what it does.
LEMMA MemberCallShapes ==
  ASSUME MemberTypeOK, NEW c \in Calls
  PROVE  /\ \A s \in {"locked", "inserted"} : Does(c, "accept", s) => call[c] \in Accepting
         /\ Does(c, "revoke", "read") => call[c] \in Revoking
         /\ \A s \in {"counted", "deleted"} : Does(c, "delete", s) => call[c] \in Deleting
  BY DEF MemberTypeOK, Does, Accepting, Revoking, Deleting

\* A step of one call that leaves all rows as they are.
LEMMA MemberCallMoves ==
  ASSUME MemberInv, NEW c \in Calls, NEW k \in Accepting \cup Revoking \cup Deleting \cup {Nobody},
         call' = [call EXCEPT ![c] = k], UNCHANGED <<role, member, invite, joined>>,
         k # Nobody /\ k.op = "accept" => Accepts(c, k.invite) \/ (Acceptable(k.invite) /\ ~InviteLocked(k.invite)),
         k # Nobody /\ k.op = "revoke" => invite[k.invite].status # "none"
  PROVE  MemberInv'
<1>1. MemberTypeOK'
  BY DEF MemberInv, MemberTypeOK
<1>2. call'[c] = k /\ \A d \in Calls \ {c} : call'[d] = call[d]
  BY DEF MemberInv, MemberTypeOK
<1>3. ASSUME NEW i \in Invites, NEW d \in Calls, Accepts(d, i)'
      PROVE  /\ invite[i].status = "pending"
             /\ \A e \in Calls : Accepts(e, i)' => e = d
  <2>1. \A e \in Calls \ {c} : Accepts(e, i)' => Accepts(e, i)
    BY <1>2 DEF Accepts, Does
  <2>2. \A e \in Calls : Accepts(e, i) => InviteLocked(i)
    BY DEF Accepts, InviteLocked
  <2>3. Accepts(c, i)' => Accepts(c, i) \/ (Acceptable(i) /\ ~InviteLocked(i))
    BY <1>2 DEF Accepts, Does
  <2> QED
    BY <1>3, <2>1, <2>2, <2>3 DEF MemberInv, Acceptable
<1>4. ASSUME NEW d \in Calls, Does(d, "revoke", "read")'
      PROVE  invite[call'[d].invite].status # "none"
  BY <1>2, <1>4 DEF MemberInv, Does
<1> QED
  BY <1>1, <1>3, <1>4 DEF MemberInv

\* A step that changes invites but locks none keeps the invariant, if locked ones stay pending.
LEMMA InvitesMove ==
  ASSUME MemberInv, MemberTypeOK',
         \A c \in Calls : call'[c] = call[c] \/ call'[c] = Nobody,
         \A i \in Invites : (\E c \in Calls : Accepts(c, i)') => invite'[i].status = "pending",
         \A i \in Invites : invite[i].status # "none" => invite'[i].status # "none",
         \A i \in Invites : joined'[i] # {} => invite'[i].status \notin {"none", "pending"}
  PROVE  MemberInv'
<1>1. \A c \in Calls, i \in Invites : Accepts(c, i)' => Accepts(c, i)
  BY DEF Accepts, Does
<1>2. ASSUME NEW c \in Calls, Does(c, "revoke", "read")'
      PROVE  invite'[call'[c].invite].status # "none"
  <2>1. Does(c, "revoke", "read") /\ call'[c] = call[c]
    BY <1>2 DEF Does
  <2>2. call[c].invite \in Invites
    BY <2>1, MemberCallShapes DEF MemberInv, Revoking
  <2> QED
    BY <2>1, <2>2 DEF MemberInv
<1> QED
  BY <1>1, <1>2 DEF MemberInv

\* Every step of a request keeps the invariant.
LEMMA MemberStepInv == MemberInv /\ [MemberNext]_memberVars => MemberInv'
<1> SUFFICES ASSUME MemberInv, [MemberNext]_memberVars PROVE MemberInv'
  OBVIOUS
<1>a. MemberTypeOK
  BY DEF MemberInv
<1>1. ASSUME NEW r \in Roles, CreateRole(r)
      PROVE  MemberInv'
  <2>1. MemberTypeOK'
    BY <1>1, <1>a DEF CreateRole, MemberTypeOK
  <2> QED
    BY <1>1, <2>1, InvitesMove DEF CreateRole, MemberInv, Accepts, Does
<1>2. ASSUME NEW r \in Roles, NEW i \in Invites, Generate(i, r)
      PROVE  MemberInv'
  <2>1. MemberTypeOK'
    BY <1>2, <1>a DEF Generate, MemberTypeOK
  <2>2. /\ invite'[i].status = "pending" /\ invite[i].status = "none"
        /\ \A j \in Invites \ {i} : invite'[j] = invite[j]
        /\ UNCHANGED <<role, member, call, joined>>
    BY <1>2, <1>a DEF Generate, MemberTypeOK
  <2> QED
    BY <2>1, <2>2, InvitesMove DEF MemberInv, Accepts, Does
<1>3. ASSUME NEW i \in Invites, ExpireInvite(i)
      PROVE  MemberInv'
  <2>1. MemberTypeOK'
    BY <1>3, <1>a DEF ExpireInvite, MemberTypeOK
  <2>2. \A j \in Invites : invite'[j].status = invite[j].status
    BY <1>3, <1>a DEF ExpireInvite, MemberTypeOK
  <2> QED
    BY <1>3, <2>1, <2>2, InvitesMove DEF ExpireInvite, MemberInv, Accepts, Does
<1>4. ASSUME NEW c \in Calls, NEW p \in People, NEW i \in Invites, AcceptLocks(c, p, i)
      PROVE  MemberInv'
  BY <1>4, MemberCallMoves DEF AcceptLocks, Accepting
<1>5. ASSUME NEW c \in Calls, NEW i \in Invites, RevokeReads(c, i)
      PROVE  MemberInv'
  BY <1>5, MemberCallMoves DEF RevokeReads, Revoking
<1>6. ASSUME NEW c \in Calls, NEW r \in Roles, DeleteCounts(c, r)
      PROVE  MemberInv'
  BY <1>6, MemberCallMoves DEF DeleteCounts, Deleting
<1>7. ASSUME NEW c \in Calls, AcceptInserts(c)
      PROVE  MemberInv'
  <2>1. call[c] \in Accepting /\ Accepts(c, call[c].invite)
    BY <1>7, <1>a, MemberCallShapes DEF AcceptInserts, Accepts
  <2> DEFINE k == [call[c] EXCEPT !.step = "inserted"]
  <2>2. k \in Accepting /\ k.op = "accept" /\ k.invite = call[c].invite
    BY <2>1 DEF Accepting
  <2> QED
    BY <1>7, <2>1, <2>2, MemberCallMoves DEF AcceptInserts
<1>8. ASSUME NEW c \in Calls, DeleteTakes(c)
      PROVE  MemberInv'
  <2>1. call[c] \in Deleting
    BY <1>8, <1>a, MemberCallShapes DEF DeleteTakes
  <2> DEFINE k == [call[c] EXCEPT !.step = "deleted"]
  <2>2. k \in Deleting /\ k.op = "delete"
    BY <2>1 DEF Deleting
  <2> QED
    BY <1>8, <2>2, MemberCallMoves DEF DeleteTakes
<1>9. ASSUME NEW c \in Calls, Aborts(c)
      PROVE  MemberInv'
  BY <1>9, MemberCallMoves DEF Aborts
<1>10. ASSUME NEW c \in Calls, AcceptCommits(c)
       PROVE  MemberInv'
  <2> DEFINE i == call[c].invite
             p == call[c].who
  <2>1. i \in Invites /\ p \in People /\ Accepts(c, i) /\ call' = [call EXCEPT ![c] = Nobody]
    BY <1>10, <1>a, MemberCallShapes DEF AcceptCommits, Accepts, Accepting
  <2>2. invite[i].status = "pending" /\ invite[i].role \in Roles /\ role[invite[i].role] = "live"
    BY <2>1, <1>a DEF MemberInv, MemberTypeOK
  <2> HIDE DEF i, p
  <2>3. /\ member' = member \cup {<<p, invite[i].role>>}
        /\ invite' = [invite EXCEPT ![i].status = "used"]
        /\ joined' = [joined EXCEPT ![i] = @ \cup {p}]
        /\ UNCHANGED role
    BY <1>10 DEF AcceptCommits, i, p
  <2>4. /\ invite'[i].status = "used" /\ invite'[i].role = invite[i].role
        /\ invite' \in [Invites -> [role : Roles \cup {Nobody}, expired : BOOLEAN,
                                    status : {"none", "pending", "used", "revoked", "gone"}]]
        /\ \A j \in Invites \ {i} : invite'[j] = invite[j] /\ joined'[j] = joined[j]
    BY <2>1, <2>3, <1>a DEF MemberTypeOK
  <2>5. MemberTypeOK'
    BY <2>1, <2>2, <2>3, <2>4, <1>a DEF MemberTypeOK
  <2>6. \A d \in Calls \ {c} : ~Accepts(d, i)
    BY <2>1 DEF MemberInv
  <2>7. \A d \in Calls : call'[d] = call[d] \/ call'[d] = Nobody
    BY <2>1, <1>a DEF MemberTypeOK
  <2>8. ASSUME NEW j \in Invites, NEW d \in Calls, Accepts(d, j)'
        PROVE  invite'[j].status = "pending"
    <3>1. d # c
      BY <2>1, <2>8, <1>a DEF Accepts, Does, MemberTypeOK
    <3>2. Accepts(d, j)
      BY <2>7, <2>8 DEF Accepts, Does
    <3> QED
      BY <2>4, <2>6, <3>1, <3>2 DEF MemberInv
  <2>9. \A j \in Invites : joined'[j] # {} => invite'[j].status \notin {"none", "pending"}
    BY <2>4 DEF MemberInv
  <2> QED
    BY <2>4, <2>5, <2>7, <2>8, <2>9, InvitesMove
<1>11. ASSUME NEW c \in Calls, RevokeWrites(c)
       PROVE  MemberInv'
  <2> DEFINE i == call[c].invite
  <2>1. i \in Invites /\ invite[i].status # "none" /\ call' = [call EXCEPT ![c] = Nobody]
    BY <1>11, <1>a, MemberCallShapes DEF RevokeWrites, Revoking, MemberInv
  <2> HIDE DEF i
  <2>2. /\ ~InviteLocked(i) /\ UNCHANGED <<role, member, joined>>
        /\ invite' = IF invite[i].status = "gone" THEN invite ELSE [invite EXCEPT ![i].status = "revoked"]
    BY <1>11 DEF RevokeWrites, i
  <2>3. /\ invite'[i].status \in {"gone", "revoked"} /\ invite'[i].role = invite[i].role
        /\ invite'[i].status = "revoked" => invite[i].status # "gone"
        /\ invite' \in [Invites -> [role : Roles \cup {Nobody}, expired : BOOLEAN,
                                    status : {"none", "pending", "used", "revoked", "gone"}]]
        /\ \A j \in Invites \ {i} : invite'[j] = invite[j]
    BY <2>1, <2>2, <1>a DEF MemberTypeOK
  <2>4. invite[i].status \in {"pending", "used", "revoked", "gone"}
    BY <2>1, <1>a DEF MemberTypeOK
  <2>5. MemberTypeOK'
    BY <2>1, <2>2, <2>3, <2>4, <1>a DEF MemberTypeOK
  <2>6. \A d \in Calls : call'[d] = call[d] \/ call'[d] = Nobody
    BY <2>1, <1>a DEF MemberTypeOK
  <2>7. ASSUME NEW j \in Invites, NEW d \in Calls, Accepts(d, j)'
        PROVE  invite'[j].status = "pending"
    <3>1. Accepts(d, j)
      BY <2>6, <2>7 DEF Accepts, Does
    <3>2. j # i
      BY <2>2, <3>1 DEF Accepts, InviteLocked
    <3> QED
      BY <2>3, <3>1, <3>2 DEF MemberInv
  <2>8. \A j \in Invites : joined'[j] # {} => invite'[j].status \notin {"none", "pending"}
    BY <2>2, <2>3 DEF MemberInv
  <2> QED
    BY <2>3, <2>5, <2>6, <2>7, <2>8, InvitesMove
<1>12. ASSUME NEW c \in Calls, DeleteCommits(c)
       PROVE  MemberInv'
  <2> DEFINE r == call[c].role
             Its == {i \in Invites : invite[i].role = r /\ invite[i].status # "none"}
  <2>1. r \in Roles /\ call' = [call EXCEPT ![c] = Nobody]
    BY <1>12, <1>a, MemberCallShapes DEF DeleteCommits, Deleting
  <2> HIDE DEF r
  <2>2. /\ \A i \in Its : ~InviteLocked(i)
        /\ role' = [role EXCEPT ![r] = "deleted"] /\ member' = {m \in member : m[2] # r}
        /\ invite' = [i \in Invites |-> IF i \in Its THEN [invite[i] EXCEPT !.status = "gone"] ELSE invite[i]]
        /\ UNCHANGED joined
    BY <1>12 DEF DeleteCommits, r
  <2>3. \A i \in Its : /\ invite'[i].status = "gone" /\ invite'[i].role = invite[i].role
                       /\ invite'[i] \in [role : Roles \cup {Nobody}, expired : BOOLEAN,
                                          status : {"none", "pending", "used", "revoked", "gone"}]
    BY <2>2, <1>a DEF MemberTypeOK
  <2>4. \A i \in Invites \ Its : invite'[i] = invite[i] /\ (invite[i].role # r \/ invite[i].status = "none")
    BY <2>2
  <2> HIDE DEF Its
  <2>5. MemberTypeOK'
    <3>1. invite' \in [Invites -> [role : Roles \cup {Nobody}, expired : BOOLEAN,
                                   status : {"none", "pending", "used", "revoked", "gone"}]]
      BY <2>2, <2>3, <2>4, <1>a DEF MemberTypeOK
    <3>2. \A i \in Invites : invite'[i].status \in {"pending", "used", "revoked"} =>
             invite'[i].role \in Roles /\ role'[invite'[i].role] = "live"
      BY <2>1, <2>2, <2>3, <2>4, <1>a DEF MemberTypeOK
    <3> QED
      BY <2>1, <2>2, <3>1, <3>2, <1>a DEF MemberTypeOK
  <2>6. \A d \in Calls : call'[d] = call[d] \/ call'[d] = Nobody
    BY <2>1, <1>a DEF MemberTypeOK
  <2>7. ASSUME NEW j \in Invites, NEW d \in Calls, Accepts(d, j)'
        PROVE  invite'[j].status = "pending"
    <3>1. Accepts(d, j)
      BY <2>6, <2>7 DEF Accepts, Does
    <3>2. j \notin Its
      BY <2>2, <3>1 DEF Accepts, InviteLocked
    <3> QED
      BY <2>4, <3>1, <3>2 DEF MemberInv
  <2>8. \A j \in Invites : joined'[j] # {} => invite'[j].status \notin {"none", "pending"}
    BY <2>2, <2>3, <2>4 DEF MemberInv
  <2> QED
    BY <2>3, <2>4, <2>5, <2>6, <2>7, <2>8, InvitesMove
<1>13. CASE UNCHANGED memberVars
  BY <1>13, <1>a DEF memberVars, MemberInv, MemberTypeOK, Accepts, Does
<1> QED
  BY <1>1, <1>2, <1>3, <1>4, <1>5, <1>6, <1>7, <1>8, <1>9, <1>10, <1>11, <1>12, <1>13 DEF MemberNext

\* No one has been invited at first.
LEMMA MembersStart == MemberInit => MemberInv
BY DEF MemberInit, MemberInv, MemberTypeOK, Accepts, Does, NoInvite

\* The variables of memberships and invites keep their types, foreign keys included.
THEOREM MembersTyped == MemberSpec => []MemberTypeOK
<1>1. MemberInit => MemberInv
  BY MembersStart
<1>2. MemberInv => MemberTypeOK
  BY DEF MemberInv
<1> QED
  BY <1>1, <1>2, MemberStepInv, PTL DEF MemberSpec

\* Whoever joins by an invite finds it pending and is the first.
LEMMA OneJoin ==
  MemberInv /\ [MemberNext]_memberVars =>
      [\A i \in Invites : joined'[i] # joined[i] => joined[i] = {} /\ invite[i].status = "pending"]_memberVars
<1> SUFFICES ASSUME MemberInv, MemberNext, NEW i \in Invites, joined'[i] # joined[i]
             PROVE  joined[i] = {} /\ invite[i].status = "pending"
  BY DEF memberVars
<1>1. PICK c \in Calls : AcceptCommits(c)
  BY DEF MemberNext, CreateRole, Generate, ExpireInvite, RevokeReads, AcceptLocks, DeleteCounts,
         AcceptInserts, RevokeWrites, DeleteTakes, DeleteCommits, Aborts
<1>2. call[c] \in Accepting /\ Accepts(c, call[c].invite)
  BY <1>1, MemberCallShapes DEF AcceptCommits, Accepts, MemberInv
<1>3. i = call[c].invite
  BY <1>1 DEF AcceptCommits, MemberInv, MemberTypeOK
<1> QED
  BY <1>2, <1>3 DEF MemberInv

\* An invite lets one person in, and only while it is pending.
THEOREM OneJoins == MemberSpec => OneJoinsPerInvite
<1>1. MemberInit => MemberInv
  BY MembersStart
<1>2. MemberInv /\ [MemberNext]_memberVars =>
        [\A i \in Invites : joined'[i] # joined[i] => joined[i] = {} /\ invite[i].status = "pending"]_memberVars
  BY OneJoin
<1> QED
  BY <1>1, <1>2, MemberStepInv, PTL DEF MemberSpec, OneJoinsPerInvite

------------------------------------------------------------------------------------
\* A call, as AbsenceTypeOK has it, that is consistent: it is about a request, an answer has a
\* verdict, and one that is about to write the answer into the absence has taken its transition.
CallSound(a, taken) ==
    /\ a \in [at : {"idle", "start", "link", "ask", "find", "answer", "overwrite", "execute",
                    "move", "revert", "sync", "delete"},
              req : Filings \cup {NoRequest}, verdict : Verdicts \cup {"none"}, inbox : BOOLEAN]
    /\ a.at # "idle" => a.req \in Filings
    /\ a.at \notin {"idle", "start", "link", "ask", "delete"} => a.verdict \in Verdicts
    /\ a.at = "sync" => a.verdict \in taken[a.req]

\* Absences: every call is consistent, and no answer is shown without its transition.
AbsenceInv ==
    /\ AbsenceTypeOK
    /\ AnswerIsBacked
    /\ \A g \in Agents : CallSound(actor[g], moves)

\* A step of one call that takes no transition back and gives no absence an answer its
\* instance has not taken.
LEMMA AbsenceMoves ==
  ASSUME AbsenceInv, NEW g \in Agents, NEW a,
         actor' = [actor EXCEPT ![g] = a], CallSound(a, moves'),
         absence' \in [Filings -> {"none", "pending", "deleted"} \cup Verdicts],
         linked' \subseteq Filings,
         instance' \in [Filings -> {"none", "requested"} \cup Verdicts],
         approval' \in [Filings -> {"none", "pending", "expired"} \cup Verdicts],
         moves' \in [Filings -> SUBSET Verdicts],
         \A r \in Filings : moves[r] \subseteq moves'[r],
         \A r \in Filings : absence'[r] \in Verdicts => absence'[r] \in moves'[r]
  PROVE  AbsenceInv'
<1>1. \A h \in Agents : CallSound(actor'[h], moves')
  BY DEF AbsenceInv, AbsenceTypeOK, CallSound
<1>2. AbsenceTypeOK'
  BY <1>1 DEF AbsenceInv, AbsenceTypeOK, CallSound
<1> QED
  BY <1>1, <1>2 DEF AbsenceInv, AnswerIsBacked

\* The call goes on to its next statement, or is over.
LEMMA AbsenceGoes ==
  ASSUME AbsenceInv, NEW g \in Agents, UNCHANGED absence, linked' \subseteq Filings,
         NEW l \in {"idle", "start", "link", "ask", "find", "answer", "overwrite", "execute",
                    "move", "revert", "sync", "delete"},
         Goes(g, l) \/ (l = "idle" /\ Rests(g)),
         l # "idle" => ~At(g, "idle"),
         l \in {"find", "answer", "overwrite", "execute", "move", "revert", "sync"} => actor[g].verdict \in Verdicts,
         l = "sync" => actor[g].verdict \in moves'[actor[g].req],
         instance' \in [Filings -> {"none", "requested"} \cup Verdicts],
         approval' \in [Filings -> {"none", "pending", "expired"} \cup Verdicts],
         moves' \in [Filings -> SUBSET Verdicts],
         \A r \in Filings : moves[r] \subseteq moves'[r]
  PROVE  AbsenceInv'
<1>1. CallSound(actor[g], moves)
  BY DEF AbsenceInv
<1>2. \A r \in Filings : absence'[r] \in Verdicts => absence'[r] \in moves'[r]
  BY DEF AbsenceInv, AnswerIsBacked
<1>3. CASE Goes(g, l)
  <2> DEFINE a == [actor[g] EXCEPT !.at = l]
  <2>1. actor' = [actor EXCEPT ![g] = a]
    BY <1>3 DEF Goes
  <2>2. a.at = l /\ a.req = actor[g].req /\ a.verdict = actor[g].verdict /\ a.inbox = actor[g].inbox
    BY <1>1 DEF CallSound
  <2>3. CallSound(a, moves')
    BY <1>1, <2>2 DEF CallSound, At
  <2> QED
    BY <1>2, <2>1, <2>3, AbsenceMoves DEF AbsenceInv, AbsenceTypeOK
<1>4. CASE Rests(g)
  <2>1. CallSound(Resting, moves')
    BY DEF CallSound, Resting
  <2> QED
    BY <1>2, <1>4, <2>1, AbsenceMoves DEF Rests, AbsenceInv, AbsenceTypeOK
<1> QED
  BY <1>3, <1>4

\* Every step of a request keeps the invariant.
LEMMA AbsenceStepInv == AbsenceInv /\ [AbsenceStep]_absenceVars => AbsenceInv'
<1> SUFFICES ASSUME AbsenceInv, [AbsenceStep]_absenceVars PROVE AbsenceInv'
  OBVIOUS
<1>a. AbsenceTypeOK /\ AnswerIsBacked /\ \A g \in Agents : CallSound(actor[g], moves)
  BY DEF AbsenceInv
<1>1. ASSUME NEW g \in Agents, NEW r \in Filings, InsertAbsence(g, r)
      PROVE  AbsenceInv'
  <2>1. CallSound([at |-> "start", req |-> r, verdict |-> "none", inbox |-> FALSE], moves')
    BY DEF CallSound
  <2> QED
    BY <1>a, <1>1, <2>1, AbsenceMoves DEF InsertAbsence, StartsCall, AbsenceTypeOK, AnswerIsBacked, Verdicts
<1>2. ASSUME NEW g \in Agents, NEW r \in Filings, DeleteReads(g, r)
      PROVE  AbsenceInv'
  <2>1. CallSound([at |-> "delete", req |-> r, verdict |-> "none", inbox |-> FALSE], moves')
    BY DEF CallSound
  <2> QED
    BY <1>a, <1>2, <2>1, AbsenceMoves DEF DeleteReads, StartsCall, AbsenceTypeOK, AnswerIsBacked
<1>3. ASSUME NEW g \in Agents, NEW r \in Filings, NEW v \in Verdicts, ResolveAbsence(g, r, v)
      PROVE  AbsenceInv'
  <2>1. CallSound([at |-> "find", req |-> r, verdict |-> v, inbox |-> FALSE], moves')
    BY DEF CallSound
  <2> QED
    BY <1>a, <1>3, <2>1, AbsenceMoves DEF ResolveAbsence, StartsCall, AbsenceTypeOK, AnswerIsBacked
<1>4. ASSUME NEW g \in Agents, NEW r \in Filings, NEW v \in Verdicts, AnswerFromInbox(g, r, v)
      PROVE  AbsenceInv'
  <2>1. CallSound([at |-> "answer", req |-> r, verdict |-> v, inbox |-> TRUE], moves')
    BY DEF CallSound
  <2> QED
    BY <1>a, <1>4, <2>1, AbsenceMoves DEF AnswerFromInbox, StartsCall, AbsenceTypeOK, AnswerIsBacked
<1>5. ASSUME NEW g \in Agents,
             \/ StartInstance(g) \/ LinkInstance(g) \/ RequestApproval(g)
             \/ FindApproval(g) \/ ClaimApproval(g) \/ RejectReads(g) \/ RejectWrites(g)
             \/ ExecuteReads(g) \/ ExecuteWrites(g) \/ PutBack(g) \/ AgentFails(g)
      PROVE  AbsenceInv'
  <2>0. ~At(g, "idle")
    BY <1>5 DEF StartInstance, LinkInstance, RequestApproval, FindApproval, ClaimApproval, RejectReads,
                RejectWrites, ExecuteReads, ExecuteWrites, PutBack, AgentFails, At
  <2>1. CallSound(actor[g], moves) /\ actor[g].req \in Filings
    BY <1>a, <2>0 DEF CallSound, At
  <2> USE <1>a, <2>0, <2>1, AbsenceGoes DEF AbsenceTypeOK, At
  <2>2. CASE StartInstance(g)
    BY <2>2 DEF StartInstance
  <2>3. CASE LinkInstance(g)
    BY <2>3 DEF LinkInstance
  <2>4. CASE RequestApproval(g)
    BY <2>4 DEF RequestApproval
  <2>5. CASE FindApproval(g)
    BY <2>5 DEF FindApproval, CallSound
  <2>6. CASE ClaimApproval(g)
    BY <2>6 DEF ClaimApproval, Verdicts
  <2>7. CASE RejectReads(g)
    BY <2>7 DEF RejectReads, Verdicts
  <2>8. CASE RejectWrites(g)
    BY <2>8 DEF RejectWrites, CallSound, Verdicts
  <2>9. CASE ExecuteReads(g)
    BY <2>9 DEF ExecuteReads, CallSound
  <2>10. CASE ExecuteWrites(g)
    BY <2>10 DEF ExecuteWrites, CallSound
  <2>11. CASE PutBack(g)
    BY <2>11 DEF PutBack
  <2>12. CASE AgentFails(g)
    BY <2>12 DEF AgentFails, Verdicts
  <2> QED
    BY <1>5, <2>2, <2>3, <2>4, <2>5, <2>6, <2>7, <2>8, <2>9, <2>10, <2>11, <2>12
<1>6. ASSUME NEW g \in Agents, SyncAbsence(g)
      PROVE  AbsenceInv'
  <2>1. CallSound(actor[g], moves) /\ CallSound(Resting, moves')
    BY <1>a DEF CallSound, Resting
  <2> QED
    BY <1>a, <1>6, <2>1, AbsenceMoves DEF SyncAbsence, Rests, At, CallSound, AbsenceTypeOK, AnswerIsBacked
<1>7. ASSUME NEW g \in Agents, DeleteWrites(g)
      PROVE  AbsenceInv'
  <2>1. CallSound(Resting, moves')
    BY DEF CallSound, Resting
  <2> QED
    BY <1>a, <1>7, <2>1, AbsenceMoves DEF DeleteWrites, Rests, AbsenceTypeOK, AnswerIsBacked, Verdicts
<1>8. ASSUME NEW r \in Filings, ExpireApproval(r)
      PROVE  AbsenceInv'
  BY <1>a, <1>8 DEF ExpireApproval, AbsenceInv, AbsenceTypeOK, AnswerIsBacked
<1>9. CASE UNCHANGED absenceVars
  BY <1>a, <1>9 DEF absenceVars, AbsenceInv, AbsenceTypeOK, AnswerIsBacked
<1> QED
  BY <1>1, <1>2, <1>3, <1>4, <1>5, <1>6, <1>7, <1>8, <1>9 DEF AbsenceStep

\* No absence is filed at first.
LEMMA AbsencesStart == AbsenceInit => AbsenceInv
BY DEF AbsenceInit, AbsenceInv, AbsenceTypeOK, AnswerIsBacked, CallSound, Resting, Verdicts

\* An absence shows an answer only if its instance took that transition.
THEOREM AnswersAreBacked == AbsenceSpec => [](AbsenceTypeOK /\ AnswerIsBacked)
<1>1. AbsenceInit => AbsenceInv
  BY AbsencesStart
<1>2. AbsenceInv => AbsenceTypeOK /\ AnswerIsBacked
  BY DEF AbsenceInv
<1> QED
  BY <1>1, <1>2, AbsenceStepInv, PTL DEF AbsenceSpec

------------------------------------------------------------------------------------
\* A call has its five fields; what is posted for a period whose entries are as they are.
IsPayCall(k) == k = [at |-> k.at, period |-> k.period, person |-> k.person, total |-> k.total, entries |-> k.entries]
PeriodBooks(p) == IF HasEntries(p) THEN <<Total(p)>> ELSE <<>>

\* What a call holds and has read: a close keeps its period open, and what it has summed up is still so,
\* unless an entry call was under way as well.
PayCallOK(k) ==
    /\ IsPayCall(k) /\ k.at \in {"idle", "insert", "change", "sum", "post"}
    /\ k.at # "idle" => k.period \in Periods
    /\ k.at \in {"insert", "change"} => periodStatus[k.period] # "closed" \/ k.period \in crossed
    /\ k.at \in {"sum", "post"} => periodStatus[k.period] = "open"
    /\ k.at = "post" /\ k.period \notin crossed =>
          k.total = Total(k.period) /\ (k.entries <=> HasEntries(k.period))

\* One close of a period at a time; an entry call beside it is remembered.
PayCallsApart(k, j) ==
    k.at \in {"sum", "post"} /\ j.at # "idle" /\ k.period = j.period =>
        j.at \in {"insert", "change"} /\ k.period \in crossed

\* Payroll: what the calls rely on holds, and a closed period is posted as it was summed up.
PayrollInv ==
    /\ periodStatus \in [Periods -> {"none", "open", "closed"}]
    /\ crossed \subseteq Periods
    /\ gross = [p \in Periods |-> gross[p]] /\ journal = [p \in Periods |-> journal[p]]
    /\ clerk = [c \in Clerks |-> clerk[c]]
    /\ \A c \in Clerks : PayCallOK(clerk[c])
    /\ \A c, d \in Clerks : c # d => PayCallsApart(clerk[c], clerk[d])
    /\ \A p \in Periods : periodStatus[p] # "closed" => journal[p] = <<>>
    /\ \A p \in Periods : periodStatus[p] = "closed" /\ p \notin crossed => journal[p] = PeriodBooks(p)

\* A step of one call that leaves the rows as they are.
LEMMA ClerkMoves ==
  ASSUME PayrollInv, NEW c \in Clerks, NEW k, PayCallOK(k)', clerk' = [clerk EXCEPT ![c] = k],
         UNCHANGED <<periodStatus, gross, hasEntry, journal>>,
         crossed \subseteq crossed', crossed' \subseteq Periods,
         \A d \in Clerks \ {c} : PayCallsApart(k, clerk[d])' /\ PayCallsApart(clerk[d], k)'
  PROVE  PayrollInv'
<1>1. clerk'[c] = k /\ \A d \in Clerks \ {c} : clerk'[d] = clerk[d]
  BY DEF PayrollInv
<1>2. \A p : Total(p)' = Total(p) /\ HasEntries(p)' = HasEntries(p) /\ PeriodBooks(p)' = PeriodBooks(p)
  BY DEF Total, HasEntries, PeriodBooks
<1>3. \A d \in Clerks : PayCallOK(clerk[d])'
  BY <1>1, <1>2 DEF PayrollInv, PayCallOK
<1>4. \A d, e \in Clerks : d # e => PayCallsApart(clerk[d], clerk[e])'
  BY <1>1 DEF PayrollInv, PayCallsApart
<1>5. clerk' = [d \in Clerks |-> clerk'[d]]
  BY DEF PayrollInv
<1> QED
  BY <1>2, <1>3, <1>4, <1>5 DEF PayrollInv

\* An entry is written and its call ends; of the other periods nothing changes.
LEMMA EntryMoves ==
  ASSUME PayrollInv, NEW c \in Clerks, clerk[c].at \in {"insert", "change"}, NEW p, p = clerk[c].period,
         clerk' = [clerk EXCEPT ![c] = NoCall], UNCHANGED <<periodStatus, journal, crossed>>,
         gross' = [q \in Periods |-> gross'[q]], \A q \in Periods \ {p} : gross'[q] = gross[q],
         \A q, n : q # p => (<<q, n>> \in hasEntry' <=> <<q, n>> \in hasEntry)
  PROVE  PayrollInv'
<1>1. clerk'[c] = NoCall /\ \A d \in Clerks \ {c} : clerk'[d] = clerk[d]
  BY DEF PayrollInv
<1>2. ASSUME NEW q \in Periods \ {p}
      PROVE  Total(q)' = Total(q) /\ (HasEntries(q)' <=> HasEntries(q)) /\ PeriodBooks(q)' = PeriodBooks(q)
  <2>1. Total(q)' = Total(q)
    BY DEF Total
  <2>2. HasEntries(q)' <=> HasEntries(q)
    BY DEF HasEntries
  <2> QED
    BY <2>1, <2>2 DEF PeriodBooks
<1>3. p \in Periods /\ (periodStatus[p] = "closed" => p \in crossed)
      /\ \A d \in Clerks \ {c} : clerk[d].at \in {"sum", "post"} /\ clerk[d].period = p => p \in crossed
  BY DEF PayrollInv, PayCallOK, PayCallsApart
<1>4. PayCallOK(NoCall)' /\ NoCall.at = "idle"
  BY DEF PayCallOK, NoCall, IsPayCall
<1>5. ASSUME NEW d \in Clerks \ {c}
      PROVE  PayCallOK(clerk[d])'
  <2>1. PayCallOK(clerk[d])
    BY DEF PayrollInv
  <2>2. CASE clerk[d].period = p
    BY <1>1, <1>3, <2>1, <2>2 DEF PayCallOK
  <2>3. CASE clerk[d].period # p
    BY <1>1, <1>2, <2>1, <2>3 DEF PayCallOK
  <2> QED
    BY <2>2, <2>3
<1>6. \A d, e \in Clerks : d # e => PayCallsApart(clerk[d], clerk[e])'
  BY <1>1, <1>4 DEF PayrollInv, PayCallsApart
<1>7. \A d \in Clerks : PayCallOK(clerk[d])'
  BY <1>1, <1>4, <1>5
<1>8. \A q \in Periods : periodStatus'[q] = "closed" /\ q \notin crossed' => journal'[q] = PeriodBooks(q)'
  BY <1>2, <1>3 DEF PayrollInv
<1>9. clerk' = [d \in Clerks |-> clerk'[d]]
  BY DEF PayrollInv
<1> QED
  BY <1>6, <1>7, <1>8, <1>9 DEF PayrollInv

\* The close commits: the books of the period are as they were summed up.
LEMMA PeriodCloseKeepsInv ==
  ASSUME PayrollInv, NEW c \in Clerks, CloseCommits(c)
  PROVE  PayrollInv'
<1>1. PICK k : k = clerk[c]
  OBVIOUS
<1>2. PICK p : p = k.period
  OBVIOUS
<1>3. /\ k.at = "post"
      /\ journal' = IF k.entries THEN [journal EXCEPT ![p] = Append(@, k.total)] ELSE journal
      /\ periodStatus' = [periodStatus EXCEPT ![p] = "closed"]
      /\ clerk' = [clerk EXCEPT ![c] = NoCall] /\ UNCHANGED <<gross, hasEntry, crossed>>
  BY <1>1, <1>2 DEF CloseCommits, Leaves
<1>4. PayCallOK(k) /\ p \in Periods /\ periodStatus[p] = "open"
  BY <1>1, <1>2, <1>3 DEF PayrollInv, PayCallOK
<1>5. /\ clerk'[c] = NoCall /\ \A d \in Clerks \ {c} : clerk'[d] = clerk[d]
      /\ periodStatus'[p] = "closed" /\ \A q \in Periods \ {p} : periodStatus'[q] = periodStatus[q]
  BY <1>3, <1>4 DEF PayrollInv
<1>6. \A q : Total(q)' = Total(q) /\ (HasEntries(q)' <=> HasEntries(q)) /\ PeriodBooks(q)' = PeriodBooks(q)
  BY <1>3 DEF Total, HasEntries, PeriodBooks
<1>7. PayCallOK(NoCall)' /\ NoCall.at = "idle"
  BY DEF PayCallOK, NoCall, IsPayCall
<1>8. ASSUME NEW d \in Clerks \ {c}
      PROVE  PayCallOK(clerk[d])'
  <2>1. PayCallOK(clerk[d]) /\ PayCallsApart(k, clerk[d])
    BY <1>1 DEF PayrollInv
  <2>2. CASE clerk[d].at # "idle" /\ clerk[d].period = p
    <3>1. clerk[d].at \in {"insert", "change"} /\ p \in crossed
      BY <1>2, <1>3, <2>1, <2>2 DEF PayCallsApart
    <3> QED
      BY <1>3, <1>5, <2>1, <2>2, <3>1 DEF PayCallOK
  <2>3. CASE ~(clerk[d].at # "idle" /\ clerk[d].period = p)
    BY <1>3, <1>5, <1>6, <2>1, <2>3 DEF PayCallOK
  <2> QED
    BY <2>2, <2>3
<1>9. \A d \in Clerks : PayCallOK(clerk[d])'
  BY <1>5, <1>7, <1>8
<1>10. \A d, e \in Clerks : d # e => PayCallsApart(clerk[d], clerk[e])'
  BY <1>3, <1>5, <1>7 DEF PayrollInv, PayCallsApart
<1>11. /\ journal' = [q \in Periods |-> journal'[q]]
       /\ \A q \in Periods \ {p} : journal'[q] = journal[q]
       /\ journal'[p] = IF k.entries THEN Append(journal[p], k.total) ELSE journal[p]
  BY <1>3, <1>4 DEF PayrollInv
<1>12. journal[p] = <<>> /\ Append(<<>>, k.total) = <<k.total>>
  BY <1>4 DEF PayrollInv
<1>13. p \notin crossed => journal'[p] = PeriodBooks(p)'
  BY <1>2, <1>3, <1>4, <1>6, <1>11, <1>12 DEF PayCallOK, PeriodBooks
<1>14. clerk' = [d \in Clerks |-> clerk'[d]] /\ periodStatus' \in [Periods -> {"none", "open", "closed"}]
  BY <1>3 DEF PayrollInv
<1> QED
  BY <1>3, <1>5, <1>6, <1>9, <1>10, <1>11, <1>13, <1>14 DEF PayrollInv

\* Every step keeps the invariant.
LEMMA PayrollStepInv == PayrollInv /\ [PayrollStep]_payrollVars => PayrollInv'
<1> SUFFICES ASSUME PayrollInv, [PayrollStep]_payrollVars PROVE PayrollInv'
  OBVIOUS
<1>a. \A c \in Clerks : PayCallOK(clerk[c])
  BY DEF PayrollInv
<1>1. ASSUME NEW c \in Clerks, NEW p \in Periods, NEW n, NEW at \in {"insert", "change"},
             clerk[c].at = "idle", periodStatus[p] = "open", Enters(c, at, p, n),
             crossed' = IF Held(p) THEN crossed \cup {p} ELSE crossed,
             UNCHANGED <<periodStatus, gross, hasEntry, journal>>
      PROVE  PayrollInv'
  <2>1. PICK k : k = [NoCall EXCEPT !.at = at, !.period = p, !.person = n]
    OBVIOUS
  <2>e. k.at = at /\ k.period = p /\ IsPayCall(k)
    BY <2>1 DEF NoCall, IsPayCall
  <2>2. clerk' = [clerk EXCEPT ![c] = k] /\ crossed \subseteq crossed' /\ crossed' \subseteq Periods
    BY <1>1, <2>1, <2>e DEF Enters, PayrollInv
  <2>3. k.at = at /\ k.period = p /\ PayCallOK(k)'
    BY <1>1, <2>e DEF PayCallOK
  <2>4. \A d \in Clerks \ {c} : clerk'[d] = clerk[d]
    BY <2>2 DEF PayrollInv
  <2>5. \A d \in Clerks \ {c} : PayCallsApart(k, clerk[d])' /\ PayCallsApart(clerk[d], k)'
    BY <1>1, <2>3, <2>4 DEF PayCallsApart, Held, In
  <2> QED
    BY <1>1, <2>2, <2>3, <2>5, ClerkMoves
<1>2. ASSUME NEW c \in Clerks, NEW p \in Periods, CloseLocks(c, p)
      PROVE  PayrollInv'
  <2>1. PICK k : k = [NoCall EXCEPT !.at = "sum", !.period = p, !.person = NoPerson]
    OBVIOUS
  <2>e. k.at = "sum" /\ k.period = p /\ IsPayCall(k)
    BY <2>1 DEF NoCall, IsPayCall
  <2>2. /\ clerk' = [clerk EXCEPT ![c] = k] /\ crossed \subseteq crossed' /\ crossed' \subseteq Periods
        /\ periodStatus[p] = "open" /\ UNCHANGED <<periodStatus, gross, hasEntry, journal>>
    BY <1>2, <2>1, <2>e DEF CloseLocks, Enters, PayrollInv
  <2>3. PayCallOK(k)'
    BY <2>2, <2>e DEF PayCallOK
  <2>4. \A d \in Clerks \ {c} : clerk'[d] = clerk[d] /\ clerk[d].at \in {"idle", "insert", "change", "sum", "post"}
    BY <1>a, <2>2 DEF PayrollInv, PayCallOK
  <2>5. \A d \in Clerks \ {c} : PayCallsApart(k, clerk[d])' /\ PayCallsApart(clerk[d], k)'
    BY <1>2, <2>e, <2>4 DEF CloseLocks, PayCallsApart, Held, In
  <2> QED
    BY <2>2, <2>3, <2>5, ClerkMoves
<1>3. ASSUME NEW c \in Clerks, CloseSums(c)
      PROVE  PayrollInv'
  <2>1. PICK p : p = clerk[c].period
    OBVIOUS
  <2>2. PICK k : k = [clerk[c] EXCEPT !.at = "post", !.total = Total(p), !.entries = HasEntries(p)]
    OBVIOUS
  <2>3. /\ clerk' = [clerk EXCEPT ![c] = k] /\ UNCHANGED <<periodStatus, gross, hasEntry, journal, crossed>>
        /\ clerk[c].at = "sum" /\ PayCallOK(clerk[c]) /\ crossed \subseteq Periods
    BY <1>3, <1>a, <2>1, <2>2 DEF CloseSums, PayrollInv
  <2>4. k.at = "post" /\ k.period = p /\ k.total = Total(p) /\ (k.entries <=> HasEntries(p)) /\ IsPayCall(k)
    BY <2>1, <2>2, <2>3 DEF PayCallOK, IsPayCall
  <2>5. Total(p)' = Total(p) /\ (HasEntries(p)' <=> HasEntries(p))
    BY <2>3 DEF Total, HasEntries
  <2>6. PayCallOK(k)'
    BY <2>1, <2>3, <2>4, <2>5 DEF PayCallOK
  <2>7. \A d \in Clerks \ {c} : clerk'[d] = clerk[d] /\ PayCallsApart(clerk[c], clerk[d]) /\ PayCallsApart(clerk[d], clerk[c])
    BY <2>3 DEF PayrollInv
  <2>8. \A d \in Clerks \ {c} : PayCallsApart(k, clerk[d])' /\ PayCallsApart(clerk[d], k)'
    BY <2>1, <2>3, <2>4, <2>7 DEF PayCallsApart
  <2> QED
    BY <2>3, <2>6, <2>8, ClerkMoves
<1>4. ASSUME NEW c \in Clerks, PayrollFails(c)
      PROVE  PayrollInv'
  <2>1. PayCallOK(NoCall)' /\ \A k : PayCallsApart(NoCall, k)' /\ PayCallsApart(k, NoCall)'
    BY DEF PayCallOK, NoCall, IsPayCall, PayCallsApart
  <2> QED
    BY <1>4, <2>1, ClerkMoves DEF PayrollFails, Leaves, PayrollInv
<1>5. ASSUME NEW c \in Clerks, NEW a \in Amounts, CreateInserts(c, a) \/ UpdateWrites(c, a)
      PROVE  PayrollInv'
  <2>1. PICK p : p = clerk[c].period
    OBVIOUS
  <2>2. /\ clerk[c].at \in {"insert", "change"} /\ clerk' = [clerk EXCEPT ![c] = NoCall]
        /\ UNCHANGED <<periodStatus, journal, crossed>>
        /\ gross' = gross \/ gross' = [gross EXCEPT ![p][clerk[c].person] = a]
        /\ hasEntry' \in {hasEntry, hasEntry \cup {<<p, clerk[c].person>>}}
    BY <1>5, <2>1 DEF CreateInserts, UpdateWrites, Leaves
  <2>3. gross' = [q \in Periods |-> gross'[q]] /\ \A q \in Periods \ {p} : gross'[q] = gross[q]
    BY <2>2 DEF PayrollInv
  <2>4. \A q, n : q # p => (<<q, n>> \in hasEntry' <=> <<q, n>> \in hasEntry)
    BY <2>2
  <2> QED
    BY <2>1, <2>2, <2>3, <2>4, EntryMoves
<1>6. ASSUME NEW p \in Periods, CreatePeriod(p)
      PROVE  PayrollInv'
  <2>1. /\ periodStatus[p] = "none" /\ periodStatus'[p] = "open"
        /\ \A q \in Periods \ {p} : periodStatus'[q] = periodStatus[q]
        /\ periodStatus' \in [Periods -> {"none", "open", "closed"}]
        /\ UNCHANGED <<gross, hasEntry, journal, clerk, crossed>>
    BY <1>6 DEF CreatePeriod, PayrollInv
  <2>2. \A q : Total(q)' = Total(q) /\ (HasEntries(q)' <=> HasEntries(q)) /\ PeriodBooks(q)' = PeriodBooks(q)
    BY <2>1 DEF Total, HasEntries, PeriodBooks
  <2>3. \A c \in Clerks : PayCallOK(clerk[c])'
    BY <1>a, <2>1, <2>2 DEF PayCallOK
  <2> QED
    BY <2>1, <2>2, <2>3 DEF PayrollInv, PayCallsApart
<1>7. CASE UNCHANGED payrollVars
  <2>1. \A q : Total(q)' = Total(q) /\ (HasEntries(q)' <=> HasEntries(q)) /\ PeriodBooks(q)' = PeriodBooks(q)
    BY <1>7 DEF Total, HasEntries, PeriodBooks, payrollVars
  <2> QED
    BY <1>7, <2>1 DEF PayrollInv, PayCallOK, PayCallsApart, payrollVars
<1> QED
  BY <1>1, <1>2, <1>3, <1>4, <1>5, <1>6, <1>7, PeriodCloseKeepsInv DEF PayrollStep, CreateReads, UpdateReads

\* The types, which depend on the calls' own: an entry call is about a person.
PayCallTyped(k) ==
    /\ k \in [at : {"idle", "insert", "change", "sum", "post"}, period : Periods \cup {NoPeriod},
              person : Persons \cup {NoPerson}, total : Nat, entries : BOOLEAN]
    /\ k.at # "idle" => k.period \in Periods
    /\ k.at \in {"insert", "change"} => k.person \in Persons

PayrollTyped == PayrollTypeOK /\ \A c \in Clerks : PayCallTyped(clerk[c])

\* A step of one call, by the types.
LEMMA ClerkTyped ==
  ASSUME PayrollTyped, NEW c \in Clerks, NEW k, PayCallTyped(k), clerk' = [clerk EXCEPT ![c] = k]
  PROVE  /\ \A d \in Clerks : PayCallTyped(clerk'[d])
         /\ clerk' \in [Clerks -> [at : {"idle", "insert", "change", "sum", "post"}, period : Periods \cup {NoPeriod},
                                    person : Persons \cup {NoPerson}, total : Nat, entries : BOOLEAN]]
BY DEF PayrollTyped, PayrollTypeOK, PayCallTyped

\* Every step keeps the types.
LEMMA PayrollStepTyped == PayrollTyped /\ [PayrollStep]_payrollVars => PayrollTyped'
<1> SUFFICES ASSUME PayrollTyped, [PayrollStep]_payrollVars PROVE PayrollTyped'
  OBVIOUS
<1>n. PayCallTyped(NoCall)
  BY DEF PayCallTyped, NoCall
<1>1. ASSUME NEW c \in Clerks, NEW p \in Periods, NEW n \in Persons, CreateReads(c, p, n) \/ UpdateReads(c, p, n) 
      PROVE  PayrollTyped'
  <2>1. PICK at \in {"insert", "change"} : Enters(c, at, p, n)
    BY <1>1 DEF CreateReads, UpdateReads
  <2>2. PayCallTyped([NoCall EXCEPT !.at = at, !.period = p, !.person = n])
    BY DEF PayCallTyped, NoCall
  <2> QED
    BY <1>1, <2>1, <2>2, ClerkTyped DEF CreateReads, UpdateReads, Enters, PayrollTyped, PayrollTypeOK
<1>2. ASSUME NEW c \in Clerks, NEW p \in Periods, CloseLocks(c, p)
      PROVE  PayrollTyped'
  <2>1. PayCallTyped([NoCall EXCEPT !.at = "sum", !.period = p, !.person = NoPerson])
    BY DEF PayCallTyped, NoCall
  <2> QED
    BY <1>2, <2>1, ClerkTyped DEF CloseLocks, Enters, PayrollTyped, PayrollTypeOK
<1>3. ASSUME NEW c \in Clerks, CloseSums(c)
      PROVE  PayrollTyped'
  <2>1. PICK p \in Periods : p = clerk[c].period
    BY <1>3 DEF CloseSums, PayrollTyped, PayCallTyped
  <2>2. PICK g \in [Persons -> Amounts \cup {0}] : g = gross[p]
    BY DEF PayrollTyped, PayrollTypeOK
  <2>3. \A n \in Persons : g[n] \in Nat
    <3>1. \A x \in Amounts \cup {0} : x \in Nat
      BY AmountsAssumption DEF AmountsAssumption
    <3> QED
      BY <2>2, <3>1
  <2>4. Total(p) \in Nat
    BY <2>2, <2>3, SumType, PersonsAssumption DEF Total
  <2>5. PICK k : k = [clerk[c] EXCEPT !.at = "post", !.total = Total(p), !.entries = HasEntries(p)]
    OBVIOUS
  <2>6. HasEntries(p) \in BOOLEAN
    BY DEF HasEntries
  <2>7. PayCallTyped(k)
    BY <1>3, <2>1, <2>4, <2>5, <2>6 DEF PayCallTyped, PayrollTyped, CloseSums
  <2>8. clerk' = [clerk EXCEPT ![c] = k]
    BY <1>3, <2>1, <2>5 DEF CloseSums
  <2> QED
    BY <1>3, <2>7, <2>8, ClerkTyped DEF CloseSums, PayrollTyped, PayrollTypeOK
<1>4. ASSUME NEW c \in Clerks, PayrollFails(c)
      PROVE  PayrollTyped'
  BY <1>4, <1>n, ClerkTyped DEF PayrollFails, Leaves, PayrollTyped, PayrollTypeOK
<1>5. ASSUME NEW c \in Clerks, NEW a \in Amounts, CreateInserts(c, a) \/ UpdateWrites(c, a)
      PROVE  PayrollTyped'
  <2>1. clerk' = [clerk EXCEPT ![c] = NoCall] /\ clerk[c].period \in Periods /\ clerk[c].person \in Persons
    BY <1>5 DEF CreateInserts, UpdateWrites, Leaves, PayrollTyped, PayCallTyped
  <2>2. gross' \in [Periods -> [Persons -> Amounts \cup {0}]]
    <3>1. PICK p \in Periods, n \in Persons : p = clerk[c].period /\ n = clerk[c].person
      BY <2>1
    <3>2. gross' = gross \/ gross' = [gross EXCEPT ![p] = [gross[p] EXCEPT ![n] = a]]
      BY <1>5, <3>1 DEF CreateInserts, UpdateWrites
    <3>3. gross \in [Periods -> [Persons -> Amounts \cup {0}]]
      BY DEF PayrollTyped, PayrollTypeOK
    <3>4. [gross[p] EXCEPT ![n] = a] \in [Persons -> Amounts \cup {0}]
      BY <3>1, <3>3
    <3> QED
      BY <3>1, <3>2, <3>3, <3>4
  <2>3. hasEntry' \subseteq Periods \X Persons
    BY <1>5, <2>1 DEF CreateInserts, UpdateWrites, PayrollTyped, PayrollTypeOK
  <2> QED
    BY <1>5, <1>n, <2>1, <2>2, <2>3, ClerkTyped DEF CreateInserts, UpdateWrites, PayrollTyped, PayrollTypeOK
<1>6. ASSUME NEW c \in Clerks, CloseCommits(c)
      PROVE  PayrollTyped'
  <2>1. clerk' = [clerk EXCEPT ![c] = NoCall] /\ clerk[c].period \in Periods /\ clerk[c].total \in Nat
    BY <1>6 DEF CloseCommits, Leaves, PayrollTyped, PayCallTyped
  <2>2. journal' \in [Periods -> Seq(Nat)]
    BY <1>6, <2>1 DEF CloseCommits, PayrollTyped, PayrollTypeOK
  <2>3. periodStatus' \in [Periods -> {"none", "open", "closed"}]
    BY <1>6, <2>1 DEF CloseCommits, PayrollTyped, PayrollTypeOK
  <2> QED
    BY <1>6, <1>n, <2>1, <2>2, <2>3, ClerkTyped DEF CloseCommits, PayrollTyped, PayrollTypeOK
<1>7. ASSUME NEW p \in Periods, CreatePeriod(p)
      PROVE  PayrollTyped'
  BY <1>7 DEF CreatePeriod, PayrollTyped, PayrollTypeOK
<1>8. CASE UNCHANGED payrollVars
  BY <1>8 DEF payrollVars, PayrollTyped, PayrollTypeOK
<1> QED
  BY <1>1, <1>2, <1>3, <1>4, <1>5, <1>6, <1>7, <1>8 DEF PayrollStep

\* No period is there at first.
LEMMA PayrollStarts == PayrollInit => PayrollInv /\ PayrollTyped
<1>1. IsPayCall(NoCall) /\ NoCall.at = "idle"
  BY DEF IsPayCall, NoCall
<1>2. PayrollInit => PayrollInv
  BY <1>1 DEF PayrollInit, PayrollInv, PayCallOK, PayCallsApart
<1>3. PayCallTyped(NoCall)
  BY DEF PayCallTyped, NoCall
<1>4. PayrollInit => PayrollTyped
  BY <1>3 DEF PayrollInit, PayrollTyped, PayrollTypeOK, PayCallTyped
<1> QED
  BY <1>2, <1>4

\* A closed period has posted the sum of its entries, once, unless an entry call was under way
\* when it was closed: ClosePeriod sums them up with the period locked, but CreateEntry and
\* UpdateEntry do not lock it (entries.go:118-142), so periods they crossed are excepted.
THEOREM BooksMatch == PayrollSpec => [](PayrollTypeOK /\ ClosedBooksMatch)
<1>1. PayrollInit => PayrollInv /\ PayrollTyped
  BY PayrollStarts
<1>2. PayrollInv /\ PayrollTyped => PayrollTypeOK /\ ClosedBooksMatch
  BY DEF PayrollInv, ClosedBooksMatch, PeriodBooks, PayrollTyped
<1> QED
  BY <1>1, <1>2, PayrollStepInv, PayrollStepTyped, PTL DEF PayrollSpec

------------------------------------------------------------------------------------
\* What the invariant says of a transaction.
ChangeOK(k) ==
    /\ k \in [at : {"idle", "others", "visiting", "done"}, row : Versions \cup {NoVersion},
              wrote : [Versions -> States \cup {"none"}], visit : SUBSET Versions]
    /\ k.at = "idle" => \A v \in Versions : k.wrote[v] = "none"
    /\ k.at # "idle" => k.row \in Versions
    /\ k.at \in {"others", "visiting"} => k.wrote[k.row] = "active"
    /\ k.visit \subseteq RivalsOf(k.row)
    /\ \A v \in Versions : k.wrote[v] # "none" =>
            v = k.row \/ (v \in RivalsOf(k.row) /\ k.wrote[k.row] = "active")

\* Versions: what a transaction turns off besides its own row are rivals that give way to it.
ActiveInv == ActiveTypeOK /\ \A e \in Editors : ChangeOK(change[e])

\* A transaction that goes on, or begins, or ends.
LEMMA ChangeMoves ==
  ASSUME ActiveInv, NEW e \in Editors, NEW k, ChangeOK(k), change' = [change EXCEPT ![e] = k],
         version' \in [Versions -> States \cup {"none", "deleted"}], told' \subseteq Versions
  PROVE  ActiveInv'
<1>1. ActiveTypeOK'
  BY DEF ActiveInv, ActiveTypeOK, ChangeOK
<1>2. \A f \in Editors : ChangeOK(change'[f])
  BY DEF ActiveInv, ActiveTypeOK
<1> QED
  BY <1>1, <1>2 DEF ActiveInv, ChangeOK, RivalsOf

\* Every step of a transaction keeps the invariant.
LEMMA ActiveStepInv == ActiveInv /\ [ActiveStep]_activeVars => ActiveInv'
<1> SUFFICES ASSUME ActiveInv, [ActiveStep]_activeVars PROVE ActiveInv'
  OBVIOUS
<1>a. ActiveTypeOK
  BY DEF ActiveInv
<1>b. ASSUME NEW e \in Editors
      PROVE  /\ change[e].row \in Versions \cup {NoVersion} /\ change[e].visit \in SUBSET Versions
             /\ change[e].wrote \in [Versions -> States \cup {"none"}]
             /\ change[e].at \in {"idle", "others", "visiting", "done"}
  BY <1>a DEF ActiveTypeOK
<1>1. ASSUME NEW e \in Editors, NEW v \in Versions, NEW s \in States, Create(e, v, s) \/ Update(e, v, s)
      PROVE  ActiveInv'
  <2> DEFINE w == [change[e].wrote EXCEPT ![v] = s]
             k == [at |-> IF s = "active" THEN "others" ELSE "done", row |-> v, wrote |-> w, visit |-> {}]
  <2>1. UNCHANGED <<version, told>> /\ change' = [change EXCEPT ![e] = k]
    BY <1>1 DEF Create, Update, Writes
  <2>2. \A u \in Versions : change[e].wrote[u] = "none"
    BY <1>1 DEF ActiveInv, ChangeOK, Create, Update
  <2>3. w \in [Versions -> States \cup {"none"}] /\ w[v] = s /\ \A u \in Versions \ {v} : w[u] = "none"
    BY <1>b, <2>2
  <2> HIDE DEF w
  <2>4. ChangeOK(k)
    BY <2>3 DEF ChangeOK
  <2> QED
    BY <1>a, <2>1, <2>4, ChangeMoves DEF ActiveTypeOK
<1>2. ASSUME NEW e \in Editors, OthersFound(e)
      PROVE  ActiveInv'
  <2> DEFINE s == {w \in RivalsOf(change[e].row) : version[w] = "active"}
             k == [change[e] EXCEPT !.at = "visiting", !.visit = s]
  <2>1. UNCHANGED <<version, told>> /\ change' = [change EXCEPT ![e] = k] /\ change[e].at = "others"
    BY <1>2 DEF OthersFound
  <2>2. s \in SUBSET Versions /\ s \subseteq RivalsOf(change[e].row)
    BY DEF RivalsOf
  <2> HIDE DEF s
  <2>3. ChangeOK(change[e])
    BY DEF ActiveInv
  <2>4. ChangeOK(k)
    BY <2>1, <2>2, <2>3 DEF ChangeOK
  <2> QED
    BY <1>a, <2>1, <2>4, ChangeMoves DEF ActiveTypeOK
<1>3. ASSUME NEW e \in Editors, NEW v \in Versions, TurnOff(e, v)
      PROVE  ActiveInv'
  <2> DEFINE w == [change[e].wrote EXCEPT ![v] = IF version[v] = "active" THEN "idle" ELSE @]
             k == [change[e] EXCEPT !.visit = @ \ {v}, !.wrote = w]
  <2>1. /\ UNCHANGED <<version, told>> /\ change' = [change EXCEPT ![e] = k]
        /\ change[e].at = "visiting" /\ v \in change[e].visit
    BY <1>3 DEF TurnOff
  <2>2. w \in [Versions -> States \cup {"none"}] /\ \A u \in Versions \ {v} : w[u] = change[e].wrote[u]
    BY <1>b DEF States
  <2> HIDE DEF w
  <2>3. ChangeOK(change[e]) /\ v \in RivalsOf(change[e].row)
    BY <2>1 DEF ActiveInv, ChangeOK
  <2>4. v # change[e].row
    BY <2>3, RivalsAssumption DEF RivalsOf
  <2>5. ChangeOK(k)
    BY <2>1, <2>2, <2>3, <2>4 DEF ChangeOK
  <2> QED
    BY <1>a, <2>1, <2>5, ChangeMoves DEF ActiveTypeOK
<1>4. ASSUME NEW e \in Editors, AllVisited(e)
      PROVE  ActiveInv'
  <2> DEFINE k == [change[e] EXCEPT !.at = "done"]
  <2>1. UNCHANGED <<version, told>> /\ change' = [change EXCEPT ![e] = k] /\ change[e].at = "visiting"
    BY <1>4 DEF AllVisited
  <2>2. ChangeOK(change[e])
    BY DEF ActiveInv
  <2>3. ChangeOK(k)
    BY <2>1, <2>2 DEF ChangeOK
  <2> QED
    BY <1>a, <2>1, <2>3, ChangeMoves DEF ActiveTypeOK
<1>5. ChangeOK(NewVersion)
  <2>1. [v \in Versions |-> "none"] \in [Versions -> States \cup {"none"}]
    OBVIOUS
  <2> QED
    BY <2>1 DEF ChangeOK, NewVersion
<1>6. ASSUME NEW e \in Editors, Commit(e)
      PROVE  ActiveInv'
  <2>1. version' \in [Versions -> States \cup {"none", "deleted"}]
    BY <1>6, <1>a, <1>b DEF Commit, ActiveTypeOK
  <2>2. change[e].row \in Versions
    BY <1>6 DEF Commit, ActiveInv, ChangeOK
  <2>3. told' \subseteq Versions
    BY <1>6, <1>a, <2>2 DEF Commit, ActiveTypeOK
  <2> QED
    BY <1>5, <1>6, <2>1, <2>3, ChangeMoves DEF Commit
<1>7. ASSUME NEW e \in Editors, Rollback(e)
      PROVE  ActiveInv'
  BY <1>5, <1>7, <1>a, ChangeMoves DEF Rollback, ActiveTypeOK
<1>8. ASSUME NEW e \in Editors, NEW v \in Versions, ApproveBudget(e, v) \/ Delete(e, v)
      PROVE  ActiveInv'
  BY <1>8, <1>a DEF ApproveBudget, Delete, ActiveInv, ActiveTypeOK, States, ChangeOK, RivalsOf
<1>9. CASE UNCHANGED activeVars
  BY <1>9, <1>a DEF activeVars, ActiveInv, ActiveTypeOK, ChangeOK, RivalsOf
<1> QED
  BY <1>1, <1>2, <1>3, <1>4, <1>6, <1>7, <1>8, <1>9 DEF ActiveStep

\* No transaction is under way at the beginning.
LEMMA ActiveInitInv == ActiveInit => ActiveInv
  BY DEF ActiveInit, ActiveInv, ActiveTypeOK, NewVersion, ChangeOK

\* A row is turned off for a rival that is turned on, or whoever did it was told so.
LEMMA GapIsTold ==
  ActiveInv /\ [ActiveStep]_activeVars =>
      [\A v \in Versions : version[v] = "active" /\ version'[v] # "active" =>
          v \in told' \/ \E w \in RivalsOf(v) : version'[w] = "active"]_activeVars
<1> SUFFICES ASSUME ActiveInv, ActiveStep,
                    NEW v \in Versions, version[v] = "active", version'[v] # "active"
             PROVE  v \in told' \/ \E w \in RivalsOf(v) : version'[w] = "active"
  BY DEF activeVars
<1>1. CASE \E e \in Editors : Commit(e)
  <2>1. PICK e \in Editors : Commit(e)
    BY <1>1
  <2> DEFINE r == change[e].row
  <2>2. r \in Versions /\ ChangeOK(change[e])
    BY <2>1 DEF Commit, ActiveInv, ChangeOK
  <2>3. change[e].wrote[v] # "none" /\ change[e].wrote[v] # "active"
    BY <2>1 DEF Commit
  <2>4. CASE v = r
    BY <2>1, <2>3, <2>4 DEF Commit
  <2>5. CASE v \in RivalsOf(r) /\ change[e].wrote[r] = "active"
    <3>1. version'[r] = "active"
      BY <2>1, <2>2, <2>5 DEF Commit
    <3>2. r \in RivalsOf(v)
      BY <2>2, <2>5, RivalsAssumption DEF RivalsOf
    <3> QED
      BY <3>1, <3>2
  <2> QED
    BY <2>2, <2>3, <2>4, <2>5 DEF ChangeOK
<1>2. CASE \E e \in Editors, w \in Versions : ApproveBudget(e, w) \/ Delete(e, w)
  BY <1>2 DEF ApproveBudget, Delete, ActiveInv, ActiveTypeOK
<1> QED
  BY <1>1, <1>2 DEF ActiveStep, Create, Update, OthersFound, TurnOff, AllVisited, Rollback

\* The change-over leaves no gap: a version stops being active because its owner said so or
\* because a rival is active from that step on.
THEOREM NoGapHolds == ActiveSpec => NoGap
<1>1. ActiveInv /\ [ActiveStep]_activeVars =>
        [\A v \in Versions : version[v] = "active" /\ version'[v] # "active" =>
            v \in told' \/ \E w \in RivalsOf(v) : version'[w] = "active"]_activeVars
  BY GapIsTold
<1> QED
  BY <1>1, ActiveInitInv, ActiveStepInv, PTL DEF ActiveSpec, NoGap

------------------------------------------------------------------------------------
\* The ledger: every entry committed is in balance as it is stored, and the totals read since the
\* last commit are those of the ledger as it is.
LedgerInv ==
    /\ LedgerTypeOK
    /\ posting # NoPosting => posting.draft \in Drafts /\ Len(ledger) < Entries
    /\ \A e \in DOMAIN ledger : Sum(ledger[e]) = 0
    /\ Len(sheet.totals) <= Len(Types)
    /\ sheet.alone => \A n \in DOMAIN sheet.totals : sheet.totals[n] = TypeTotal(Types[n])

\* Sums of lines are integers.
LEMMA LineSums ==
  ASSUME NEW lines \in Seq(Line)
  PROVE  Sum(lines) \in Int /\ \A t : OfType(t, lines) \in Int
<1>1. IsFiniteSet(DOMAIN lines) /\ \A k \in DOMAIN lines : Signed(lines[k]) \in Int
  <2>1. DOMAIN lines = 1 .. Len(lines) /\ Len(lines) \in Nat
    OBVIOUS
  <2>2. \A k \in DOMAIN lines : lines[k] \in Line
    OBVIOUS
  <2>3. \A k \in DOMAIN lines : lines[k].amount \in Nat
    BY <2>2 DEF Line
  <2>4. \A k \in DOMAIN lines : Signed(lines[k]) \in Int
    BY <2>3 DEF Signed
  <2>5. IsFiniteSet(1 .. Len(lines))
    BY <2>1, FS_Interval
  <2> QED
    BY <2>1, <2>4, <2>5
<1>2. Sum(lines) \in Int
  <2> DEFINE f == [k \in DOMAIN lines |-> Signed(lines[k])]
  <2>1. \A k \in DOMAIN lines : f[k] \in Int
    BY <1>1
  <2>2. Sum(lines) = SumFunctionOnSet(f, DOMAIN lines)
    BY DEF Sum, SumFunction
  <2> HIDE DEF f
  <2> QED
    BY <1>1, <2>1, <2>2, SumType
<1>3. ASSUME NEW t
      PROVE  OfType(t, lines) \in Int
  <2> DEFINE f == [k \in DOMAIN lines |-> IF Type[lines[k].account] = t THEN Signed(lines[k]) ELSE 0]
  <2>1. \A k \in DOMAIN lines : f[k] \in Int
    BY <1>1
  <2>2. OfType(t, lines) = SumFunctionOnSet(f, DOMAIN lines)
    BY DEF OfType, SumFunction
  <2> HIDE DEF f
  <2> QED
    BY <1>1, <2>1, <2>2, SumType
<1> QED
  BY <1>2, <1>3

\* A sum over five addends, taken place by place.
LEMMA SumFive ==
  ASSUME NEW S, IsFiniteSet(S), NEW f, NEW a, NEW b, NEW c, NEW d, NEW g,
         \A x \in S : a[x] \in Int /\ b[x] \in Int /\ c[x] \in Int /\ d[x] \in Int /\ g[x] \in Int,
         \A x \in S : f[x] = a[x] + b[x] + c[x] + d[x] + g[x]
  PROVE  SumFunctionOnSet(f, S) = SumFunctionOnSet(a, S) + SumFunctionOnSet(b, S) + SumFunctionOnSet(c, S)
                                  + SumFunctionOnSet(d, S) + SumFunctionOnSet(g, S)
<1>1. PICK ab : ab = [x \in S |-> a[x] + b[x]]
  OBVIOUS
<1>2. PICK abc : abc = [x \in S |-> ab[x] + c[x]]
  OBVIOUS
<1>3. PICK abcd : abcd = [x \in S |-> abc[x] + d[x]]
  OBVIOUS
<1>4. \A x \in S : ab[x] = a[x] + b[x] /\ abc[x] = ab[x] + c[x] /\ abcd[x] = abc[x] + d[x]
  BY <1>1, <1>2, <1>3
<1>5. \A x \in S : ab[x] \in Int /\ abc[x] \in Int /\ abcd[x] \in Int /\ f[x] = abcd[x] + g[x]
  BY <1>4
<1>6. SumFunctionOnSet(ab, S) = SumFunctionOnSet(a, S) + SumFunctionOnSet(b, S)
  BY <1>4, SumAdd
<1>7. SumFunctionOnSet(abc, S) = SumFunctionOnSet(ab, S) + SumFunctionOnSet(c, S)
  BY <1>4, <1>5, SumAdd
<1>8. SumFunctionOnSet(abcd, S) = SumFunctionOnSet(abc, S) + SumFunctionOnSet(d, S)
  BY <1>4, <1>5, SumAdd
<1>9. SumFunctionOnSet(f, S) = SumFunctionOnSet(abcd, S) + SumFunctionOnSet(g, S)
  BY <1>5, SumAdd
<1> QED
  BY <1>6, <1>7, <1>8, <1>9

\* The lines of an entry are those of its assets, liabilities, equity, revenue and expenses.
LEMMA EntryByTypes ==
  ASSUME NEW lines \in Seq(Line)
  PROVE  Sum(lines) = OfType("asset", lines) + OfType("liability", lines) + OfType("equity", lines)
                      + OfType("revenue", lines) + OfType("expense", lines)
<1> DEFINE S == DOMAIN lines
           f == [k \in S |-> Signed(lines[k])]
           g(t) == [k \in S |-> IF Type[lines[k].account] = t THEN Signed(lines[k]) ELSE 0]
<1>1. IsFiniteSet(S) /\ \A k \in S : Signed(lines[k]) \in Int /\ Type[lines[k].account] \in Range(Types)
  <2>1. DOMAIN lines = 1 .. Len(lines) /\ Len(lines) \in Nat
    OBVIOUS
  <2>2. \A k \in DOMAIN lines : lines[k] \in Line
    OBVIOUS
  <2>3. \A k \in DOMAIN lines : lines[k].amount \in Nat /\ lines[k].account \in Accounts
    BY <2>2 DEF Line
  <2>4. \A k \in DOMAIN lines : Signed(lines[k]) \in Int
    BY <2>3 DEF Signed
  <2>5. IsFiniteSet(1 .. Len(lines))
    BY <2>1, FS_Interval
  <2>6. \A k \in DOMAIN lines : Type[lines[k].account] \in Range(Types)
    BY <2>3, ChartAssumption
  <2> QED
    BY <2>1, <2>4, <2>5, <2>6
<1>2. Range(Types) = {"asset", "liability", "equity", "revenue", "expense"}
  BY DEF Range, Types
<1>3. \A k \in S : \A t : g(t)[k] = IF Type[lines[k].account] = t THEN Signed(lines[k]) ELSE 0
  OBVIOUS
<1>4. \A k \in S : \A t : g(t)[k] \in Int
  BY <1>1, <1>3
<1>5. \A k \in S : f[k] = g("asset")[k] + g("liability")[k] + g("equity")[k] + g("revenue")[k] + g("expense")[k]
  <2> SUFFICES ASSUME NEW k \in S
               PROVE  f[k] = g("asset")[k] + g("liability")[k] + g("equity")[k] + g("revenue")[k] + g("expense")[k]
    OBVIOUS
  <2>1. f[k] = Signed(lines[k]) /\ Signed(lines[k]) \in Int
    BY <1>1
  <2>2. Type[lines[k].account] \in {"asset", "liability", "equity", "revenue", "expense"}
    BY <1>1, <1>2
  <2> HIDE DEF f, g, S
  <2>3. CASE Type[lines[k].account] = "asset"
    BY <1>3, <2>1, <2>3
  <2>4. CASE Type[lines[k].account] = "liability"
    BY <1>3, <2>1, <2>4
  <2>5. CASE Type[lines[k].account] = "equity"
    BY <1>3, <2>1, <2>5
  <2>6. CASE Type[lines[k].account] = "revenue"
    BY <1>3, <2>1, <2>6
  <2>7. CASE Type[lines[k].account] = "expense"
    BY <1>3, <2>1, <2>7
  <2> QED
    BY <2>2, <2>3, <2>4, <2>5, <2>6, <2>7
<1>6. Sum(lines) = SumFunctionOnSet(f, S) /\ \A t : OfType(t, lines) = SumFunctionOnSet(g(t), S)
  BY DEF Sum, OfType, SumFunction
<1> HIDE DEF f, g, S
<1>7. SumFunctionOnSet(f, S) = SumFunctionOnSet(g("asset"), S) + SumFunctionOnSet(g("liability"), S)
                               + SumFunctionOnSet(g("equity"), S) + SumFunctionOnSet(g("revenue"), S)
                               + SumFunctionOnSet(g("expense"), S)
  <2>1. \A k \in S : /\ g("asset")[k] \in Int /\ g("liability")[k] \in Int /\ g("equity")[k] \in Int
                     /\ g("revenue")[k] \in Int /\ g("expense")[k] \in Int
    BY <1>4
  <2> QED
    BY <1>1, <1>5, <2>1, SumFive, SMTT(40)
<1> QED
  BY <1>6, <1>7

\* The totals of a ledger all of whose entries balance come to nothing.
LEMMA TotalsBalance ==
  ASSUME LedgerInv
  PROVE  /\ \A t : TypeTotal(t) \in Int
         /\ TypeTotal("asset") + TypeTotal("liability") + TypeTotal("equity") + TypeTotal("revenue")
            + TypeTotal("expense") = 0
<1> DEFINE S == DOMAIN ledger
           g(t) == [e \in S |-> OfType(t, ledger[e])]
<1>1. IsFiniteSet(S) /\ \A e \in S : ledger[e] \in Seq(Line) /\ Sum(ledger[e]) = 0
  <2>1. ledger \in Seq(Seq(Line))
    BY DEF LedgerInv, LedgerTypeOK
  <2>2. S = 1 .. Len(ledger) /\ Len(ledger) \in Nat
    BY <2>1
  <2> QED
    BY <2>1, <2>2, FS_Interval DEF LedgerInv
<1>2. \A e \in S : \A t : g(t)[e] = OfType(t, ledger[e]) /\ g(t)[e] \in Int
  BY <1>1, LineSums
<1>3. \A t : TypeTotal(t) = SumFunctionOnSet(g(t), S)
  BY DEF TypeTotal, SumFunction
<1>4. PICK z : z = [e \in S |-> 0]
  OBVIOUS
<1> HIDE DEF g, S
<1>5. \A e \in S : z[e] = g("asset")[e] + g("liability")[e] + g("equity")[e] + g("revenue")[e] + g("expense")[e]
  <2> SUFFICES ASSUME NEW e \in S
               PROVE  z[e] = g("asset")[e] + g("liability")[e] + g("equity")[e] + g("revenue")[e] + g("expense")[e]
    OBVIOUS
  <2>1. Sum(ledger[e]) = OfType("asset", ledger[e]) + OfType("liability", ledger[e]) + OfType("equity", ledger[e])
                      + OfType("revenue", ledger[e]) + OfType("expense", ledger[e])
    BY <1>1, EntryByTypes
  <2> QED
    BY <1>1, <1>2, <1>4, <2>1
<1>6. SumFunctionOnSet(z, S) = 0
  BY <1>1, <1>4, SumOnly
<1>7. \A t : SumFunctionOnSet(g(t), S) \in Int
  BY <1>1, <1>2, SumType
<1>8. SumFunctionOnSet(z, S) = SumFunctionOnSet(g("asset"), S) + SumFunctionOnSet(g("liability"), S)
                               + SumFunctionOnSet(g("equity"), S) + SumFunctionOnSet(g("revenue"), S)
                               + SumFunctionOnSet(g("expense"), S)
  <2>1. \A e \in S : /\ g("asset")[e] \in Int /\ g("liability")[e] \in Int /\ g("equity")[e] \in Int
                     /\ g("revenue")[e] \in Int /\ g("expense")[e] \in Int
    BY <1>2
  <2> QED
    BY <1>1, <1>5, <2>1, SumFive, SMTT(40)
<1> QED
  BY <1>3, <1>6, <1>7, <1>8

\* A conversion keeps an amount natural, as rounding half up does.
LEMMA ConvertedIsNat ==
  ASSUME LedgerTypeOK, NEW l \in Line
  PROVE  Converted(l) \in Nat
<1>1. l.amount \in Nat /\ l.account \in Accounts /\ l.currency \in Currencies \cup {NoDraft}
  BY DEF Line
<1>2. CASE l.currency = NoDraft \/ rate[<<l.currency, Money[l.account]>>] = NoDraft
  BY <1>1, <1>2 DEF Converted
<1>3. CASE ~(l.currency = NoDraft \/ rate[<<l.currency, Money[l.account]>>] = NoDraft)
  <2>1. PICK r : r = rate[<<l.currency, Money[l.account]>>]
    OBVIOUS
  <2>2. <<l.currency, Money[l.account]>> \in Currencies \X Currencies
    BY <1>1, <1>3 DEF Currencies
  <2>3. r \in Nat
    BY <1>3, <2>1, <2>2, ChartAssumption DEF LedgerTypeOK
  <2>4. PICK p : p = l.amount * r
    OBVIOUS
  <2>5. p \in Nat
    BY <1>1, <2>3, <2>4
  <2>6. (p + 1) \div 2 \in Nat
    BY <2>5
  <2> QED
    BY <1>3, <2>1, <2>4, <2>6 DEF Converted
<1> QED
  BY <1>2, <1>3

\* No posting is of its type.
LEMMA NothingPosted == NoPosting \in [draft : Drafts \cup {NoDraft}, stored : Seq(Line)]
<1>1. <<>> \in Seq(Line)
  OBVIOUS
<1> QED
  BY <1>1 DEF NoPosting

\* The books are empty at first.
LEMMA LedgerStarts ==
  ASSUME LedgerInit
  PROVE  LedgerInv
<1>1. NoPosting \in [draft : Drafts \cup {NoDraft}, stored : Seq(Line)]
  BY NothingPosted
<1>2. Blank \in [open : BOOLEAN, totals : Seq(Int), alone : BOOLEAN] /\ Blank.totals = <<>>
  BY DEF Blank
<1>3. ledger \in Seq(Seq(Line)) /\ Len(ledger) = 0 /\ DOMAIN ledger = {}
  BY DEF LedgerInit
<1>4. rate \in [Currencies \X Currencies -> Rates \cup {NoDraft}]
  BY DEF LedgerInit
<1>5. LedgerTypeOK
  BY <1>1, <1>2, <1>3, <1>4, ChartAssumption DEF LedgerInit, LedgerTypeOK
<1>6. sheet.totals = <<>> /\ posting = NoPosting
  BY <1>2 DEF LedgerInit
<1> QED
  BY <1>3, <1>5, <1>6 DEF LedgerInv, Types

\* A step that leaves the entries committed and the sheet alone keeps what it must of the rest.
LEMMA LedgerStays ==
  ASSUME LedgerInv, LedgerTypeOK', UNCHANGED <<ledger, sheet>>,
         posting' # NoPosting => posting'.draft \in Drafts /\ Len(ledger) < Entries
  PROVE  LedgerInv'
<1>1. \A t : TypeTotal(t)' = TypeTotal(t)
  BY DEF TypeTotal
<1> QED
  BY <1>1 DEF LedgerInv

\* Every step keeps the invariant: an entry is committed when the lines stored come to zero, and the
\* commit takes the sheet's being alone away.
LEMMA LedgerKeeps ==
  ASSUME LedgerInv, [LedgerStep]_ledgerVars
  PROVE  LedgerInv'
<1>1. CASE UNCHANGED ledgerVars
  <2>1. LedgerTypeOK'
    BY <1>1 DEF ledgerVars, LedgerInv, LedgerTypeOK
  <2> QED
    BY <1>1, <2>1, LedgerStays DEF ledgerVars, LedgerInv
<1>2. ASSUME NEW from \in Currencies, NEW to \in Currencies, NEW r \in Rates \cup {NoDraft}, RateChanges(from, to, r)
      PROVE  LedgerInv'
  <2>1. LedgerTypeOK'
    BY <1>2 DEF RateChanges, LedgerInv, LedgerTypeOK
  <2> QED
    BY <1>2, <2>1, LedgerStays DEF RateChanges, LedgerInv
<1>3. ASSUME NEW a \in Accounts, SwitchAccount(a)
      PROVE  LedgerInv'
  <2>1. LedgerTypeOK'
    BY <1>3 DEF SwitchAccount, LedgerInv, LedgerTypeOK
  <2> QED
    BY <1>3, <2>1, LedgerStays DEF SwitchAccount, LedgerInv
<1>4. ASSUME NEW d \in Drafts, BeginEntry(d)
      PROVE  LedgerInv'
  <2>1. posting'.draft = d /\ posting'.stored = <<>>
    BY <1>4 DEF BeginEntry
  <2>2. LedgerTypeOK'
    BY <1>4, <2>1 DEF BeginEntry, LedgerInv, LedgerTypeOK
  <2> QED
    BY <1>4, <2>1, <2>2, LedgerStays DEF BeginEntry
<1>5. CASE StoreLine
  <2>1. CASE posting' = NoPosting
    <3>1. LedgerTypeOK'
      BY <1>5, <2>1 DEF StoreLine, NoPosting, LedgerInv, LedgerTypeOK
    <3> QED
      BY <1>5, <2>1, <3>1, LedgerStays DEF StoreLine
  <2>2. CASE posting' # NoPosting
    <3>1. posting # NoPosting /\ posting.draft \in Drafts /\ Len(ledger) < Entries
      BY <1>5 DEF StoreLine, Missing, LedgerInv
    <3>2. Current \in Line
      <4>1. posting.draft \in Seq(Line) /\ posting.stored \in Seq(Line)
        BY <3>1, DraftsAssumption DEF LedgerInv, LedgerTypeOK
      <4>2. Len(posting.stored) + 1 \in 1 .. Len(posting.draft)
        BY <1>5, <4>1 DEF StoreLine, Missing
      <4> QED
        BY <4>1, <4>2 DEF Current
    <3>3. PICK n : n = Converted(Current)
      OBVIOUS
    <3>4. n \in Nat
      BY <3>2, <3>3, ConvertedIsNat DEF LedgerInv
    <3>5. PICK row : row = [Current EXCEPT !.amount = n, !.currency = Money[Current.account]]
      OBVIOUS
    <3>6. row \in Line
      BY <3>2, <3>4, <3>5 DEF Line, Currencies
    <3>7. posting' = [posting EXCEPT !.stored = Append(posting.stored, row)]
      BY <1>5, <2>2, <3>3, <3>5 DEF StoreLine
    <3>8. posting'.draft = posting.draft /\ posting'.stored = Append(posting.stored, row)
      BY <3>7
    <3>10. posting' \in [draft : Drafts \cup {NoDraft}, stored : Seq(Line)]
      <4>1. posting \in [draft : Drafts \cup {NoDraft}, stored : Seq(Line)]
        BY DEF LedgerInv, LedgerTypeOK
      <4>2. PICK more : more = Append(posting.stored, row)
        OBVIOUS
      <4>3. more \in Seq(Line) /\ posting' = [posting EXCEPT !.stored = more]
        BY <3>6, <3>7, <4>1, <4>2
      <4> QED
        BY <4>1, <4>3
    <3>9. LedgerTypeOK'
      BY <1>5, <3>10 DEF StoreLine, LedgerInv, LedgerTypeOK
    <3> QED
      BY <1>5, <3>1, <3>8, <3>9, LedgerStays DEF StoreLine
  <2> QED
    BY <2>1, <2>2
<1>6. CASE CommitIfBalanced
  <2>1. posting' = NoPosting /\ posting' \in [draft : Drafts \cup {NoDraft}, stored : Seq(Line)]
    BY <1>6, NothingPosted DEF CommitIfBalanced
  <2>2. CASE Sum(posting.stored) = 0
    <3>1. ledger' = Append(ledger, posting.stored) /\ Len(ledger) < Entries
      BY <1>6, <2>2 DEF CommitIfBalanced, LedgerInv
    <3>2. sheet' = [sheet EXCEPT !.alone = FALSE]
      BY <1>6, <2>2 DEF CommitIfBalanced
    <3>3. /\ sheet' \in [open : BOOLEAN, totals : Seq(Int), alone : BOOLEAN]
          /\ sheet'.totals = sheet.totals /\ ~sheet'.alone
      BY <3>2 DEF LedgerInv, LedgerTypeOK
    <3>4. ledger \in Seq(Seq(Line)) /\ posting.stored \in Seq(Line) /\ Entries \in Nat
      BY ChartAssumption DEF LedgerInv, LedgerTypeOK
    <3>5. ledger' \in Seq(Seq(Line)) /\ Len(ledger') <= Entries
      BY <3>1, <3>4
    <3>6. \A e \in DOMAIN ledger' : Sum(ledger'[e]) = 0
      <4> SUFFICES ASSUME NEW e \in DOMAIN ledger' PROVE Sum(ledger'[e]) = 0
        OBVIOUS
      <4>1. ledger'[e] = posting.stored \/ (e \in DOMAIN ledger /\ ledger'[e] = ledger[e])
        BY <3>1, <3>4
      <4> QED
        BY <2>2, <4>1 DEF LedgerInv
    <3>7. LedgerTypeOK'
      BY <1>6, <2>1, <3>3, <3>5 DEF CommitIfBalanced, LedgerInv, LedgerTypeOK
    <3> QED
      BY <2>1, <3>3, <3>6, <3>7 DEF LedgerInv
  <2>3. CASE Sum(posting.stored) # 0
    <3>0. sheet \in [open : BOOLEAN, totals : Seq(Int), alone : BOOLEAN]
      BY DEF LedgerInv, LedgerTypeOK
    <3>1. ledger' = ledger /\ sheet' = [sheet EXCEPT !.alone = sheet.alone /\ TRUE]
      BY <1>6, <2>3, Zenon DEF CommitIfBalanced
    <3>2. sheet' = sheet
      BY <3>0, <3>1
    <3>3. LedgerTypeOK'
      BY <1>6, <2>1, <3>1, <3>2 DEF CommitIfBalanced, LedgerInv, LedgerTypeOK
    <3> QED
      BY <2>1, <3>1, <3>2, <3>3, LedgerStays
  <2> QED
    BY <2>2, <2>3
<1>7. CASE OpenSheet \/ CloseSheet
  <2>1. sheet'.totals = <<>> /\ sheet' \in [open : BOOLEAN, totals : Seq(Int), alone : BOOLEAN]
    <3>1. \A o \in BOOLEAN : [open |-> o, totals |-> <<>>, alone |-> TRUE]
                                \in [open : BOOLEAN, totals : Seq(Int), alone : BOOLEAN]
      OBVIOUS
    <3>2. PICK o \in BOOLEAN : sheet' = [open |-> o, totals |-> <<>>, alone |-> TRUE]
      BY <1>7 DEF OpenSheet, CloseSheet, Blank
    <3> QED
      BY <3>1, <3>2
  <2>2. UNCHANGED <<active, rate, posting, ledger>>
    BY <1>7 DEF OpenSheet, CloseSheet
  <2>3. LedgerTypeOK'
    BY <2>1, <2>2 DEF LedgerInv, LedgerTypeOK
  <2> QED
    BY <2>1, <2>2, <2>3 DEF LedgerInv, Types
<1>8. CASE ReadType
  <2>1. sheet \in [open : BOOLEAN, totals : Seq(Int), alone : BOOLEAN] /\ Len(sheet.totals) < Len(Types)
    BY <1>8 DEF ReadType, LedgerInv, LedgerTypeOK
  <2>2. PICK n \in Nat : n = Len(sheet.totals) + 1
    BY <2>1
  <2>3. PICK v \in Int : v = TypeTotal(Types[n])
    BY TotalsBalance
  <2>4. sheet' = [sheet EXCEPT !.totals = Append(sheet.totals, v)]
    BY <1>8, <2>2, <2>3 DEF ReadType
  <2>5. /\ sheet'.totals = Append(sheet.totals, v) /\ sheet'.alone = sheet.alone
        /\ sheet' \in [open : BOOLEAN, totals : Seq(Int), alone : BOOLEAN]
    <3>1. PICK more : more = Append(sheet.totals, v)
      OBVIOUS
    <3>2. more \in Seq(Int)
      BY <2>1, <3>1
    <3>3. sheet' = [sheet EXCEPT !.totals = more]
      BY <2>4, <3>1
    <3> QED
      BY <2>1, <3>1, <3>2, <3>3
  <2>6. UNCHANGED <<active, rate, posting, ledger>>
    BY <1>8 DEF ReadType
  <2>7. LedgerTypeOK'
    BY <2>5, <2>6 DEF LedgerInv, LedgerTypeOK
  <2>8. \A t : TypeTotal(t)' = TypeTotal(t)
    BY <2>6 DEF TypeTotal
  <2>9. \A m \in DOMAIN sheet'.totals :
           (m = n /\ sheet'.totals[m] = v) \/ (m \in DOMAIN sheet.totals /\ sheet'.totals[m] = sheet.totals[m])
    BY <2>1, <2>2, <2>5
  <2>10. Len(sheet'.totals) <= Len(Types)
    BY <2>1, <2>5 DEF Types
  <2> QED
    BY <2>3, <2>5, <2>6, <2>7, <2>8, <2>9, <2>10 DEF LedgerInv
<1> QED
  BY <1>1, <1>2, <1>3, <1>4, <1>5, <1>6, <1>7, <1>8 DEF LedgerStep

\* Five totals of a ledger in balance come to nothing.
LEMMA LedgerTells ==
  ASSUME LedgerInv
  PROVE  QuietSheetBalances
<1> SUFFICES ASSUME Complete, sheet.alone PROVE Difference = 0
  BY DEF QuietSheetBalances
<1>1. Len(sheet.totals) = 5 /\ sheet.totals \in Seq(Int)
  BY DEF Complete, Types, LedgerInv, LedgerTypeOK
<1>2. PICK s : s = sheet.totals
  OBVIOUS
<1>3. /\ s[1] = TypeTotal("asset") /\ s[2] = TypeTotal("liability") /\ s[3] = TypeTotal("equity")
      /\ s[4] = TypeTotal("revenue") /\ s[5] = TypeTotal("expense")
  <2>1. \A n \in 1 .. 5 : s[n] = TypeTotal(Types[n])
    BY <1>1, <1>2 DEF LedgerInv
  <2>2. /\ Types[1] = "asset" /\ Types[2] = "liability" /\ Types[3] = "equity"
        /\ Types[4] = "revenue" /\ Types[5] = "expense"
    BY DEF Types
  <2> QED
    BY <2>1, <2>2
<1>4. \A n \in 1 .. 5 : s[n] \in Int
  BY <1>1, <1>2
<1>5. SumFunction(s) = SumFunctionOnSet(s, 1 .. 5)
  BY <1>1, <1>2 DEF SumFunction
<1>6. SumFunctionOnSet(s, 1 .. 5) = s[1] + s[2] + s[3] + s[4] + s[5]
  <2>1. IsFiniteSet(1 .. 5) /\ IsFiniteSet(1 .. 4) /\ IsFiniteSet(1 .. 3) /\ IsFiniteSet(1 .. 2) /\ IsFiniteSet({1})
    <3>1. \A n \in Int : IsFiniteSet(1 .. n)
      BY FS_Interval
    <3>2. 5 \in Int /\ 4 \in Int /\ 3 \in Int /\ 2 \in Int
      OBVIOUS
    <3> QED
      BY <3>1, <3>2, FS_Singleton, Zenon
  <2>2. /\ (1 .. 5) \ {5} = 1 .. 4 /\ (1 .. 4) \ {4} = 1 .. 3 /\ (1 .. 3) \ {3} = 1 .. 2
        /\ (1 .. 2) \ {2} = 1 .. 1 /\ 1 .. 1 = {1}
    OBVIOUS
  <2>3. SumFunctionOnSet(s, 1 .. 5) = s[5] + SumFunctionOnSet(s, 1 .. 4)
    BY <1>4, <2>1, <2>2, SumPick
  <2>4. SumFunctionOnSet(s, 1 .. 4) = s[4] + SumFunctionOnSet(s, 1 .. 3)
    BY <1>4, <2>1, <2>2, SumPick
  <2>5. SumFunctionOnSet(s, 1 .. 3) = s[3] + SumFunctionOnSet(s, 1 .. 2)
    BY <1>4, <2>1, <2>2, SumPick
  <2>6. SumFunctionOnSet(s, 1 .. 2) = s[2] + SumFunctionOnSet(s, 1 .. 1)
    BY <1>4, <2>1, <2>2, SumPick
  <2>7. SumFunctionOnSet(s, 1 .. 1) = s[1]
    BY <1>4, <2>1, <2>2, SumOnly
  <2> QED
    BY <1>4, <2>3, <2>4, <2>5, <2>6, <2>7
<1>7. TypeTotal("asset") + TypeTotal("liability") + TypeTotal("equity") + TypeTotal("revenue")
            + TypeTotal("expense") = 0 /\ \A t : TypeTotal(t) \in Int
  BY TotalsBalance
<1> QED
  BY <1>2, <1>3, <1>5, <1>6, <1>7 DEF Difference

\* The ledger's invariant holds in every state.
THEOREM LedgerHolds == LedgerSpec => []LedgerInv
<1>1. LedgerInit => LedgerInv
  BY LedgerStarts
<1>2. LedgerInv /\ [LedgerStep]_ledgerVars => LedgerInv'
  BY LedgerKeeps
<1> QED
  BY <1>1, <1>2, PTL DEF LedgerSpec

\* A balance sheet under which nothing was committed balances, for any chart of accounts, currencies,
\* rates and entries (PostJournalEntryTx, GetBalanceSheet).
THEOREM QuietSheets == LedgerSpec => []QuietSheetBalances
BY LedgerHolds, LedgerTells, PTL

------------------------------------------------------------------------------------
\* Conditions: the children of a node come before it, so that a verdict on a tree is found
\* node by node.
Nodes == LeafTests \cup [type : {""}, op : LogicOps, children : Seq(Nat)]
ChildrenFirst(t) ==
    \A i \in 1 .. Len(t) :
        IsLogicNode(t[i]) => \A k \in 1 .. Len(t[i].children) : t[i].children[k] \in 1 .. i - 1
ConditionsInv == tree \in Seq(Nodes) /\ tree # <<>> /\ ChildrenFirst(tree)

\* A test is no logic node.
LEMMA TestsAreLeaves == \A l \in LeafTests : l \in Nodes /\ ~IsLogicNode(l)
BY LeafTestsAssumption DEF LeafTypes, IsLogicNode, Nodes

\* Every tree starts as a leaf and grows upwards.
LEMMA ConditionsStart == ConditionsInit => ConditionsInv
<1> SUFFICES ASSUME NEW l \in LeafTests, tree = <<l>> PROVE ConditionsInv
  BY DEF ConditionsInit
<1>1. tree \in Seq(Nodes) /\ tree # <<>> /\ \A i \in 1 .. Len(tree) : tree[i] = l
  BY TestsAreLeaves
<1> QED
  BY <1>1, TestsAreLeaves DEF ConditionsInv, ChildrenFirst

\* A logic node over what is there keeps the children before it.
LEMMA GrownInv ==
  ASSUME NEW t \in Seq(Nodes), ChildrenFirst(t), NEW op \in LogicOps,
         NEW children \in Seq(Nat), \A k \in 1 .. Len(children) : children[k] \in 1 .. Len(t)
  PROVE  LET u == Append(t, LogicNode(op, children)) IN u \in Seq(Nodes) /\ u # <<>> /\ ChildrenFirst(u)
<1> DEFINE n == LogicNode(op, children)
           u == Append(t, n)
<1>1. n \in Nodes /\ IsLogicNode(n) /\ n.children = children
  BY DEF LogicNode, Nodes, IsLogicNode
<1> HIDE DEF n
<1>2. /\ u \in Seq(Nodes) /\ u # <<>> /\ Len(u) = Len(t) + 1 /\ u[Len(t) + 1] = n
      /\ \A i \in 1 .. Len(t) : u[i] = t[i]
  <2>1. n \in Nodes
    BY <1>1
  <2>2. u \in Seq(Nodes) /\ Len(u) = Len(t) + 1
    BY <2>1
  <2>3. u[Len(t) + 1] = n /\ \A i \in 1 .. Len(t) : u[i] = t[i]
    OBVIOUS
  <2>4. u # <<>>
    BY <2>2
  <2> QED
    BY <2>2, <2>3, <2>4
<1> HIDE DEF u
<1>3. ASSUME NEW i \in 1 .. Len(u), IsLogicNode(u[i]), NEW k \in 1 .. Len(u[i].children)
      PROVE  u[i].children[k] \in 1 .. i - 1
  <2>1. CASE i = Len(t) + 1
    BY <1>1, <1>2, <1>3, <2>1
  <2>2. CASE i \in 1 .. Len(t)
    BY <1>2, <1>3, <2>2 DEF ChildrenFirst
  <2> QED
    BY <1>2, <2>1, <2>2
<1> QED
  BY <1>2, <1>3 DEF u, n, ChildrenFirst

\* So does a leaf.
LEMMA LeafInv ==
  ASSUME NEW t \in Seq(Nodes), ChildrenFirst(t), NEW l \in LeafTests
  PROVE  Append(t, l) \in Seq(Nodes) /\ ChildrenFirst(Append(t, l)) /\ Len(Append(t, l)) = Len(t) + 1
<1> DEFINE u == Append(t, l)
<1>1. /\ u \in Seq(Nodes) /\ Len(u) = Len(t) + 1 /\ u[Len(t) + 1] = l
      /\ \A i \in 1 .. Len(t) : u[i] = t[i]
  BY TestsAreLeaves
<1> HIDE DEF u
<1>2. ChildrenFirst(u)
  BY <1>1, TestsAreLeaves DEF ChildrenFirst
<1> QED
  BY <1>1, <1>2 DEF u

\* Every step of the rules' owners keeps the invariant.
LEMMA ConditionsStepInv == ConditionsInv /\ [ConditionsNext]_tree => ConditionsInv'
<1> SUFFICES ASSUME ConditionsInv, ConditionsNext PROVE ConditionsInv'
  BY DEF ConditionsInv
<1>1. PICK op \in LogicOps : Wrap(op)
  BY DEF ConditionsNext
<1> DEFINE root == Len(tree)
<1>2. root \in Nat /\ root > 0
  BY DEF ConditionsInv
<1>3. CASE tree' = <<LogicNode(op, <<>>)>>
  <2>1. LogicNode(op, <<>>) \in Nodes /\ LogicNode(op, <<>>).children = <<>>
    <3>1. <<>> \in Seq(Nat)
      OBVIOUS
    <3> QED
      BY <3>1 DEF LogicNode, Nodes
  <2>2. tree' \in Seq(Nodes) /\ tree' # <<>> /\ \A i \in 1 .. Len(tree') : tree'[i].children = <<>>
    BY <1>3, <2>1
  <2> QED
    BY <2>2 DEF ConditionsInv, ChildrenFirst
<1>4. CASE tree' = Append(tree, LogicNode(op, <<root>>))
  <2>1. <<root>> \in Seq(Nat) /\ \A k \in 1 .. Len(<<root>>) : <<root>>[k] \in 1 .. Len(tree)
    BY <1>2
  <2> QED
    BY <1>4, <2>1, GrownInv DEF ConditionsInv
<1>5. CASE \E l \in LeafTests, children \in {<<root, root + 1>>, <<root + 1, root>>} :
              tree' = Append(Append(tree, l), LogicNode(op, children))
  <2>1. PICK l \in LeafTests, children \in {<<root, root + 1>>, <<root + 1, root>>} :
            tree' = Append(Append(tree, l), LogicNode(op, children))
    BY <1>5
  <2> DEFINE u == Append(tree, l)
  <2>2. u \in Seq(Nodes) /\ ChildrenFirst(u) /\ Len(u) = root + 1
    BY LeafInv DEF ConditionsInv
  <2>3. children \in Seq(Nat) /\ \A k \in 1 .. Len(children) : children[k] \in 1 .. root + 1
    <3> HIDE DEF root
    <3>1. CASE children = <<root, root + 1>>
      BY <1>2, <3>1
    <3>2. CASE children = <<root + 1, root>>
      BY <1>2, <3>2
    <3> QED
      BY <3>1, <3>2
  <2> HIDE DEF u, root
  <2>4. tree' = Append(u, LogicNode(op, children))
    BY <2>1 DEF u
  <2> QED
    BY <2>2, <2>3, <2>4, GrownInv DEF ConditionsInv
<1> QED
  BY <1>1, <1>3, <1>4, <1>5 DEF Wrap

\* What Evaluate's recursion makes of the first n nodes.
Judges(t, ec, n, f) ==
    f = [i \in 1 .. n |->
          IF IsLogicNode(t[i])
          THEN EvaluateLogicNode(t[i].op, [k \in 1 .. Len(t[i].children) |-> f[t[i].children[k]]])
          ELSE EvaluateLeaf(t[i], ec)]

\* Evaluate as a choice of a function, which other lemmas can reason about.
LEMMA EvaluateIs ==
  ASSUME NEW t, NEW ec
  PROVE  Evaluate(t, ec) = (CHOOSE f : Judges(t, ec, Len(t), f))[Len(t)]
BY DEF Evaluate, Judges

\* The recursion has a solution.
LEMMA JudgesExists ==
  ASSUME NEW t \in Seq(Nodes), ChildrenFirst(t), NEW ec
  PROVE  \E f : Judges(t, ec, Len(t), f)
<1> DEFINE N == {n \in Nat : n <= Len(t) => \E f : Judges(t, ec, n, f)}
<1>1. 0 \in N
  <2>1. 1 .. 0 = {}
    OBVIOUS
  <2>2. Judges(t, ec, 0, [i \in 1 .. 0 |-> ""])
    BY <2>1 DEF Judges
  <2> QED
    BY <2>2
<1>2. ASSUME NEW n \in Nat, n \in N
      PROVE  n + 1 \in N
  <2> SUFFICES ASSUME n + 1 <= Len(t) PROVE \E g : Judges(t, ec, n + 1, g)
    OBVIOUS
  <2>1. PICK f : Judges(t, ec, n, f)
    BY <1>2
  <2> DEFINE Of(h, i) ==
                IF IsLogicNode(t[i])
                THEN EvaluateLogicNode(t[i].op, [k \in 1 .. Len(t[i].children) |-> h[t[i].children[k]]])
                ELSE EvaluateLeaf(t[i], ec)
             g == [i \in 1 .. n + 1 |-> IF i = n + 1 THEN Of(f, n + 1) ELSE f[i]]
  <2>2. \A i \in 1 .. n : g[i] = f[i]
    OBVIOUS
  <2>3. \A i \in 1 .. n : f[i] = Of(f, i)
    BY <2>1 DEF Judges
  <2>4. g[n + 1] = Of(f, n + 1) /\ g = [i \in 1 .. n + 1 |-> g[i]]
    OBVIOUS
  <2> HIDE DEF g
  <2>5. ASSUME NEW i \in 1 .. n + 1
        PROVE  Of(f, i) = Of(g, i)
    <3>1. CASE IsLogicNode(t[i])
      <4>1. \A k \in 1 .. Len(t[i].children) : t[i].children[k] \in 1 .. n
        BY <3>1 DEF ChildrenFirst
      <4>2. [k \in 1 .. Len(t[i].children) |-> f[t[i].children[k]]]
              = [k \in 1 .. Len(t[i].children) |-> g[t[i].children[k]]]
        BY <2>2, <4>1
      <4> QED
        BY <4>2
    <3>2. CASE ~IsLogicNode(t[i])
      BY <3>2
    <3> QED
      BY <3>1, <3>2
  <2>6. \A i \in 1 .. n + 1 : g[i] = Of(g, i)
    <3> HIDE DEF Of
    <3> SUFFICES ASSUME NEW i \in 1 .. n + 1 PROVE g[i] = Of(g, i)
      OBVIOUS
    <3>1. Of(f, i) = Of(g, i) /\ (i = n + 1 \/ i \in 1 .. n)
      BY <2>5
    <3>2. CASE i = n + 1
      BY <2>4, <3>1, <3>2
    <3>3. CASE i \in 1 .. n
      BY <2>2, <2>3, <3>1, <3>3
    <3> QED
      BY <3>1, <3>2, <3>3
  <2>7. g = [i \in 1 .. n + 1 |-> Of(g, i)]
    <3> HIDE DEF Of
    <3> QED
      BY <2>4, <2>6
  <2>8. Judges(t, ec, n + 1, g)
    BY <2>7 DEF Judges
  <2> QED
    BY <2>8
<1>3. Len(t) \in N
  <2> HIDE DEF N
  <2> QED
    BY <1>1, <1>2, NatSet
<1> QED
  BY <1>3

\* The verdicts on a tree, one node at a time.
LEMMA EvaluateJudges ==
  ASSUME NEW t \in Seq(Nodes), ChildrenFirst(t), NEW ec
  PROVE  \E f : Judges(t, ec, Len(t), f) /\ Evaluate(t, ec) = f[Len(t)]
<1> DEFINE f == CHOOSE g : Judges(t, ec, Len(t), g)
<1>1. Judges(t, ec, Len(t), f)
  BY JudgesExists
<1>2. Evaluate(t, ec) = f[Len(t)]
  BY EvaluateIs
<1> QED
  BY <1>1, <1>2

\* A non-empty set of places has a least one.
LEMMA MinIn ==
  ASSUME NEW N \in Nat, NEW S \in SUBSET (1 .. N), S # {}
  PROVE  Min(S) \in S
<1> DEFINE Least(n) == \A T \in SUBSET (1 .. N) : T # {} /\ (\E x \in T : x <= n) =>
                            \E x \in T : \A y \in T : x <= y
           G == {n \in Nat : Least(n)}
<1>1. 0 \in G
  OBVIOUS
<1>2. ASSUME NEW n \in Nat, n \in G
      PROVE  n + 1 \in G
  <2> SUFFICES ASSUME NEW T \in SUBSET (1 .. N), NEW z \in T, z <= n + 1
               PROVE  \E x \in T : \A y \in T : x <= y
    OBVIOUS
  <2>1. CASE \E x \in T : x <= n
    BY <1>2, <2>1
  <2>2. CASE \A x \in T : ~(x <= n)
    <3>1. z = n + 1 /\ \A y \in T : z <= y
      BY <2>2
    <3> QED
      BY <3>1
  <2> QED
    BY <2>1, <2>2
<1>3. N \in G
  <2> HIDE DEF G
  <2> QED
    BY <1>1, <1>2, NatSet
<1>4. \E x \in S : \A y \in S : x <= y
  <2>1. \E x \in S : x <= N
    <3>1. PICK x \in S : TRUE
      OBVIOUS
    <3>2. x \in 1 .. N
      OBVIOUS
    <3> QED
      BY <3>2
  <2>2. Least(N)
    BY <1>3
  <2> QED
    BY <2>1, <2>2
<1> QED
  BY <1>4 DEF Min

\* FirstOther is one of the verdicts and not the neutral one, or every verdict is neutral.
LEMMA FirstOtherIs ==
  ASSUME NEW n \in Nat, NEW verdicts, DOMAIN verdicts = 1 .. n, NEW neutral
  PROVE  \/ FirstOther(verdicts, neutral) = neutral /\ \A k \in 1 .. n : verdicts[k] = neutral
         \/ \E k \in 1 .. n : FirstOther(verdicts, neutral) = verdicts[k] /\ verdicts[k] # neutral
<1> DEFINE others == {k \in DOMAIN verdicts : verdicts[k] # neutral}
<1>1. CASE others = {}
  BY <1>1 DEF FirstOther
<1>2. CASE others # {}
  <2>1. others \in SUBSET (1 .. n)
    OBVIOUS
  <2> HIDE DEF others
  <2>2. Min(others) \in others
    BY <1>2, <2>1, MinIn
  <2>3. FirstOther(verdicts, neutral) = verdicts[Min(others)]
    BY <1>2 DEF FirstOther, others
  <2> QED
    BY <2>2, <2>3 DEF others
<1> QED
  BY <1>1, <1>2

\* A logic node of valid arity over children of which none is malformed is not malformed.
LEMMA LogicStaysValid ==
  ASSUME NEW op, NEW verdicts, NEW n \in Nat, Len(verdicts) = n, DOMAIN verdicts = 1 .. n,
         n > 0 <=> verdicts # <<>>, ValidArity(op, n), \A k \in 1 .. n : verdicts[k] # "invalid"
  PROVE  EvaluateLogicNode(op, verdicts) # "invalid"
<1>1. CASE op = "and"
  <2>1. EvaluateLogicNode(op, verdicts) = FirstOther(verdicts, "true")
    BY <1>1 DEF EvaluateLogicNode, ValidArity
  <2> QED
    BY <2>1, FirstOtherIs
<1>2. CASE op = "or"
  <2>1. EvaluateLogicNode(op, verdicts) = FirstOther(verdicts, "false")
    BY <1>2 DEF EvaluateLogicNode, ValidArity
  <2> QED
    BY <2>1, FirstOtherIs
<1>3. CASE op = "not"
  <2>1. EvaluateLogicNode(op, verdicts) = Negation(verdicts[1]) /\ n = 1
    BY <1>3 DEF EvaluateLogicNode, ValidArity
  <2> QED
    BY <2>1 DEF Negation
<1> QED
  BY <1>1, <1>2, <1>3 DEF ValidArity

\* A leaf that passed validation is not malformed.
LEMMA LeafStaysValid ==
  ASSUME NEW leaf, ValidLeaf(leaf), NEW ec \in Context
  PROVE  EvaluateLeaf(leaf, ec) # "invalid"
<1>1. ASSUME NEW op, NEW a, NEW b, IsKnownCompareOp(op, TRUE)
      PROVE  CompareValues(op, a, b) # "invalid"
  BY <1>1 DEF IsKnownCompareOp, CompareOps, CompareValues, ValuesEqual, Negation, Truth
<1>2. CASE leaf.type = "field"
  <2>1. EvaluateLeaf(leaf, ec) = EvaluateField(leaf, ec) /\ leaf.a # Unset /\ IsKnownCompareOp(leaf.op, TRUE)
    BY <1>2 DEF EvaluateLeaf, ValidLeaf
  <2> QED
    BY <1>1, <2>1 DEF EvaluateField
<1>3. CASE leaf.type = "field_compare"
  <2>1. /\ EvaluateLeaf(leaf, ec) = EvaluateFieldCompare(leaf, ec)
        /\ leaf.a # Unset /\ leaf.b # Unset /\ IsKnownCompareOp(leaf.op, TRUE)
    BY <1>3 DEF EvaluateLeaf, ValidLeaf, IsKnownCompareOp
  <2> QED
    BY <1>1, <2>1 DEF EvaluateFieldCompare
<1>4. CASE leaf.type \in {"state", "edge_event"}
  BY <1>4 DEF EvaluateLeaf, ValidLeaf, EvaluateState, EvaluateEdgeEvent, Context
<1> QED
  BY <1>2, <1>3, <1>4 DEF ValidLeaf

\* The verdicts a logic node is given are those on its children, in order.
LEMMA ChildVerdicts ==
  ASSUME NEW children \in Seq(Nat), NEW f
  PROVE  LET v == [k \in 1 .. Len(children) |-> f[children[k]]] IN
         /\ Len(children) \in Nat /\ Len(v) = Len(children) /\ DOMAIN v = 1 .. Len(children)
         /\ Len(children) > 0 <=> v # <<>>
         /\ \A k \in 1 .. Len(children) : v[k] = f[children[k]]
<1> DEFINE n == Len(children)
           v == [k \in 1 .. n |-> f[children[k]]]
           S == {f[children[k]] : k \in 1 .. n}
<1>1. n \in Nat
  OBVIOUS
<1> HIDE DEF n
<1>2. v \in [1 .. n -> S]
  OBVIOUS
<1>3. v \in Seq(S) /\ Len(v) = n
  <2> HIDE DEF v, S
  <2> QED
    BY <1>1, <1>2
<1>4. DOMAIN v = 1 .. n /\ \A k \in 1 .. n : v[k] = f[children[k]]
  OBVIOUS
<1>5. n > 0 <=> v # <<>>
  <2> HIDE DEF v, S
  <2> QED
    BY <1>1, <1>3
<1> QED
  BY <1>1, <1>3, <1>4, <1>5 DEF n

\* A tree that passed validation never fails as malformed.
LEMMA TreeStaysValid ==
  ASSUME NEW t \in Seq(Nodes), ChildrenFirst(t), ValidateExpressionTree(t), NEW ec \in Context, NEW f,
         Judges(t, ec, Len(t), f)
  PROVE  \A i \in 1 .. Len(t) : f[i] # "invalid"
<1> DEFINE N == {n \in Nat : \A i \in 1 .. Len(t) : i <= n => f[i] # "invalid"}
<1>1. 0 \in N
  OBVIOUS
<1>2. ASSUME NEW n \in Nat, n \in N
      PROVE  n + 1 \in N
  <2> SUFFICES ASSUME n + 1 \in 1 .. Len(t) PROVE f[n + 1] # "invalid"
    BY <1>2
  <2> DEFINE node == t[n + 1]
             v == [k \in 1 .. Len(node.children) |-> f[node.children[k]]]
  <2>1. CASE IsLogicNode(node)
    <3>1. f[n + 1] = EvaluateLogicNode(node.op, v) /\ ValidArity(node.op, Len(node.children))
      BY <2>1 DEF Judges, ValidateExpressionTree
    <3>2. node.children \in Seq(Nat)
      <4>1. node \in Nodes /\ node \notin LeafTests
        BY <2>1, TestsAreLeaves
      <4> QED
        BY <4>1 DEF Nodes
    <3>3. \A k \in 1 .. Len(node.children) : f[node.children[k]] # "invalid"
      <4>1. \A k \in 1 .. Len(node.children) : node.children[k] \in 1 .. n
        BY <2>1 DEF ChildrenFirst
      <4> QED
        BY <1>2, <4>1
    <3> HIDE DEF v, node
    <3>4. /\ Len(node.children) \in Nat /\ Len(v) = Len(node.children) /\ DOMAIN v = 1 .. Len(node.children)
          /\ Len(node.children) > 0 <=> v # <<>>
          /\ \A k \in 1 .. Len(node.children) : v[k] = f[node.children[k]]
      BY <3>2, ChildVerdicts DEF v
    <3>5. EvaluateLogicNode(node.op, v) # "invalid"
      BY <3>1, <3>3, <3>4, LogicStaysValid
    <3> QED
      BY <3>1, <3>5
  <2>2. CASE ~IsLogicNode(node)
    <3>1. f[n + 1] = EvaluateLeaf(node, ec) /\ ValidLeaf(node)
      BY <2>2 DEF Judges, ValidateExpressionTree
    <3> QED
      BY <3>1, LeafStaysValid
  <2> QED
    BY <2>1, <2>2
<1>3. Len(t) \in N
  <2> HIDE DEF N
  <2> QED
    BY <1>1, <1>2, NatSet
<1> QED
  BY <1>3

\* A definite verdict on a logic node is its classical value, whatever the children without
\* a definite verdict are taken for.
LEMMA LogicIsSound ==
  ASSUME NEW op \in LogicOps, NEW verdicts, NEW n \in Nat, Len(verdicts) = n, DOMAIN verdicts = 1 .. n,
         n > 0 <=> verdicts # <<>>, NEW node, node.op = op, Len(node.children) = n,
         NEW value,
         \A k \in 1 .. n : verdicts[k] \in {"true", "false"} =>
                              (value[node.children[k]] <=> verdicts[k] = "true"),
         EvaluateLogicNode(op, verdicts) \in {"true", "false"}
  PROVE  Classical(node, value) <=> EvaluateLogicNode(op, verdicts) = "true"
<1>1. CASE op = "and"
  <2>1. EvaluateLogicNode(op, verdicts) = FirstOther(verdicts, "true")
    BY <1>1 DEF EvaluateLogicNode
  <2>2. Classical(node, value) <=> \A k \in 1 .. n : value[node.children[k]]
    BY <1>1 DEF Classical
  <2> QED
    BY <2>1, <2>2, FirstOtherIs
<1>2. CASE op = "or"
  <2>1. EvaluateLogicNode(op, verdicts) = FirstOther(verdicts, "false")
    BY <1>2 DEF EvaluateLogicNode
  <2>2. Classical(node, value) <=> \E k \in 1 .. n : value[node.children[k]]
    BY <1>2 DEF Classical
  <2> QED
    BY <2>1, <2>2, FirstOtherIs
<1>3. CASE op = "not"
  <2>1. EvaluateLogicNode(op, verdicts) = Negation(verdicts[1]) /\ n = 1
    BY <1>3 DEF EvaluateLogicNode
  <2>2. Classical(node, value) <=> ~value[node.children[1]]
    BY <1>3 DEF Classical
  <2>3. verdicts[1] \in {"true", "false"}
    BY <2>1 DEF Negation
  <2>4. Negation(verdicts[1]) = "true" <=> verdicts[1] # "true"
    BY <2>3 DEF Negation
  <2>5. value[node.children[1]] <=> verdicts[1] = "true"
    BY <2>1, <2>3
  <2> QED
    BY <2>1, <2>2, <2>4, <2>5
<1>4. CASE op = "xor"
  BY <1>4 DEF EvaluateLogicNode
<1> QED
  BY <1>1, <1>2, <1>3, <1>4 DEF LogicOps

\* A definite verdict on a node is its value in every completion.
LEMMA TreeIsSound ==
  ASSUME NEW t \in Seq(Nodes), ChildrenFirst(t), NEW ec, NEW f, Judges(t, ec, Len(t), f),
         NEW value \in Completions(t, ec)
  PROVE  \A i \in 1 .. Len(t) : f[i] \in {"true", "false"} => (value[i] <=> f[i] = "true")
<1> DEFINE Agree(i) == f[i] \in {"true", "false"} => (value[i] <=> f[i] = "true")
           N == {n \in Nat : \A i \in 1 .. Len(t) : i <= n => Agree(i)}
<1>1. 0 \in N
  OBVIOUS
<1>2. ASSUME NEW n \in Nat, n \in N
      PROVE  n + 1 \in N
  <2> SUFFICES ASSUME n + 1 \in 1 .. Len(t), f[n + 1] \in {"true", "false"}
               PROVE  value[n + 1] <=> f[n + 1] = "true"
    BY <1>2
  <2> DEFINE node == t[n + 1]
             v == [k \in 1 .. Len(node.children) |-> f[node.children[k]]]
  <2>1. CASE IsLogicNode(node)
    <3>1. f[n + 1] = EvaluateLogicNode(node.op, v)
      BY <2>1 DEF Judges
    <3>2. value[n + 1] <=> Classical(node, value)
      BY <2>1 DEF Completions
    <3>3. node.children \in Seq(Nat) /\ node.op \in LogicOps
      <4>1. node \in Nodes /\ node \notin LeafTests
        BY <2>1, TestsAreLeaves
      <4> QED
        BY <4>1 DEF Nodes
    <3>4. \A k \in 1 .. Len(node.children) :
              f[node.children[k]] \in {"true", "false"} =>
                  (value[node.children[k]] <=> f[node.children[k]] = "true")
      <4>1. \A k \in 1 .. Len(node.children) : node.children[k] \in 1 .. n
        BY <2>1 DEF ChildrenFirst
      <4> QED
        BY <1>2, <4>1
    <3> HIDE DEF v, node
    <3>5. /\ Len(node.children) \in Nat /\ Len(v) = Len(node.children) /\ DOMAIN v = 1 .. Len(node.children)
          /\ Len(node.children) > 0 <=> v # <<>>
          /\ \A k \in 1 .. Len(node.children) : v[k] = f[node.children[k]]
      BY <3>3, ChildVerdicts DEF v
    <3>6. Classical(node, value) <=> EvaluateLogicNode(node.op, v) = "true"
      <4>1. EvaluateLogicNode(node.op, v) \in {"true", "false"}
        BY <3>1
      <4>2. \A k \in 1 .. Len(node.children) :
                v[k] \in {"true", "false"} => (value[node.children[k]] <=> v[k] = "true")
        BY <3>4, <3>5
      <4> QED
        BY <3>3, <3>5, <4>1, <4>2, LogicIsSound
    <3> QED
      BY <3>1, <3>2, <3>6
  <2>2. CASE ~IsLogicNode(node)
    <3>1. f[n + 1] = EvaluateLeaf(node, ec)
      BY <2>2 DEF Judges
    <3> QED
      BY <2>2, <3>1 DEF Completions
  <2> QED
    BY <2>1, <2>2
<1>3. Len(t) \in N
  <2> HIDE DEF N
  <2> QED
    BY <1>1, <1>2, NatSet
<1> QED
  BY <1>3

\* Validated trees that put children first have sound verdicts.
LEMMA SoundTrees == ConditionsInv => VerdictsAreSound
<1> SUFFICES ASSUME ConditionsInv, ValidateExpressionTree(tree), NEW ec \in Context
             PROVE  LET v == Evaluate(tree, ec) IN
                    /\ v # "invalid"
                    /\ v \in {"true", "false"} =>
                        \A value \in Completions(tree, ec) : value[Len(tree)] <=> v = "true"
  BY DEF VerdictsAreSound
<1>1. tree \in Seq(Nodes) /\ ChildrenFirst(tree) /\ Len(tree) \in 1 .. Len(tree)
  BY DEF ConditionsInv
<1>2. PICK f : Judges(tree, ec, Len(tree), f) /\ Evaluate(tree, ec) = f[Len(tree)]
  BY <1>1, EvaluateJudges
<1> QED
  BY <1>1, <1>2, TreeStaysValid, TreeIsSound

\* Fail-closed, for trees of any depth: a condition that passed validation never fails as
\* malformed, and no verdict rests on a leaf that could not be evaluated (rules.go:550-555).
THEOREM VerdictsAreAlwaysSound == ConditionsSpec => []VerdictsAreSound
<1>1. ConditionsInv => VerdictsAreSound
  BY SoundTrees
<1> QED
  BY <1>1, ConditionsStart, ConditionsStepInv, PTL DEF ConditionsSpec

------------------------------------------------------------------------------------
\* The services together, for the instance of MCServices: a step is a step of each or leaves it
\* alone.
LEMMA EachServiceAlone ==
  ASSUME [ServicesNext]_<<service, absenceVars, tree, hookVars, syncVars, ledgerVars, memberVars,
                          metricsVars, orderVars, payrollVars, activeVars>>
  PROVE  /\ [AbsenceStep]_absenceVars /\ [ConditionsNext]_tree /\ [HookNext]_hookVars
         /\ [SyncStep]_syncVars /\ [LedgerStep]_ledgerVars /\ [MemberNext]_memberVars
         /\ [MetricsNext]_metricsVars /\ [OrdersStep]_orderVars /\ [PayrollStep]_payrollVars
         /\ [ActiveStep]_activeVars
BY Zenon DEF ServicesNext, Still

\* The invariants of all of them.
ServicesInv ==
    /\ AbsenceInv /\ ConditionsInv /\ HookInv /\ SyncInv /\ LedgerInv /\ MemberInv
    /\ MetricsInv /\ OrdersInv /\ PayrollInv /\ PayrollTyped /\ ActiveInv

\* They hold together.
LEMMA ServicesAlways == ServicesSpec => []ServicesInv
<1>1. ServicesInit => ServicesInv
  BY AbsencesStart, ConditionsStart, HookStarts, SyncStarts, LedgerStarts, MembersStart,
     MetricsStart, OrdersStart, PayrollStarts, ActiveInitInv DEF ServicesInit, ServicesInv
<1>2. ServicesInv /\ [ServicesNext]_<<service, absenceVars, tree, hookVars, syncVars, ledgerVars,
                                      memberVars, metricsVars, orderVars, payrollVars, activeVars>>
        => ServicesInv'
  <2> SUFFICES ASSUME ServicesInv,
                      [ServicesNext]_<<service, absenceVars, tree, hookVars, syncVars, ledgerVars,
                                       memberVars, metricsVars, orderVars, payrollVars, activeVars>>
               PROVE  ServicesInv'
    OBVIOUS
  <2>1. AbsenceInv' /\ ConditionsInv' /\ HookInv' /\ SyncInv' /\ LedgerInv'
    BY EachServiceAlone, AbsenceStepInv, ConditionsStepInv, HookStepInv, SyncStepInv, LedgerKeeps
       DEF ServicesInv
  <2>2. MemberInv' /\ MetricsInv' /\ OrdersInv' /\ PayrollInv' /\ PayrollTyped' /\ ActiveInv'
    BY EachServiceAlone, MemberStepInv, MetricsStepInv, OrdersStepInv, PayrollStepInv,
       PayrollStepTyped, ActiveStepInv DEF ServicesInv
  <2> QED
    BY <2>1, <2>2 DEF ServicesInv
<1> QED
  BY <1>1, <1>2, PTL DEF ServicesSpec

\* Side by side every service keeps its types and what its own theorem says of it, with that
\* theorem's exceptions: no metric twice, or lost while no write failed; no false news; closed
\* periods that match the books unless an entry call crossed the closing; answers that are backed;
\* balanced sheets when nothing was committed under them; one entity that pulls created per key
\* unless an owner changed the first one's email; sound verdicts.
THEOREM ServicesHold ==
  ServicesSpec => [](/\ ServicesTypeOK /\ EachMetricOnce /\ OnlyTrueNews /\ ClosedBooksMatch
                     /\ AnswerIsBacked /\ QuietSheetBalances /\ OnePerKey /\ VerdictsAreSound)
<1>1. ServicesInv => ServicesTypeOK
  BY DEF ServicesInv, ServicesTypeOK, AbsenceInv, HookInv, SyncInv, LedgerInv, MemberInv,
         MetricsInv, OrdersInv, PayrollTyped, ActiveInv
<1>2. ServicesInv => EachMetricOnce /\ OnlyTrueNews /\ ClosedBooksMatch /\ AnswerIsBacked /\ OnePerKey
  BY DEF ServicesInv, MetricsInv, EachMetricOnce, HookInv, PayrollInv, ClosedBooksMatch,
         PeriodBooks, AbsenceInv, SyncInv
<1>3. ServicesInv => QuietSheetBalances /\ VerdictsAreSound
  BY LedgerTells, SoundTrees DEF ServicesInv
<1> QED
  BY <1>1, <1>2, <1>3, ServicesAlways, PTL

\* Nor does an invite let two people in, a deal's terminal stage change, or an order's terminal
\* status unless two of its updates raced, an order number go missing, or a version go off without
\* a rival or a word to its owner (SoftDelete, UpdateBudget, ApproveBudget).
THEOREM ServicesSteps == ServicesSpec => OneJoinsPerInvite /\ OrdersInOrder /\ NoGap
<1> DEFINE Joins == [\A i \in Invites : joined'[i] # joined[i] =>
                        joined[i] = {} /\ invite[i].status = "pending"]_memberVars
           Closed == [\A d \in Documents : Terminal(d) /\ d \notin raced' => status'[d] = status[d]]_orderVars
           Told == [\A v \in Versions : version[v] = "active" /\ version'[v] # "active" =>
                        v \in told' \/ \E w \in RivalsOf(v) : version'[w] = "active"]_activeVars
<1>1. ServicesInv => OrderNumbersGapless
  BY DEF ServicesInv, OrdersInv, NumbersOK, OrdersMade, OrderNumbersGapless
<1>2. ServicesInv /\ [ServicesNext]_<<service, absenceVars, tree, hookVars, syncVars, ledgerVars,
                                      memberVars, metricsVars, orderVars, payrollVars, activeVars>>
        => Joins /\ Closed /\ Told
  BY EachServiceAlone, OneJoin, ClosedStays, GapIsTold DEF ServicesInv
<1> QED
  BY <1>1, <1>2, ServicesAlways, PTL
     DEF ServicesSpec, OneJoinsPerInvite, OrdersInOrder, ClosedStaysClosed, NoGap
=====================================================================================
