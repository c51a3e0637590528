------------------------------ MODULE BackgroundProofs ------------------------------
(* Proofs about what goes on in the background of a server: the rule scheduler, rule       *)
(* cascades, daily reminders, edge agents, Audit Mode's feed and scheduled reports.  What   *)
(* must come about in the end is left to the model checker; here is what must never        *)
(* happen, whatever fails and in whichever order things come.  Each service is proved for   *)
(* all its constants; the last section puts them together for the instance of MCBackground. *)
EXTENDS MCBackground, SumLemmas

------------------------------------------------------------------------------------
\* What Without leaves: the recursion has a solution, and it keeps exactly what is not gone, in
\* one place each if it was so.
Keeps(s, gone, n, f) ==
    f = [k \in 0 .. n |-> IF k = 0 THEN <<>>
                          ELSE IF s[k] \in gone THEN f[k - 1] ELSE Append(f[k - 1], s[k])]

\* Without as a choice of a function, which other lemmas can reason about.
LEMMA WithoutIs ==
  ASSUME NEW s, NEW gone
  PROVE  Without(s, gone) = (CHOOSE f : Keeps(s, gone, Len(s), f))[Len(s)]
BY DEF Without, Keeps

\* The recursion of Without has a solution, of any length.
LEMMA KeepsExists ==
  ASSUME NEW s, NEW gone, NEW m \in Nat
  PROVE  \E f : Keeps(s, gone, m, f)
<1> DEFINE N == {n \in Nat : \E f : Keeps(s, gone, n, f)}
<1>1. 0 \in N
  <2>1. Keeps(s, gone, 0, [k \in 0 .. 0 |-> <<>>])
    BY DEF Keeps
  <2> QED
    BY <2>1
<1>2. ASSUME NEW n \in Nat, n \in N
      PROVE  n + 1 \in N
  <2>1. PICK f : Keeps(s, gone, n, f)
    BY <1>2
  <2> DEFINE next == IF s[n + 1] \in gone THEN f[n] ELSE Append(f[n], s[n + 1])
             g == [k \in 0 .. n + 1 |-> IF k = n + 1 THEN next ELSE f[k]]
  <2>2. \A k \in 0 .. n : g[k] = f[k] /\ k # n + 1
    OBVIOUS
  <2>3. \A k \in 0 .. n + 1 :
            g[k] = IF k = 0 THEN <<>>
                   ELSE IF s[k] \in gone THEN g[k - 1] ELSE Append(g[k - 1], s[k])
    <3> SUFFICES ASSUME NEW k \in 0 .. n + 1
                 PROVE  g[k] = IF k = 0 THEN <<>>
                               ELSE IF s[k] \in gone THEN g[k - 1] ELSE Append(g[k - 1], s[k])
      OBVIOUS
    <3>1. CASE k = n + 1
      <4>1. g[k] = next /\ k # 0 /\ k - 1 = n /\ g[n] = f[n]
        BY <2>2, <3>1
      <4> QED
        BY <3>1, <4>1
    <3>2. CASE k \in 0 .. n
      <4>1. f[k] = IF k = 0 THEN <<>>
                   ELSE IF s[k] \in gone THEN f[k - 1] ELSE Append(f[k - 1], s[k])
        BY <2>1, <3>2 DEF Keeps
      <4>2. k # 0 => g[k - 1] = f[k - 1]
        BY <2>2, <3>2
      <4>3. g[k] = f[k]
        BY <2>2, <3>2
      <4> QED
        BY <4>1, <4>2, <4>3
    <3> QED
      BY <3>1, <3>2
  <2>4. Keeps(s, gone, n + 1, g)
    <3>1. g = [k \in 0 .. n + 1 |-> g[k]]
      OBVIOUS
    <3> HIDE DEF g
    <3> QED
      BY <2>3, <3>1 DEF Keeps
  <2> QED
    BY <2>4
<1> HIDE DEF N
<1>3. m \in N
  BY <1>1, <1>2, NatSet
<1> QED
  BY <1>3 DEF N

\* Every element of a sequence has one place in it.
OnePlace(s) == \A j, k \in DOMAIN s : s[j] = s[k] => j = k

\* What a prefix of s leaves.
Left(S, s, gone, n, t) ==
    /\ t \in Seq(S)
    /\ \A j \in 1 .. Len(t) : t[j] \notin gone /\ \E k \in 1 .. n : t[j] = s[k]
    /\ \A k \in 1 .. n : s[k] \in gone \/ \E j \in 1 .. Len(t) : t[j] = s[k]
    /\ OnePlace(s) => OnePlace(t)

\* One more element: it is left unless it is gone.
LEMMA LeftGrows ==
  ASSUME NEW S, NEW s \in Seq(S), NEW gone, NEW n \in Nat, n + 1 <= Len(s), NEW t, Left(S, s, gone, n, t)
  PROVE  Left(S, s, gone, n + 1, IF s[n + 1] \in gone THEN t ELSE Append(t, s[n + 1]))
<1>1. CASE s[n + 1] \in gone
  BY <1>1 DEF Left
<1>2. CASE s[n + 1] \notin gone
  <2> DEFINE u == Append(t, s[n + 1])
  <2>1. s[n + 1] \in S /\ n + 1 \in DOMAIN s
    OBVIOUS
  <2>2. /\ u \in Seq(S) /\ Len(u) = Len(t) + 1 /\ u[Len(t) + 1] = s[n + 1]
        /\ \A j \in 1 .. Len(t) : u[j] = t[j]
    BY <2>1 DEF Left
  <2> HIDE DEF u
  <2>3. Len(t) \in Nat
    BY DEF Left
  <2>4. ASSUME NEW j \in 1 .. Len(u)
        PROVE  u[j] \notin gone /\ \E k \in 1 .. n + 1 : u[j] = s[k]
    <3>1. CASE j = Len(t) + 1
      BY <1>2, <2>2, <3>1
    <3>2. CASE j \in 1 .. Len(t)
      <4>1. PICK k \in 1 .. n : t[j] = s[k]
        BY <3>2 DEF Left
      <4>2. u[j] = t[j] /\ t[j] \notin gone /\ k \in 1 .. n + 1
        BY <2>2, <3>2 DEF Left
      <4> QED
        BY <4>1, <4>2
    <3> QED
      BY <2>2, <2>3, <3>1, <3>2
  <2>5. ASSUME NEW k \in 1 .. n + 1, s[k] \notin gone
        PROVE  \E j \in 1 .. Len(u) : u[j] = s[k]
    <3>1. CASE k = n + 1
      BY <2>2, <2>3, <3>1
    <3>2. CASE k \in 1 .. n
      <4>1. PICK j \in 1 .. Len(t) : t[j] = s[k]
        BY <2>5, <3>2 DEF Left
      <4>2. j \in 1 .. Len(u) /\ u[j] = t[j]
        BY <2>2, <2>3
      <4> QED
        BY <4>1, <4>2
    <3> QED
      BY <3>1, <3>2
  <2>6. ASSUME OnePlace(s), NEW j \in DOMAIN u, NEW k \in DOMAIN u, u[j] = u[k]
        PROVE  j = k
    <3>1. \A i \in 1 .. Len(t) : t[i] # s[n + 1]
      BY <2>1, <2>6 DEF Left, OnePlace
    <3>2. OnePlace(t) /\ DOMAIN t = 1 .. Len(t) /\ DOMAIN u = 1 .. Len(u)
      BY <2>2, <2>6 DEF Left
    <3> QED
      BY <2>2, <2>3, <2>6, <3>1, <3>2 DEF OnePlace
  <2>7. Left(S, s, gone, n + 1, u)
    BY <2>2, <2>4, <2>5, <2>6 DEF Left, OnePlace
  <2> QED
    BY <1>2, <2>7 DEF u
<1> QED
  BY <1>1, <1>2

\* DELETE ... WHERE: the rows that are left are those that are not gone, each in one place.
LEMMA WithoutLeaves ==
  ASSUME NEW S, NEW s \in Seq(S), NEW gone
  PROVE  /\ Without(s, gone) \in Seq(S)
         /\ Range(Without(s, gone)) = Range(s) \ gone
         /\ OnePlace(s) => OnePlace(Without(s, gone))
<1>0. Len(s) \in Nat
  OBVIOUS
<1>1. PICK f : Keeps(s, gone, Len(s), f) /\ Without(s, gone) = f[Len(s)]
  BY <1>0, KeepsExists, WithoutIs
<1> DEFINE N == {n \in Nat : n <= Len(s) => Left(S, s, gone, n, f[n])}
<1>2. 0 \in N
  <2>1. f[0] = <<>>
    BY <1>0, <1>1 DEF Keeps
  <2>2. <<>> \in Seq(S) /\ Len(<<>>) = 0 /\ DOMAIN <<>> = {}
    OBVIOUS
  <2>3. Left(S, s, gone, 0, <<>>)
    BY <2>2 DEF Left, OnePlace
  <2> QED
    BY <2>1, <2>3
<1>3. ASSUME NEW n \in Nat, n \in N
      PROVE  n + 1 \in N
  <2> SUFFICES ASSUME n + 1 <= Len(s) PROVE Left(S, s, gone, n + 1, f[n + 1])
    OBVIOUS
  <2>1. Left(S, s, gone, n, f[n])
    BY <1>0, <1>3
  <2>2. f[n + 1] = IF s[n + 1] \in gone THEN f[n] ELSE Append(f[n], s[n + 1])
    <3>1. n + 1 \in 0 .. Len(s) /\ n + 1 # 0 /\ (n + 1) - 1 = n
      BY <1>0
    <3> QED
      BY <1>1, <3>1 DEF Keeps
  <2> QED
    BY <2>1, <2>2, LeftGrows
<1>4. Left(S, s, gone, Len(s), f[Len(s)])
  <2> HIDE DEF N
  <2>1. Len(s) \in N
    BY <1>0, <1>2, <1>3, NatSet
  <2> QED
    BY <1>0, <2>1 DEF N
<1> DEFINE t == f[Len(s)]
<1>5. DOMAIN t = 1 .. Len(t) /\ DOMAIN s = 1 .. Len(s)
  BY <1>4 DEF Left
<1>6. Range(t) = Range(s) \ gone
  <2> HIDE DEF t
  <2>1. Left(S, s, gone, Len(s), t)
    BY <1>4 DEF t
  <2> QED
    BY <1>5, <2>1 DEF Left, Range
<1> QED
  BY <1>1, <1>4, <1>6 DEF Left

\* The schedule.  A pending run is of a rule that is there, in one place, and a rule has one at
\* most.  What the poller has listed are runs of the rules they are listed with, each once, none
\* of them put off, and none that is over while its rule is there: so the run that RunRule
\* inserts follows the one that goes.  A steady rule is there, fit, and has a run ahead, and it
\* is not its run that is to be marked as failed.
Belong(ru, o, l, d) ==
    /\ ru \in [Rules -> Row \cup {None, Deleted}]
    /\ o \in [Runs -> Rules \cup {None}]
    /\ l \subseteq Runs /\ d \subseteq Runs
    /\ \A n \in l \cup d : o[n] \in Rules /\ ru[o[n]] \notin {None, Deleted}

Queued(o, l, d) ==
    /\ \A n \in l : n \notin d
    /\ \A m, n \in l \cup d : o[m] = o[n] => m = n

Batched(held, ru, o, l, d) ==
    /\ \A k \in DOMAIN held :
        /\ held[k][1] \in Runs /\ held[k][2] \in Rules
        /\ o[held[k][1]] = held[k][2] /\ held[k][1] \notin l
        /\ ru[held[k][2]] # None
        /\ ru[held[k][2]] # Deleted => held[k][1] \in d
    /\ \A j, k \in DOMAIN held : held[j][1] = held[k][1] => j = k

Steadily(st, ru, o, l, d) ==
    \A r \in st : /\ r \in Rules /\ ru[r] \in Row /\ ru[r]["enabled"] /\ ru[r]["actions"]
                  /\ \E n \in l \cup d : o[n] = r

\* The rest, about each variable for itself.
DueOK(s) == s \in Seq(Runs) /\ OnePlace(s)
BatchOK(held) == held \in Seq(Runs \X Rules) /\ Len(held) <= Cap
BrokenOK(br, held, st) == br \in BOOLEAN /\ (br => held # <<>> /\ held[1][2] \notin st)
OthersOK(e, f) == e \in [Owners -> Edit \cup {None}] /\ f \in 0 .. Faults

SchedulerInv ==
    /\ Belong(rule, of, later, Range(due)) /\ Queued(of, later, Range(due))
    /\ Batched(batch, rule, of, later, Range(due))
    /\ Steadily(steady, rule, of, later, Range(due))
    /\ DueOK(due) /\ BatchOK(batch) /\ BrokenOK(broken, batch, steady) /\ OthersOK(edit, faults)

\* Facts about sequences: adding a run, and dropping the first of the batch.
LEMMA AppendRange ==
  ASSUME NEW s, DueOK(s), NEW x \in Runs, x \notin Range(s)
  PROVE  DueOK(Append(s, x)) /\ Range(Append(s, x)) = Range(s) \cup {x}
<1> DEFINE t == Append(s, x)
<1>0. s \in Seq(Runs)
  BY DEF DueOK
<1>1. t \in Seq(Runs) /\ DOMAIN t = 1 .. Len(s) + 1 /\ t[Len(s) + 1] = x /\ \A k \in 1 .. Len(s) : t[k] = s[k]
  BY <1>0
<1>2. DOMAIN s = 1 .. Len(s) /\ Len(s) \in Nat
  BY <1>0
<1> HIDE DEF t
<1>3. Range(t) = Range(s) \cup {x}
  <2>1. \A y \in Range(t) : y \in Range(s) \cup {x}
    BY <1>1, <1>2 DEF Range
  <2>2. \A y \in Range(s) : y \in Range(t)
    BY <1>1, <1>2 DEF Range
  <2>3. x \in Range(t)
    BY <1>1, <1>2 DEF Range
  <2> QED
    BY <2>1, <2>2, <2>3
<1>4. OnePlace(t)
  BY <1>1, <1>2 DEF DueOK, OnePlace, Range
<1> QED
  BY <1>1, <1>3, <1>4 DEF t, DueOK

\* The queue after a DELETE is still a queue, without the runs deleted.
LEMMA WithoutDue ==
  ASSUME NEW s, DueOK(s), NEW gone
  PROVE  DueOK(Without(s, gone)) /\ Range(Without(s, gone)) = Range(s) \ gone
BY WithoutLeaves DEF DueOK

\* The rest of a sequence has its elements one place further on.
LEMMA TailPlaces ==
  ASSUME NEW S, NEW s \in Seq(S), s # <<>>
  PROVE  /\ Tail(s) \in Seq(S) /\ Len(Tail(s)) = Len(s) - 1
         /\ 1 \in DOMAIN s /\ Head(s) = s[1]
         /\ \A k \in DOMAIN Tail(s) : k \in Nat /\ k + 1 \in DOMAIN s /\ k + 1 # 1 /\ Tail(s)[k] = s[k + 1]
         /\ \A j, k \in DOMAIN Tail(s) : j + 1 = k + 1 => j = k
OBVIOUS

\* The batch without its first run, whatever becomes of that.
LEMMA BatchTail ==
  ASSUME NEW held, BatchOK(held), held # <<>>, NEW ru, NEW o, NEW l, NEW d, Batched(held, ru, o, l, d)
  PROVE  /\ BatchOK(Tail(held))
         /\ Head(held) = held[1] /\ Head(held)[1] \in Runs /\ Head(held)[2] \in Rules
         /\ o[Head(held)[1]] = Head(held)[2] /\ Head(held)[1] \notin l
         /\ ru[Head(held)[2]] # None
         /\ ru[Head(held)[2]] # Deleted => Head(held)[1] \in d
         /\ \A k \in DOMAIN Tail(held) : Tail(held)[k][1] # Head(held)[1]
         /\ Batched(Tail(held), ru, o, l, d \ {Head(held)[1]})
<1>1. held \in Seq(Runs \X Rules) /\ Len(held) <= Cap /\ Len(held) \in Nat
  BY DEF BatchOK
<1> DEFINE t == Tail(held)
           B == Runs \X Rules
<1>2. /\ t \in Seq(B) /\ Len(t) = Len(held) - 1
      /\ 1 \in DOMAIN held /\ Head(held) = held[1]
      /\ \A k \in DOMAIN t : k \in Nat /\ k + 1 \in DOMAIN held /\ k + 1 # 1 /\ t[k] = held[k + 1]
      /\ \A j, k \in DOMAIN t : j + 1 = k + 1 => j = k
  <2> HIDE DEF B
  <2>1. held \in Seq(B)
    BY <1>1 DEF B
  <2> QED
    BY <2>1, TailPlaces
<1>3. BatchOK(t)
  BY <1>1, <1>2, CapAssumption DEF BatchOK
<1> HIDE DEF t
<1>4. \A k \in DOMAIN t : t[k][1] # Head(held)[1]
  BY <1>2 DEF Batched
<1>5. Batched(t, ru, o, l, d \ {Head(held)[1]})
  BY <1>2, <1>4 DEF Batched
<1> QED
  BY <1>2, <1>3, <1>4, <1>5 DEF t, Batched

\* What is meant by it all.
LEMMA InvMeans ==
  ASSUME SchedulerInv
  PROVE  SchedulerTypeOK /\ OneRunAhead
<1> USE DEF SchedulerInv, Exists, Pending, Ahead
<1>1. SchedulerTypeOK
  <2>1. \A n \in Pending : of[n] \in Rules /\ Exists(of[n])
    BY DEF Belong
  <2>2. steady \subseteq Rules
    BY DEF Steadily
  <2> QED
    BY <2>1, <2>2, Zenon DEF SchedulerTypeOK, Belong, DueOK, BatchOK, BrokenOK, OthersOK
<1>2. ASSUME NEW r \in Rules
      PROVE  Cardinality(Ahead(r)) <= 1
  <2>1. CASE Ahead(r) = {}
    BY <2>1, FS_EmptySet
  <2>2. CASE Ahead(r) # {}
    <3>1. PICK n : n \in Ahead(r)
      BY <2>2
    <3>2. Ahead(r) = {n}
      BY <3>1 DEF Queued
    <3> QED
      BY <3>2, FS_Singleton
  <2> QED
    BY <2>1, <2>2
<1>3. \A r \in steady : Ahead(r) # {}
  BY DEF Steadily
<1> QED
  BY <1>1, <1>2, <1>3 DEF OneRunAhead

\* A new run is nobody else's.
LEMMA InsertRunFacts ==
  ASSUME SchedulerInv, NEW r \in Rules, InsertRun(r)
  PROVE  \E n \in Runs : /\ n \notin later \cup Range(due) /\ \A k \in DOMAIN batch : batch[k][1] # n
                         /\ of' = [of EXCEPT ![n] = r] /\ later' = later \cup {n}
<1> DEFINE n == CHOOSE n \in Fresh : TRUE
<1>1. n \in Fresh
  BY DEF InsertRun
<1>2. of' = [of EXCEPT ![n] = r] /\ later' = later \cup {n}
  BY DEF InsertRun
<1>3. n \in Runs /\ n \notin later \cup Range(due) /\ \A k \in DOMAIN batch : batch[k][1] # n
  BY <1>1 DEF Fresh, Pending
<1> HIDE DEF n
<1> QED
  BY <1>2, <1>3

\* The schedule with a run more, of a rule that has none ahead.
Schedule(ru, o, l, d, held, st) ==
    Belong(ru, o, l, d) /\ Queued(o, l, d) /\ Batched(held, ru, o, l, d) /\ Steadily(st, ru, o, l, d)

Inserts(o, l, d, held, r, p, m) ==
    \E n \in Runs : /\ n \notin l \cup d /\ \A k \in DOMAIN held : held[k][1] # n
                    /\ p = [o EXCEPT ![n] = r] /\ m = l \cup {n}

\* A run that InsertRun adds, for a rule with none ahead, leaves the schedule in order and
\* gives the rule its run ahead.
LEMMA NewRun ==
  ASSUME NEW ru, NEW o, NEW l, NEW d, NEW held, NEW st, Schedule(ru, o, l, d, held, st),
         NEW r \in Rules, ru[r] \notin {None, Deleted}, \A q \in l \cup d : o[q] # r,
         NEW p, NEW m, Inserts(o, l, d, held, r, p, m)
  PROVE  Schedule(ru, p, m, d, held, st) /\ \E q \in m : p[q] = r
<1> USE DEF Schedule
<1>0. PICK n \in Runs : /\ n \notin l \cup d /\ \A k \in DOMAIN held : held[k][1] # n
                        /\ p = [o EXCEPT ![n] = r] /\ m = l \cup {n}
  BY DEF Inserts
<1>1. p \in [Runs -> Rules \cup {None}] /\ p[n] = r /\ \A q \in Runs \ {n} : p[q] = o[q]
  BY <1>0 DEF Belong
<1>2. \A q \in l \cup d : p[q] = o[q] /\ p[q] # r /\ q # n
  BY <1>0, <1>1 DEF Belong
<1>3. Belong(ru, p, m, d)
  BY <1>0, <1>1, <1>2 DEF Belong
<1>4. Queued(p, m, d)
  BY <1>0, <1>1, <1>2 DEF Queued
<1>5. Batched(held, ru, p, m, d)
  BY <1>0, <1>1 DEF Batched
<1>6. Steadily(st, ru, p, m, d)
  BY <1>0, <1>2 DEF Steadily
<1> QED
  BY <1>0, <1>1, <1>3, <1>4, <1>5, <1>6

\* A rule's columns after a patch.
LEMMA PatchedRow ==
  ASSUME NEW e \in Edit
  PROVE  [c \in Columns |-> IF c \in DOMAIN e.set THEN e.set[c] ELSE e.read[c]] \in Row
<1>1. e.read \in Row /\ e.set \in Patch
  BY DEF Edit
<1>2. PICK C \in SUBSET Columns : e.set \in [C -> BOOLEAN]
  BY <1>1 DEF Patch
<1> QED
  BY <1>1, <1>2 DEF Row

\* The owners' steps.
LEMMA CreateKeeps ==
  ASSUME SchedulerInv, NEW r \in Rules, NEW row \in Row, CreateRule(r, row)
  PROVE  SchedulerInv'
<1> DEFINE D == Range(due)
           ru == [rule EXCEPT ![r] = row]
           st == IF row["enabled"] /\ row["actions"] THEN steady \cup {r} ELSE steady
<1>0. /\ Belong(rule, of, later, D) /\ Queued(of, later, D) /\ Batched(batch, rule, of, later, D)
      /\ Steadily(steady, rule, of, later, D) /\ DueOK(due) /\ BatchOK(batch)
      /\ BrokenOK(broken, batch, steady) /\ OthersOK(edit, faults)
  BY DEF SchedulerInv
<1>1. /\ rule[r] = None /\ rule' = ru /\ steady' = st /\ InsertRun(r)
      /\ UNCHANGED <<faults, due, batch, broken, edit>>
  BY DEF CreateRule, poller
<1>2. PICK n \in Runs : /\ n \notin later \cup D /\ \A k \in DOMAIN batch : batch[k][1] # n
                        /\ of' = [of EXCEPT ![n] = r] /\ later' = later \cup {n}
  BY <1>1, InsertRunFacts
<1>3. ru \in [Rules -> Row \cup {None, Deleted}] /\ ru[r] = row /\ \A q \in Rules \ {r} : ru[q] = rule[q]
  BY <1>0 DEF Belong
<1>4. row \notin {None, Deleted}
  BY ColumnsAssumption
<1>5. \A m \in later \cup D : of[m] \in Rules \ {r}
  BY <1>0, <1>1 DEF Belong
<1>6. \A k \in DOMAIN batch : batch[k][2] \in Rules \ {r}
  BY <1>0, <1>1 DEF Batched
<1> HIDE DEF ru, D
<1>7. Belong(ru, of, later, D)
  BY <1>0, <1>3, <1>5 DEF Belong
<1>8. Batched(batch, ru, of, later, D)
  BY <1>0, <1>3, <1>6 DEF Batched
<1>9. r \notin steady /\ Steadily(steady, ru, of, later, D)
  BY <1>0, <1>1, <1>3, ColumnsAssumption DEF Steadily
<1>10. \A m \in later \cup D : of[m] # r
  BY <1>5
<1>11. /\ Belong(ru, of', later', D) /\ Queued(of', later', D) /\ Batched(batch, ru, of', later', D)
       /\ Steadily(steady, ru, of', later', D) /\ \E m \in later' : of'[m] = r
  <2>1. Schedule(ru, of, later, D, batch, steady)
    BY <1>0, <1>7, <1>8, <1>9 DEF Schedule
  <2>2. Inserts(of, later, D, batch, r, of', later')
    BY <1>2 DEF Inserts
  <2>3. ru[r] \notin {None, Deleted}
    BY <1>3, <1>4
  <2>4. Schedule(ru, of', later', D, batch, steady) /\ \E m \in later' : of'[m] = r
    BY <1>10, <2>1, <2>2, <2>3, NewRun
  <2> QED
    BY <2>4 DEF Schedule
<1>12. Steadily(st, ru, of', later', D)
  BY <1>3, <1>11 DEF Steadily
<1>13. BrokenOK(broken, batch, st)
  <2>1. batch # <<>> => 1 \in DOMAIN batch
    BY <1>0 DEF BatchOK
  <2> QED
    BY <1>0, <1>6, <2>1 DEF BrokenOK
<1> QED
  BY <1>0, <1>1, <1>11, <1>12, <1>13 DEF SchedulerInv, D

\* An owner writes a patch back (UpdateRuleForFirm): the rule stays, or is gone already.
LEMMA PatchKeeps ==
  ASSUME SchedulerInv, NEW w \in Owners, WritePatch(w)
  PROVE  SchedulerInv'
<1> DEFINE D == Range(due)
           e == edit[w]
           new == [c \in Columns |-> IF c \in DOMAIN e.set THEN e.set[c] ELSE e.read[c]]
           ru == IF Exists(e.rule) THEN [rule EXCEPT ![e.rule] = new] ELSE rule
           st == IF new["enabled"] /\ new["actions"] THEN steady ELSE steady \ {e.rule}
<1>0. /\ Belong(rule, of, later, D) /\ Queued(of, later, D) /\ Batched(batch, rule, of, later, D)
      /\ Steadily(steady, rule, of, later, D) /\ DueOK(due) /\ BatchOK(batch)
      /\ BrokenOK(broken, batch, steady) /\ OthersOK(edit, faults)
  BY DEF SchedulerInv
<1>1. /\ e # None /\ edit' = [edit EXCEPT ![w] = None] /\ rule' = ru /\ steady' = st
      /\ UNCHANGED <<faults, of, later, due, batch, broken>>
  BY DEF WritePatch, runs, poller
<1>2. e \in Edit
  BY <1>0, <1>1 DEF OthersOK
<1>3. new \in Row /\ e.rule \in Rules
  BY <1>2, PatchedRow DEF Edit
<1> HIDE DEF new, e
<1>4. /\ ru \in [Rules -> Row \cup {None, Deleted}]
      /\ \A q \in Rules \ {e.rule} : ru[q] = rule[q]
      /\ \A q \in Rules : /\ ru[q] = None <=> rule[q] = None
                          /\ ru[q] = Deleted <=> rule[q] = Deleted
      /\ Exists(e.rule) => ru[e.rule] = new
  BY <1>0, <1>3, ColumnsAssumption DEF Belong, Exists
<1> HIDE DEF ru, D
<1>5. Belong(ru, of, later, D)
  BY <1>0, <1>4 DEF Belong
<1>6. Batched(batch, ru, of, later, D)
  BY <1>0, <1>4 DEF Batched
<1>7. Steadily(st, ru, of, later, D)
  <2> SUFFICES ASSUME NEW r \in st
               PROVE  /\ r \in Rules /\ ru[r] \in Row /\ ru[r]["enabled"] /\ ru[r]["actions"]
                      /\ \E n \in later \cup D : of[n] = r
    BY DEF Steadily
  <2>1. r \in steady /\ r \in Rules /\ rule[r] \in Row /\ rule[r]["enabled"] /\ rule[r]["actions"]
    BY <1>0 DEF Steadily
  <2>2. \E n \in later \cup D : of[n] = r
    BY <1>0, <2>1 DEF Steadily
  <2>3. CASE r = e.rule
    <3>1. new["enabled"] /\ new["actions"]
      BY <2>3
    <3>2. Exists(e.rule)
      BY <2>1, <2>3, ColumnsAssumption DEF Exists
    <3> QED
      BY <1>3, <1>4, <2>1, <2>2, <2>3, <3>1, <3>2
  <2>4. CASE r # e.rule
    BY <1>4, <2>1, <2>2, <2>4
  <2> QED
    BY <2>3, <2>4
<1>8. BrokenOK(broken, batch, st) /\ OthersOK(edit', faults)
  BY <1>0, <1>1 DEF BrokenOK, OthersOK
<1> QED
  BY <1>0, <1>1, <1>5, <1>6, <1>7, <1>8 DEF SchedulerInv, D

\* An owner deletes a rule, and its runs with it.
LEMMA DeleteKeeps ==
  ASSUME SchedulerInv, NEW r \in Rules, DeleteRule(r)
  PROVE  SchedulerInv'
<1> DEFINE D == Range(due)
           E == D \ {n \in Runs : of[n] = r}
           ru == [rule EXCEPT ![r] = Deleted]
           l == {n \in later : of[n] # r}
<1>0. /\ Belong(rule, of, later, D) /\ Queued(of, later, D) /\ Batched(batch, rule, of, later, D)
      /\ Steadily(steady, rule, of, later, D) /\ DueOK(due) /\ BatchOK(batch)
      /\ BrokenOK(broken, batch, steady) /\ OthersOK(edit, faults)
  BY DEF SchedulerInv
<1>1. /\ Exists(r) /\ rule' = ru /\ later' = l /\ due' = Without(due, {n \in Runs : of[n] = r})
      /\ steady' = steady \ {r} /\ UNCHANGED <<faults, of, batch, broken, edit>>
  BY DEF DeleteRule, poller
<1>2. DueOK(due') /\ Range(due') = E
  BY <1>0, <1>1, WithoutDue
<1>3. /\ ru \in [Rules -> Row \cup {None, Deleted}] /\ ru[r] = Deleted
      /\ \A q \in Rules \ {r} : ru[q] = rule[q]
  BY <1>0 DEF Belong
<1> HIDE DEF ru
<1>4. Belong(ru, of, l, E) /\ Queued(of, l, E)
  BY <1>0, <1>3 DEF Belong, Queued
<1>5. Batched(batch, ru, of, l, E)
  BY <1>0, <1>3, ColumnsAssumption DEF Batched
<1>6. Steadily(steady \ {r}, ru, of, l, E)
  BY <1>0, <1>3 DEF Steadily, Belong
<1>7. BrokenOK(broken, batch, steady \ {r})
  BY <1>0 DEF BrokenOK
<1> QED
  BY <1>0, <1>1, <1>2, <1>4, <1>5, <1>6, <1>7 DEF SchedulerInv

\* The poller's steps.
LEMMA DueKeeps ==
  ASSUME SchedulerInv, NEW n \in Runs, BecomeDue(n)
  PROVE  SchedulerInv'
<1> DEFINE D == Range(due)
<1>0. /\ Belong(rule, of, later, D) /\ Queued(of, later, D) /\ Batched(batch, rule, of, later, D)
      /\ Steadily(steady, rule, of, later, D) /\ DueOK(due) /\ BatchOK(batch)
      /\ BrokenOK(broken, batch, steady) /\ OthersOK(edit, faults)
  BY DEF SchedulerInv
<1>1. /\ n \in later /\ later' = later \ {n} /\ due' = Append(due, n)
      /\ UNCHANGED <<faults, rule, of, batch, broken, edit, steady>>
  BY DEF BecomeDue, poller
<1>2. DueOK(due') /\ Range(due') = D \cup {n}
  BY <1>0, <1>1, AppendRange DEF Queued
<1> HIDE DEF D
<1>3. Belong(rule, of, later \ {n}, D \cup {n}) /\ Queued(of, later \ {n}, D \cup {n})
  BY <1>0, <1>1 DEF Belong, Queued
<1>4. Batched(batch, rule, of, later \ {n}, D \cup {n})
  BY <1>0, <1>1 DEF Batched
<1>5. Steadily(steady, rule, of, later \ {n}, D \cup {n})
  BY <1>0, <1>1 DEF Steadily
<1> QED
  BY <1>0, <1>1, <1>2, <1>3, <1>4, <1>5 DEF SchedulerInv

\* The poller lists what is due, at most Cap runs, each of a rule that is there.
LEMMA ListKeeps ==
  ASSUME SchedulerInv, List
  PROVE  SchedulerInv'
<1> DEFINE D == Range(due)
           c == Sooner(Cap, Len(due))
           held == [k \in 1 .. c |-> <<due[k], of[due[k]]>>]
<1>0. /\ Belong(rule, of, later, D) /\ Queued(of, later, D) /\ DueOK(due) /\ BrokenOK(broken, batch, steady)
      /\ Steadily(steady, rule, of, later, D) /\ OthersOK(edit, faults)
  BY DEF SchedulerInv
<1>1. /\ batch = <<>> /\ batch' = held
      /\ UNCHANGED <<faults, rule, of, later, due, broken, edit, steady>>
  BY DEF List, runs
<1>2. c \in Nat /\ c <= Cap /\ 1 .. c \subseteq DOMAIN due
  BY <1>0, CapAssumption DEF Sooner, DueOK
<1>3. \A k \in 1 .. c : due[k] \in D /\ due[k] \in Runs
  BY <1>0, <1>2 DEF Range, Belong
<1> HIDE DEF c, D
<1>4. \A k \in 1 .. c : of[due[k]] \in Rules /\ rule[of[due[k]]] \notin {None, Deleted} /\ due[k] \notin later
  BY <1>0, <1>3 DEF Belong, Queued
<1>5. Batched(held, rule, of, later, D)
  BY <1>0, <1>2, <1>3, <1>4 DEF Batched, DueOK, OnePlace
<1>6. BatchOK(held)
  <2>1. \A k \in 1 .. c : <<due[k], of[due[k]]>> \in Runs \X Rules
    BY <1>3, <1>4
  <2> QED
    BY <1>2, <2>1 DEF BatchOK
<1>7. BrokenOK(broken, held, steady)
  BY <1>0, <1>1 DEF BrokenOK
<1> QED
  BY <1>0, <1>1, <1>5, <1>6, <1>7 DEF SchedulerInv, D

\* The poller runs a rule: the run that is inserted follows the one that goes.
LEMMA RunKeeps ==
  ASSUME SchedulerInv, RunRule
  PROVE  SchedulerInv'
<1> DEFINE D == Range(due)
           n == Head(batch)[1]
           r == Head(batch)[2]
           E == D \ {n}
<1>0. /\ Belong(rule, of, later, D) /\ Queued(of, later, D) /\ Batched(batch, rule, of, later, D)
      /\ Steadily(steady, rule, of, later, D) /\ DueOK(due) /\ BatchOK(batch)
      /\ BrokenOK(broken, batch, steady) /\ OthersOK(edit, faults)
  BY DEF SchedulerInv
<1>1. /\ batch # <<>> /\ ~broken /\ Fit(r) /\ due' = Without(due, {n}) /\ batch' = Tail(batch)
      /\ UNCHANGED <<faults, rule, broken, edit, steady>>
  BY DEF RunRule
<1>2. DueOK(due') /\ Range(due') = E
  BY <1>0, <1>1, WithoutDue
<1>3. /\ BatchOK(batch') /\ n \in Runs /\ r \in Rules /\ of[n] = r /\ n \notin later
      /\ Head(batch) = batch[1]
      /\ (rule[r] # Deleted => n \in D)
      /\ \A k \in DOMAIN Tail(batch) : Tail(batch)[k][1] # n
      /\ Batched(Tail(batch), rule, of, later, E)
  BY <1>0, <1>1, BatchTail
<1>4. rule[r] \in Row /\ rule[r] \notin {None, Deleted} /\ n \in D
  BY <1>0, <1>1, <1>3 DEF Fit, Exists, Belong
<1> HIDE DEF n, r, D
<1>5. Belong(rule, of, later, E) /\ Queued(of, later, E)
  BY <1>0 DEF Belong, Queued
<1>6. \A m \in later \cup E : of[m] # r
  BY <1>0, <1>3, <1>4 DEF Queued
<1>7. Steadily(steady \ {r}, rule, of, later, E)
  BY <1>0, <1>3 DEF Steadily
<1>8. BrokenOK(broken, batch', steady)
  BY <1>0, <1>1 DEF BrokenOK
<1>9. CASE rule[r]["actions"]
  <2>1. InsertRun(r)
    BY <1>9 DEF RunRule, n, r
  <2>2. PICK m \in Runs : /\ m \notin later \cup D /\ \A k \in DOMAIN batch : batch[k][1] # m
                          /\ of' = [of EXCEPT ![m] = r] /\ later' = later \cup {m}
    BY <1>3, <2>1, InsertRunFacts DEF D
  <2>3. \A k \in DOMAIN Tail(batch) : Tail(batch)[k][1] # m
    <3>1. batch \in Seq(Runs \X Rules)
      BY <1>0 DEF BatchOK
    <3>2. \A k \in DOMAIN Tail(batch) : k + 1 \in DOMAIN batch /\ Tail(batch)[k] = batch[k + 1]
      BY <1>1, <3>1, TailPlaces
    <3> QED
      BY <2>2, <3>2
  <2>4. m \notin later \cup E
    BY <2>2
  <2>5. /\ Belong(rule, of', later', E) /\ Queued(of', later', E)
        /\ Batched(Tail(batch), rule, of', later', E)
        /\ Steadily(steady \ {r}, rule, of', later', E) /\ \E p \in later' : of'[p] = r
    <3>1. Schedule(rule, of, later, E, Tail(batch), steady \ {r})
      BY <1>3, <1>5, <1>7 DEF Schedule
    <3>2. Inserts(of, later, E, Tail(batch), r, of', later')
      BY <2>2, <2>3, <2>4 DEF Inserts
    <3> HIDE DEF E
    <3>3. Schedule(rule, of', later', E, Tail(batch), steady \ {r}) /\ \E p \in later' : of'[p] = r
      BY <1>3, <1>4, <1>6, <3>1, <3>2, NewRun
    <3> QED
      BY <3>3 DEF Schedule
  <2>6. Steadily(steady, rule, of', later', E)
    BY <1>0, <2>5 DEF Steadily
  <2> QED
    BY <1>0, <1>1, <1>2, <1>3, <1>8, <2>5, <2>6 DEF SchedulerInv
<1>10. CASE ~rule[r]["actions"]
  <2>1. UNCHANGED <<of, later>>
    BY <1>10 DEF RunRule, n, r
  <2>2. r \notin steady
    BY <1>0, <1>10 DEF Steadily
  <2>3. Steadily(steady, rule, of, later, E)
    BY <1>7, <2>2 DEF Steadily
  <2> QED
    BY <1>0, <1>1, <1>2, <1>3, <1>5, <1>8, <2>1, <2>3 DEF SchedulerInv
<1> QED
  BY <1>9, <1>10

\* The poller marks a run as failed: its rule has no run ahead any more, and is not steady.
LEMMA MarkKeeps ==
  ASSUME SchedulerInv, MarkFailed
  PROVE  SchedulerInv'
<1> DEFINE D == Range(due)
           n == Head(batch)[1]
           r == Head(batch)[2]
           E == D \ {n}
<1>0. /\ Belong(rule, of, later, D) /\ Queued(of, later, D) /\ Batched(batch, rule, of, later, D)
      /\ Steadily(steady, rule, of, later, D) /\ DueOK(due) /\ BatchOK(batch)
      /\ BrokenOK(broken, batch, steady) /\ OthersOK(edit, faults)
  BY DEF SchedulerInv
<1>1. /\ broken /\ broken' = FALSE /\ due' = Without(due, {n}) /\ batch' = Tail(batch)
      /\ UNCHANGED <<faults, rule, of, later, edit, steady>>
  BY DEF MarkFailed
<1>2. DueOK(due') /\ Range(due') = E
  BY <1>0, <1>1, WithoutDue
<1>3. batch # <<>> /\ batch[1][2] \notin steady
  BY <1>0, <1>1 DEF BrokenOK
<1>4. /\ BatchOK(batch') /\ of[n] = r /\ Head(batch) = batch[1]
      /\ Batched(Tail(batch), rule, of, later, E)
  BY <1>0, <1>1, <1>3, BatchTail
<1>5. r \notin steady
  BY <1>3, <1>4
<1> HIDE DEF n, r, D
<1>6. Belong(rule, of, later, E) /\ Queued(of, later, E)
  BY <1>0 DEF Belong, Queued
<1>7. Steadily(steady, rule, of, later, E)
  BY <1>0, <1>4, <1>5 DEF Steadily
<1>8. BrokenOK(FALSE, batch', steady)
  BY DEF BrokenOK
<1> QED
  BY <1>0, <1>1, <1>2, <1>4, <1>6, <1>7, <1>8 DEF SchedulerInv

\* Every step keeps the invariant.
LEMMA SchedulerStepInv == SchedulerInv /\ [SchedulerNext]_schedulerVars => SchedulerInv'
<1> SUFFICES ASSUME SchedulerInv, [SchedulerNext]_schedulerVars PROVE SchedulerInv'
  OBVIOUS
<1> DEFINE D == Range(due)
<1>0. /\ Belong(rule, of, later, D) /\ Queued(of, later, D) /\ Batched(batch, rule, of, later, D)
      /\ Steadily(steady, rule, of, later, D) /\ DueOK(due) /\ BatchOK(batch)
      /\ BrokenOK(broken, batch, steady) /\ OthersOK(edit, faults)
  BY DEF SchedulerInv
<1>1. ASSUME NEW r \in Rules, NEW w \in Owners, NEW p \in Patches, ReadForPatch(w, r, p)
      PROVE  SchedulerInv'
  <2>1. OthersOK(edit', faults)
    <3>1. rule[r] \in Row /\ p \in Patch
      BY <1>0, <1>1, PatchesAssumption DEF ReadForPatch, Exists, Belong
    <3>2. [rule |-> r, read |-> rule[r], set |-> p] \in Edit
      BY <3>1 DEF Edit
    <3> QED
      BY <1>0, <1>1, <3>2 DEF ReadForPatch, OthersOK
  <2> QED
    BY <1>0, <1>1, <2>1 DEF SchedulerInv, ReadForPatch, runs, poller
<1>2. CASE RuleUnfit
  <2>1. Head(batch) = batch[1] /\ batch # <<>>
    BY <1>0, <1>2, BatchTail DEF RuleUnfit
  <2>2. batch[1][2] \notin steady
    BY <1>0, <1>2, <2>1, ColumnsAssumption DEF RuleUnfit, Fit, Exists, Steadily
  <2>3. BrokenOK(TRUE, batch, steady)
    BY <2>1, <2>2 DEF BrokenOK
  <2> QED
    BY <1>0, <1>2, <2>3 DEF SchedulerInv, RuleUnfit, runs
<1>3. CASE RunFails
  <2>1. Head(batch) = batch[1] /\ batch # <<>>
    BY <1>0, <1>3, BatchTail DEF RunFails
  <2>2. steady' = steady \ {batch[1][2]} /\ UNCHANGED <<rule, of, later, due, batch, edit>> /\ broken' = TRUE
    BY <1>3, <2>1 DEF RunFails, runs
  <2>3. BrokenOK(TRUE, batch, steady') /\ Steadily(steady', rule, of, later, D)
    BY <1>0, <2>1, <2>2 DEF BrokenOK, Steadily
  <2>4. OthersOK(edit, faults')
    BY <1>0, <1>3, FaultsAssumption DEF RunFails, OthersOK
  <2> QED
    BY <1>0, <2>2, <2>3, <2>4 DEF SchedulerInv
<1>4. CASE MarkLost
  <2>1. batch # <<>>
    BY <1>0, <1>4 DEF MarkLost, BrokenOK
  <2>2. BatchOK(Tail(batch)) /\ Batched(Tail(batch), rule, of, later, D \ {Head(batch)[1]})
    BY <1>0, <2>1, BatchTail
  <2>3. Batched(Tail(batch), rule, of, later, D)
    BY <2>2 DEF Batched
  <2>4. OthersOK(edit, faults') /\ BrokenOK(FALSE, Tail(batch), steady)
    BY <1>0, <1>4, FaultsAssumption DEF MarkLost, OthersOK, BrokenOK
  <2> QED
    BY <1>0, <1>4, <2>2, <2>3, <2>4 DEF SchedulerInv, MarkLost, runs
<1>5. CASE Restart
  <2>1. OthersOK(edit, faults') /\ BrokenOK(FALSE, <<>>, steady)
    BY <1>0, <1>5, FaultsAssumption DEF Restart, OthersOK, BrokenOK
  <2>2. <<>> \in Seq(Runs \X Rules) /\ Len(<<>>) = 0 /\ DOMAIN <<>> = {}
    OBVIOUS
  <2>3. BatchOK(<<>>) /\ Batched(<<>>, rule, of, later, D)
    BY <2>2, CapAssumption DEF BatchOK, Batched
  <2> QED
    BY <1>0, <1>5, <2>1, <2>3 DEF SchedulerInv, Restart, runs
<1>6. CASE UNCHANGED schedulerVars
  BY <1>0, <1>6 DEF SchedulerInv, schedulerVars
<1> QED
  BY <1>1, <1>2, <1>3, <1>4, <1>5, <1>6, CreateKeeps, PatchKeeps, DeleteKeeps, DueKeeps, ListKeeps, RunKeeps,
     MarkKeeps DEF SchedulerNext, Poll

\* At first there are no rules and no runs.
LEMMA SchedulerStarts == SchedulerInit => SchedulerInv
<1> SUFFICES ASSUME SchedulerInit PROVE SchedulerInv
  OBVIOUS
<1>1. <<>> \in Seq(Runs) /\ <<>> \in Seq(Runs \X Rules) /\ Len(<<>>) = 0 /\ DOMAIN <<>> = {}
  OBVIOUS
<1>2. Range(<<>>) = {}
  BY <1>1 DEF Range
<1>3. DueOK(<<>>) /\ BatchOK(<<>>)
  BY <1>1, CapAssumption DEF DueOK, OnePlace, BatchOK
<1>4. Batched(<<>>, rule, of, later, {})
  BY <1>1 DEF Batched
<1>5. Belong(rule, of, later, {}) /\ Queued(of, later, {}) /\ Steadily({}, rule, of, later, {})
  BY DEF SchedulerInit, Belong, Queued, Steadily
<1>6. BrokenOK(FALSE, <<>>, {}) /\ OthersOK(edit, 0)
  BY FaultsAssumption DEF SchedulerInit, BrokenOK, OthersOK
<1> QED
  BY <1>2, <1>3, <1>4, <1>5, <1>6 DEF SchedulerInit, SchedulerInv

\* A rule never has two runs ahead, and a steady one never none.
THEOREM SchedulesKept == SchedulerSpec => [](SchedulerTypeOK /\ OneRunAhead)
<1>1. SchedulerInv => SchedulerTypeOK /\ OneRunAhead
  BY InvMeans
<1> QED
  BY <1>1, SchedulerStarts, SchedulerStepInv, PTL DEF SchedulerSpec

------------------------------------------------------------------------------------
\* Rule cascades: a call knows of every rule that was enabled and autonomous since its commit, so
\* of those its listing has found autonomous, and acts for no other.
FrameInv(f, fl) ==
    /\ f \in Frame
    /\ FitNow(fl) \subseteq f.fit
    /\ ~f.listed => f.act = 0
    /\ \A r \in DOMAIN f.rules : f.rules[r] => r \in f.fit
    /\ f.act > 0 => /\ DOMAIN f.rules # {} /\ f.rules[First(f.rules)]
                    /\ f.act <= Len(Shape[First(f.rules)].acts) + 1

StackInv(s, fl) ==
    s \in Seq(Frame) /\ Len(s) <= MaxDepth /\ \A k \in DOMAIN s : FrameInv(s[k], fl)

CascadeInv ==
    /\ inst \in Instance \cup {Nothing}
    /\ flags \in [CascadeRules -> Flags \cup {Nothing}]
    /\ expired \subseteq Callers
    /\ stack \in [Callers -> Seq(Frame)]
    /\ \A c \in Callers : StackInv(stack[c], flags) /\ (stack[c] # <<>> => inst # Nothing)

\* The first of a set of positions, so the first of the rules left.
LEMMA LeastPlace ==
  ASSUME NEW S, S \subseteq Nat, S # {}
  PROVE  \E k \in S : \A j \in S : ~(j < k)
<1>1. PICK k \in S : \A j \in S : ~ (<<j, k>> \in OpToRel(<, Nat))
  BY NatLessThanWellFounded, WFMin, Zenon
<1>2. \A j \in S : ~(j < k)
  BY <1>1, Zenon DEF OpToRel
<1> QED
  BY <1>2

\* The first rule in order of creation is one of the rules.
LEMMA FirstIn ==
  ASSUME NEW f, DOMAIN f \subseteq CascadeRules, DOMAIN f # {}
  PROVE  First(f) \in DOMAIN f
<1> DEFINE S == {k \in DOMAIN RuleSeq : RuleSeq[k] \in DOMAIN f}
<1>1. DOMAIN RuleSeq \subseteq Nat
  BY ShapeAssumption
<1>2. S # {} /\ S \subseteq Nat
  BY <1>1 DEF CascadeRules, Range
<1>3. PICK k \in S : \A j \in S : ~(j < k)
  BY <1>2, LeastPlace
<1>4. \E i \in DOMAIN RuleSeq : /\ RuleSeq[i] \in DOMAIN f
                                /\ \A j \in DOMAIN RuleSeq : j < i => RuleSeq[j] \notin DOMAIN f
  BY <1>3
<1> QED
  BY <1>4 DEF First

\* A call's rules.
LEMMA FrameFacts ==
  ASSUME NEW f \in Frame
  PROVE  /\ DOMAIN f.rules \subseteq CascadeRules /\ f.rules \in [DOMAIN f.rules -> BOOLEAN]
         /\ f.act \in Nat /\ f.fit \subseteq CascadeRules /\ f.listed \in BOOLEAN
         /\ f.mark \in BOOLEAN /\ f.trigger \in {"on_create", "on_transition"}
<1>1. f.rules \in UNION {[R -> BOOLEAN] : R \in SUBSET CascadeRules}
  BY DEF Frame
<1>2. PICK R \in SUBSET CascadeRules : f.rules \in [R -> BOOLEAN]
  BY <1>1
<1> QED
  BY <1>2 DEF Frame

\* The listings of a call are functions from some of the rules.
LEMMA RulesTyped ==
  ASSUME NEW R, R \subseteq CascadeRules, NEW g \in [R -> BOOLEAN]
  PROVE  g \in UNION {[Q -> BOOLEAN] : Q \in SUBSET CascadeRules}
OBVIOUS

\* The stack without its innermost call, with that call changed, or with one more.
LEMMA StackMoves ==
  ASSUME NEW fl, NEW s, StackInv(s, fl), s # <<>>
  PROVE  /\ FrameInv(Last(s), fl) /\ StackInv(Front(s), fl)
         /\ \A g : FrameInv(g, fl) => /\ StackInv(Append(Front(s), g), fl)
                                      /\ Append(Front(s), g) # <<>>
<1>1. s \in Seq(Frame) /\ Len(s) <= MaxDepth /\ Len(s) \in Nat \ {0} /\ DOMAIN s = 1 .. Len(s)
  BY DEF StackInv
<1>2. FrameInv(Last(s), fl)
  BY <1>1 DEF StackInv, Last
<1> DEFINE t == Front(s)
<1>3. t \in Seq(Frame) /\ Len(t) = Len(s) - 1 /\ \A k \in 1 .. Len(t) : t[k] = s[k]
  BY <1>1 DEF Front
<1> HIDE DEF t
<1>4. Len(t) \in Nat /\ DOMAIN t = 1 .. Len(t) /\ 1 .. Len(t) \subseteq 1 .. Len(s)
  BY <1>1, <1>3
<1>5. \A k \in DOMAIN t : FrameInv(t[k], fl)
  BY <1>1, <1>3, <1>4 DEF StackInv
<1>6. StackInv(t, fl)
  BY <1>1, <1>3, <1>4, <1>5, DepthAssumption DEF StackInv
<1>7. ASSUME NEW g, FrameInv(g, fl)
      PROVE  StackInv(Append(t, g), fl) /\ Append(t, g) # <<>>
  <2>1. g \in Frame
    BY <1>7 DEF FrameInv
  <2> DEFINE u == Append(t, g)
  <2>2. /\ u \in Seq(Frame) /\ Len(u) = Len(t) + 1 /\ DOMAIN u = 1 .. Len(t) + 1
        /\ u[Len(t) + 1] = g /\ \A k \in 1 .. Len(t) : u[k] = t[k]
    BY <1>3, <2>1
  <2> HIDE DEF u
  <2>3. \A k \in DOMAIN u : FrameInv(u[k], fl)
    BY <1>4, <1>5, <1>7, <2>2
  <2>4. Len(u) <= MaxDepth /\ u # <<>>
    BY <1>1, <1>3, <1>4, <2>2, DepthAssumption
  <2> QED
    BY <2>2, <2>3, <2>4 DEF u, StackInv
<1> QED
  BY <1>2, <1>6, <1>7 DEF t

\* A call within a call; beyond MaxDepth the outermost one is forgotten.
LEMMA DeeperKeeps ==
  ASSUME NEW fl, NEW s, StackInv(s, fl), s # <<>>, NEW g, FrameInv(g, fl)
  PROVE  StackInv(Deeper(s, g), fl) /\ Deeper(s, g) # <<>>
<1>1. s \in Seq(Frame) /\ Len(s) <= MaxDepth /\ Len(s) \in Nat \ {0} /\ DOMAIN s = 1 .. Len(s)
  BY DEF StackInv
<1>2. g \in Frame
  BY DEF FrameInv
<1>3. PICK t : /\ t \in Seq(Frame) /\ Len(t) < MaxDepth /\ Deeper(s, g) = Append(t, g)
               /\ \A k \in DOMAIN t : FrameInv(t[k], fl)
  <2>1. CASE Len(s) < MaxDepth
    BY <1>1, <2>1 DEF Deeper, StackInv
  <2>2. CASE ~(Len(s) < MaxDepth)
    <3> DEFINE t == Tail(s)
    <3>1. /\ t \in Seq(Frame) /\ Len(t) = Len(s) - 1 /\ DOMAIN t = 1 .. Len(s) - 1
          /\ \A k \in DOMAIN t : t[k] = s[k + 1] /\ k + 1 \in DOMAIN s
      BY <1>1
    <3>2. Deeper(s, g) = Append(t, g)
      BY <2>2 DEF Deeper
    <3> HIDE DEF t
    <3>3. \A k \in DOMAIN t : FrameInv(t[k], fl)
      BY <3>1 DEF StackInv
    <3>4. Len(t) < MaxDepth
      BY <1>1, <3>1, DepthAssumption
    <3> QED
      BY <3>1, <3>2, <3>3, <3>4
  <2> QED
    BY <2>1, <2>2
<1> DEFINE u == Append(t, g)
<1>4. /\ u \in Seq(Frame) /\ Len(u) = Len(t) + 1 /\ DOMAIN u = 1 .. Len(t) + 1 /\ Len(t) \in Nat
      /\ DOMAIN t = 1 .. Len(t)
      /\ u[Len(t) + 1] = g /\ \A k \in 1 .. Len(t) : u[k] = t[k]
  BY <1>2, <1>3
<1> HIDE DEF u
<1>5. \A k \in DOMAIN u : FrameInv(u[k], fl)
  BY <1>3, <1>4
<1>6. Len(u) <= MaxDepth /\ u # <<>>
  BY <1>3, <1>4, DepthAssumption
<1> QED
  BY <1>3, <1>4, <1>5, <1>6 DEF u, StackInv

\* The innermost call changes: its rules are listed, the first is done with, or an action follows.
LEMMA ListedFrame ==
  ASSUME NEW fl \in [CascadeRules -> Flags \cup {Nothing}], NEW f, FrameInv(f, fl), ~f.listed,
         NEW Q, Q \subseteq {r \in CascadeRules : fl[r] # Nothing /\ fl[r].enabled}
  PROVE  FrameInv([f EXCEPT !.listed = TRUE, !.rules = [r \in Q |-> fl[r].autonomous]], fl)
<1> DEFINE g == [r \in Q |-> fl[r].autonomous]
           h == [f EXCEPT !.listed = TRUE, !.rules = g]
<1>1. \A r \in Q : fl[r] \in Flags
  OBVIOUS
<1>2. g \in [Q -> BOOLEAN] /\ DOMAIN g = Q
  BY <1>1 DEF Flags
<1>3. \A r \in Q : g[r] => r \in FitNow(fl)
  BY DEF FitNow
<1> HIDE DEF g
<1>4. f \in Frame
  BY DEF FrameInv
<1>5. h \in Frame /\ h.rules = g /\ h.act = f.act /\ h.fit = f.fit /\ h.listed
  BY <1>2, <1>4, RulesTyped DEF Frame
<1> QED
  BY <1>2, <1>3, <1>5 DEF FrameInv, g

\* The first rule is done with.
LEMMA NextFrame ==
  ASSUME NEW fl, NEW f, FrameInv(f, fl)
  PROVE  FrameInv([f EXCEPT !.rules = Restrict(@, DOMAIN @ \ {First(@)}), !.act = 0], fl)
<1> DEFINE Q == DOMAIN f.rules \ {First(f.rules)}
           g == [r \in Q |-> f.rules[r]]
           h == [f EXCEPT !.rules = Restrict(@, DOMAIN @ \ {First(@)}), !.act = 0]
<1>1. f \in Frame /\ DOMAIN f.rules \subseteq CascadeRules /\ f.rules \in [DOMAIN f.rules -> BOOLEAN]
  BY FrameFacts DEF FrameInv
<1>2. g \in [Q -> BOOLEAN] /\ Q \subseteq CascadeRules /\ \A r \in Q : g[r] = f.rules[r] /\ r \in DOMAIN f.rules
  BY <1>1
<1>3. h = [f EXCEPT !.rules = g, !.act = 0]
  BY <1>1 DEF Restrict, Frame
<1> HIDE DEF g, Q, h
<1>4. h \in Frame /\ h.rules = g /\ h.act = 0 /\ h.fit = f.fit
  BY <1>1, <1>2, <1>3, RulesTyped DEF Frame
<1>5. DOMAIN g = Q
  BY DEF g
<1> QED
  BY <1>2, <1>4, <1>5 DEF FrameInv, h

\* The next action of the first rule.
LEMMA ActingFrame ==
  ASSUME NEW fl, NEW f, FrameInv(f, fl), f.listed, DOMAIN f.rules # {}, f.rules[First(f.rules)],
         f.act <= Len(Shape[First(f.rules)].acts)
  PROVE  FrameInv([f EXCEPT !.act = @ + 1], fl)
<1> DEFINE h == [f EXCEPT !.act = @ + 1]
<1>1. f \in Frame /\ f.act \in Nat
  BY FrameFacts DEF FrameInv
<1>2. h \in Frame /\ h.rules = f.rules /\ h.act = f.act + 1 /\ h.fit = f.fit /\ h.listed = f.listed
  <2>1. f.act + 1 \in Nat
    BY <1>1
  <2>2. \A n \in Nat : /\ [f EXCEPT !.act = n] \in Frame /\ [f EXCEPT !.act = n].rules = f.rules
                        /\ [f EXCEPT !.act = n].act = n /\ [f EXCEPT !.act = n].fit = f.fit
                        /\ [f EXCEPT !.act = n].listed = f.listed
    BY <1>1 DEF Frame
  <2> QED
    BY <2>1, <2>2
<1>3. Len(Shape[First(f.rules)].acts) \in Nat
  <2>1. First(f.rules) \in CascadeRules
    BY <1>1, FirstIn, FrameFacts
  <2> QED
    BY <2>1, ShapeAssumption
<1> HIDE DEF h
<1>4. h.act <= Len(Shape[First(h.rules)].acts) + 1
  BY <1>1, <1>2, <1>3
<1> QED
  BY <1>2, <1>4 DEF FrameInv, h

\* A call that has just begun has no rules yet and knows of those that are fit now.
LEMMA CalledFrame ==
  ASSUME NEW trigger \in {"on_create", "on_transition"}, NEW mark \in BOOLEAN
  PROVE  FrameInv(Call(trigger, mark), flags)
<1>1. NoRules \in UNION {[Q -> BOOLEAN] : Q \in SUBSET CascadeRules} /\ DOMAIN NoRules = {}
  <2>1. NoRules \in [{} -> BOOLEAN] /\ DOMAIN NoRules = {}
    BY DEF NoRules
  <2> QED
    BY <2>1, RulesTyped
<1> HIDE DEF NoRules
<1>2. Call(trigger, mark) \in Frame
  BY <1>1 DEF Call, Frame, FitNow
<1> QED
  BY <1>1, <1>2 DEF FrameInv, Call

\* A request's step changes its own stack, to one whose calls are still as they should be.
LEMMA OwnStack ==
  ASSUME CascadeInv, NEW c \in Callers, NEW s, StackInv(s, flags), stack' = [stack EXCEPT ![c] = s],
         flags' = flags, expired' \subseteq Callers, inst' \in Instance \cup {Nothing},
         inst # Nothing => inst' # Nothing, s # <<>> => inst' # Nothing
  PROVE  CascadeInv'
<1>1. s \in Seq(Frame)
  BY DEF StackInv
<1>2. stack' \in [Callers -> Seq(Frame)] /\ stack'[c] = s /\ \A d \in Callers \ {c} : stack'[d] = stack[d]
  BY <1>1 DEF CascadeInv
<1>3. \A d \in Callers : StackInv(stack'[d], flags) /\ (stack'[d] # <<>> => inst' # Nothing)
  BY <1>2 DEF CascadeInv
<1> QED
  BY <1>2, <1>3 DEF CascadeInv, StackInv, FrameInv

\* The innermost call of a busy request.
LEMMA TopCall ==
  ASSUME CascadeInv, NEW c \in Callers, ~Free(c)
  PROVE  /\ StackInv(stack[c], flags) /\ stack[c] # <<>> /\ FrameInv(Top(c), flags) /\ inst \in Instance
BY StackMoves DEF CascadeInv, Free, Top

\* It is replaced by another.
LEMMA ReplaceKeeps ==
  ASSUME CascadeInv, NEW c \in Callers, ~Free(c), NEW f, FrameInv(f, flags), Replace(c, f),
         UNCHANGED <<flags, expired>>, inst' \in Instance
  PROVE  CascadeInv'
<1> DEFINE s == Append(Front(stack[c]), f)
<1>1. StackInv(s, flags) /\ s # <<>>
  BY TopCall, StackMoves
<1>2. stack' = [stack EXCEPT ![c] = s]
  BY DEF Replace
<1>3. expired' \subseteq Callers /\ inst' # Nothing
  BY NothingAssumption DEF CascadeInv
<1> HIDE DEF s
<1> QED
  BY <1>1, <1>2, <1>3, OwnStack

\* The owner changes a rule: every call remembers it.
LEMMA FlagsKeep ==
  ASSUME CascadeInv, NEW r \in CascadeRules, NEW x \in Flags \cup {Nothing}, SetFlags(r, x)
  PROVE  CascadeInv'
<1> DEFINE fl == [flags EXCEPT ![r] = x]
           Told(f) == [f EXCEPT !.fit = @ \cup FitNow(fl)]
           Heard(s) == [k \in DOMAIN s |-> Told(s[k])]
<1>1. fl \in [CascadeRules -> Flags \cup {Nothing}] /\ FitNow(fl) \subseteq CascadeRules
  BY DEF CascadeInv, FitNow
<1>2. ASSUME NEW f, FrameInv(f, flags)
      PROVE  FrameInv(Told(f), fl)
  <2> DEFINE g == Told(f)
  <2>1. f \in Frame
    BY <1>2 DEF FrameInv
  <2>2. /\ g \in Frame /\ g.fit = f.fit \cup FitNow(fl) /\ g.rules = f.rules /\ g.act = f.act
        /\ g.listed = f.listed
    BY <1>1, <2>1 DEF Frame
  <2> HIDE DEF g, fl
  <2>3. FrameInv(g, fl)
    BY <1>2, <2>2 DEF FrameInv
  <2> QED
    BY <2>3 DEF g
<1> HIDE DEF Told
<1>3. ASSUME NEW s, StackInv(s, flags)
      PROVE  StackInv(Heard(s), fl) /\ (Heard(s) # <<>> => s # <<>>)
  <2> DEFINE t == Heard(s)
  <2>1. s \in Seq(Frame) /\ Len(s) <= MaxDepth /\ DOMAIN s = 1 .. Len(s) /\ Len(s) \in Nat
    BY <1>3 DEF StackInv
  <2>2. \A k \in 1 .. Len(s) : t[k] = Told(s[k]) /\ FrameInv(t[k], fl)
    BY <1>2, <1>3, <2>1 DEF StackInv
  <2>3. \A k \in 1 .. Len(s) : t[k] \in Frame
    BY <2>2 DEF FrameInv
  <2>4. t \in Seq(Frame) /\ Len(t) = Len(s) /\ DOMAIN t = DOMAIN s
    BY <2>1, <2>3
  <2> HIDE DEF t
  <2>5. StackInv(t, fl)
    BY <2>1, <2>2, <2>4 DEF StackInv
  <2>6. t # <<>> => s # <<>>
    BY <2>1, <2>4
  <2> QED
    BY <2>5, <2>6 DEF t
<1> HIDE DEF Heard
<1>4. /\ flags' = fl /\ UNCHANGED <<inst, expired>>
      /\ stack' = [c \in Callers |-> Heard(stack[c])]
  BY DEF SetFlags, Heard, Told
<1>5. \A c \in Callers : StackInv(stack'[c], fl) /\ (stack'[c] # <<>> => inst # Nothing)
  BY <1>3, <1>4 DEF CascadeInv
<1>6. stack' \in [Callers -> Seq(Frame)]
  BY <1>4, <1>5 DEF StackInv
<1> HIDE DEF fl
<1> QED
  BY <1>1, <1>4, <1>5, <1>6 DEF CascadeInv, StackInv, FrameInv

\* An edge leads to a state.
LEMMA Moved ==
  ASSUME CascadeInv, NEW c, NEW action, Move(c, action)
  PROVE  inst \in Instance /\ inst' \in Instance
<1>1. inst \in Instance /\ \E e \in Steps : inst' = [inst EXCEPT !.state = e.to]
  BY DEF Move, CascadeInv
<1>2. \A e \in Steps : e.to \in InStates
  BY DEF InStates
<1> QED
  BY <1>1, <1>2 DEF Instance

\* Every step keeps the invariant.
LEMMA CascadeStepInv == CascadeInv /\ [CascadeNext]_cascadeVars => CascadeInv'
<1> SUFFICES ASSUME CascadeInv, [CascadeNext]_cascadeVars PROVE CascadeInv'
  OBVIOUS
<1>1. ASSUME NEW r \in CascadeRules, CreateCascadeRule(r) \/ PatchCascadeRule(r) \/ DeleteCascadeRule(r)
      PROVE  CascadeInv'
  BY <1>1, FlagsKeep DEF CreateCascadeRule, PatchCascadeRule, DeleteCascadeRule
<1>2. ASSUME NEW f, FrameInv(f, flags)
      PROVE  StackInv(<<f>>, flags)
  <2>1. f \in Frame
    BY <1>2 DEF FrameInv
  <2>2. <<f>> \in Seq(Frame) /\ Len(<<f>>) = 1 /\ DOMAIN <<f>> = {1} /\ <<f>>[1] = f
    BY <2>1
  <2> QED
    BY <1>2, <2>2, DepthAssumption DEF StackInv
<1>3. ASSUME NEW c \in Callers, CreateInstance(c)
      PROVE  CascadeInv'
  <2>1. inst' \in Instance
    BY <1>3 DEF CreateInstance, Instance, InStates
  <2>2. StackInv(<<Call("on_create", FALSE)>>, flags)
    BY <1>2, CalledFrame
  <2>3. stack' = [stack EXCEPT ![c] = <<Call("on_create", FALSE)>>] /\ UNCHANGED <<flags, expired>>
    BY <1>3 DEF CreateInstance
  <2>4. expired' \subseteq Callers /\ inst' # Nothing
    BY <2>1, <2>3, NothingAssumption DEF CascadeInv
  <2> QED
    BY <2>1, <2>2, <2>3, <2>4, OwnStack
<1>4. ASSUME NEW c \in Callers, UserMoves(c)
      PROVE  CascadeInv'
  <2>1. inst \in Instance /\ inst' \in Instance
    BY <1>4, Moved DEF UserMoves
  <2>2. inst.mark \in BOOLEAN
    BY <2>1 DEF Instance
  <2>3. StackInv(<<Call("on_transition", inst.mark)>>, flags)
    BY <1>2, <2>2, CalledFrame
  <2>4. stack' = [stack EXCEPT ![c] = <<Call("on_transition", inst.mark)>>] /\ UNCHANGED <<flags, expired>>
    BY <1>4 DEF UserMoves
  <2>5. expired' \subseteq Callers /\ inst' # Nothing
    BY <2>1, <2>4, NothingAssumption DEF CascadeInv
  <2> QED
    BY <2>1, <2>3, <2>4, <2>5, OwnStack
<1>5. ASSUME NEW c \in Callers, ListRules(c)
      PROVE  CascadeInv'
  <2>1. ~Free(c) /\ FrameInv(Top(c), flags) /\ inst \in Instance /\ ~Top(c).listed
    BY <1>5, TopCall DEF ListRules
  <2>2. FrameInv([Top(c) EXCEPT !.listed = TRUE, !.rules = Listing(c)], flags)
    BY <2>1, ListedFrame DEF CascadeInv, Listing
  <2> QED
    BY <1>5, <2>1, <2>2, ReplaceKeeps DEF ListRules
<1>6. ASSUME NEW c \in Callers, Return(c)
      PROVE  CascadeInv'
  <2>1. StackInv(Front(stack[c]), flags) /\ inst \in Instance
    BY <1>6, TopCall, StackMoves DEF Return
  <2>2. /\ stack' = [stack EXCEPT ![c] = Front(stack[c])] /\ expired' \subseteq Callers
        /\ UNCHANGED <<inst, flags>>
    BY <1>6 DEF Return, CascadeInv
  <2> QED
    BY <2>1, <2>2, NothingAssumption, OwnStack
<1>7. ASSUME NEW c \in Callers, NextRule(c), ~Free(c), UNCHANGED <<inst, flags, expired>>
      PROVE  CascadeInv'
  <2>1. FrameInv(Top(c), flags) /\ inst' \in Instance
    BY <1>7, TopCall
  <2> QED
    BY <1>7, <2>1, NextFrame, ReplaceKeeps DEF NextRule
<1>8. ASSUME NEW c \in Callers, PassOver(c) \/ ActionFails(c) \/ RuleDone(c)
      PROVE  CascadeInv'
  BY <1>7, <1>8 DEF PassOver, ActionFails, RuleDone, Busy, Acting
<1>9. ASSUME NEW c \in Callers, Match(c)
      PROVE  CascadeInv'
  <2>1. /\ ~Free(c) /\ FrameInv(Top(c), flags) /\ inst \in Instance
        /\ Top(c).act = 0 /\ DOMAIN Top(c).rules # {} /\ Top(c).rules[First(Top(c).rules)] /\ Top(c).listed
    BY <1>9, TopCall DEF Match, Busy, Rule
  <2>2. First(Top(c).rules) \in CascadeRules
    BY <2>1, FirstIn, FrameFacts DEF FrameInv
  <2>3. Len(Shape[First(Top(c).rules)].acts) \in Nat
    BY <2>2, ShapeAssumption
  <2>4. FrameInv([Top(c) EXCEPT !.act = 1], flags)
    <3> DEFINE f == Top(c)
               g == [f EXCEPT !.act = 1]
    <3> HIDE DEF f
    <3>1. f \in Frame /\ FrameInv(f, flags)
      BY <2>1 DEF f, FrameInv
    <3>2. g \in Frame /\ g.rules = f.rules /\ g.act = 1 /\ g.fit = f.fit /\ g.listed = f.listed
      BY <3>1 DEF Frame
    <3>3. 1 <= Len(Shape[First(f.rules)].acts) + 1
      BY <2>3 DEF f
    <3> QED
      BY <2>1, <3>1, <3>2, <3>3 DEF FrameInv, f
  <2> QED
    BY <1>9, <2>1, <2>4, ReplaceKeeps DEF Match
<1>10. ASSUME NEW c \in Callers, Acting(c)
       PROVE  ~Free(c) /\ inst \in Instance /\ FrameInv(Advanced(c), flags)
  <2>1. /\ ~Free(c) /\ FrameInv(Top(c), flags) /\ inst \in Instance /\ Top(c).listed
        /\ DOMAIN Top(c).rules # {} /\ Top(c).act \in DOMAIN Shape[First(Top(c).rules)].acts
    BY <1>10, TopCall DEF Acting, Busy, Acts, Rule
  <2>2. First(Top(c).rules) \in CascadeRules
    BY <2>1, FirstIn, FrameFacts DEF FrameInv
  <2>3. Top(c).act > 0 /\ Top(c).act <= Len(Shape[First(Top(c).rules)].acts)
    BY <2>1, <2>2, ShapeAssumption
  <2>4. Top(c).rules[First(Top(c).rules)]
    BY <2>1, <2>3 DEF FrameInv
  <2> QED
    BY <2>1, <2>3, <2>4, ActingFrame DEF Advanced
<1>11. ASSUME NEW c \in Callers, RuleMoves(c)
       PROVE  CascadeInv'
  <2> DEFINE s == Append(Front(stack[c]), Advanced(c))
             f == Call("on_transition", inst.mark)
  <2>1. ~Free(c) /\ inst \in Instance /\ FrameInv(Advanced(c), flags) /\ inst' \in Instance
    BY <1>10, <1>11, Moved DEF RuleMoves
  <2>2. FrameInv(f, flags)
    BY <2>1, CalledFrame DEF Instance
  <2>3. StackInv(s, flags) /\ s # <<>>
    BY <2>1, TopCall, StackMoves
  <2> HIDE DEF f, s
  <2>4. StackInv(Deeper(s, f), flags)
    BY <2>2, <2>3, DeeperKeeps
  <2>5. stack' = [stack EXCEPT ![c] = Deeper(s, f)] /\ UNCHANGED <<flags, expired>>
    BY <1>11 DEF RuleMoves, s, f
  <2>6. expired' \subseteq Callers /\ inst' # Nothing
    BY <2>1, <2>5, NothingAssumption DEF CascadeInv
  <2> QED
    BY <2>1, <2>4, <2>5, <2>6, OwnStack
<1>12. ASSUME NEW c \in Callers, RuleSetsField(c)
       PROVE  CascadeInv'
  <2>1. ~Free(c) /\ inst \in Instance /\ FrameInv(Advanced(c), flags)
    BY <1>10, <1>12 DEF RuleSetsField
  <2>2. inst' \in Instance
    BY <1>12, <2>1 DEF RuleSetsField, Instance
  <2> QED
    BY <1>12, <2>1, <2>2, ReplaceKeeps DEF RuleSetsField
<1>13. ASSUME NEW c \in Callers, Expire(c)
       PROVE  CascadeInv'
  BY <1>13 DEF Expire, CascadeInv, StackInv, FrameInv
<1>14. CASE UNCHANGED cascadeVars
  BY <1>14 DEF cascadeVars, CascadeInv, StackInv, FrameInv
<1> QED
  BY <1>1, <1>3, <1>4, <1>5, <1>6, <1>8, <1>9, <1>11, <1>12, <1>13, <1>14 DEF CascadeNext, Evaluation

\* So it is at first.
LEMMA CascadeStarts == CascadeInit => CascadeInv
<1> SUFFICES ASSUME CascadeInit PROVE CascadeInv
  OBVIOUS
<1>1. <<>> \in Seq(Frame) /\ Len(<<>>) = 0 /\ DOMAIN <<>> = {}
  OBVIOUS
<1>2. StackInv(<<>>, flags)
  BY <1>1, DepthAssumption DEF StackInv
<1> QED
  BY <1>1, <1>2 DEF CascadeInit, CascadeInv

\* The invariant holds throughout.
LEMMA CascadeAlways == CascadeSpec => []CascadeInv
BY CascadeStarts, CascadeStepInv, PTL DEF CascadeSpec

\* It is stronger than the types.
LEMMA CascadeMeans == CascadeInv => CascadeTypeOK
BY DEF CascadeInv, CascadeTypeOK, StackInv, FrameInv

\* Whatever owners do to the rules during a cascade, its calls, at most MaxDepth of them
\* remembered, stay calls with rules that exist in the listing (rules.go:1457-1515).
THEOREM CascadesAreTyped == CascadeSpec => []CascadeTypeOK
BY CascadeMeans, CascadeAlways, PTL

\* A rule that acts is one its call knew to be fit.
LEMMA ActsAreFit ==
  CascadeInv => \A c \in Callers : (RuleMoves(c) \/ RuleSetsField(c)) => Rule(c) \in Top(c).fit
<1>1. ASSUME CascadeInv, NEW c \in Callers, Acting(c)
      PROVE  Rule(c) \in Top(c).fit
  <2>1. /\ FrameInv(Top(c), flags) /\ DOMAIN Top(c).rules # {}
        /\ Top(c).act \in DOMAIN Shape[First(Top(c).rules)].acts
    BY <1>1, TopCall DEF Acting, Busy, Acts, Rule
  <2>2. First(Top(c).rules) \in CascadeRules /\ First(Top(c).rules) \in DOMAIN Top(c).rules
    BY <2>1, FirstIn, FrameFacts DEF FrameInv
  <2>3. Top(c).act > 0
    BY <2>1, <2>2, ShapeAssumption
  <2> QED
    BY <2>1, <2>2, <2>3 DEF FrameInv, Rule
<1> QED
  BY <1>1 DEF RuleMoves, RuleSetsField

\* What an owner has switched off before a commit does not act on it, at any depth of the
\* cascade (rules.go:1457-1475 lists the rules anew after every commit).
THEOREM SwitchedOffStaysStill == CascadeSpec => OffRulesKeepStill
BY ActsAreFit, CascadeAlways, PTL DEF OffRulesKeepStill

------------------------------------------------------------------------------------
\* Daily reminders: what an open transaction adds was not there when it looked, so no date gets
\* a second notification.  Whatever was due at midnight, of a firm nothing went wrong for, has
\* its reminder, or its firm is still to be dealt with by a poll, or is just being dealt with, or
\* the ticker has fired, or will have fired when the day is over.
Accounted(i) ==
    \/ today[i] = 1
    \/ FirmOf[i] \in waiting
    \/ FirmOf[i] \in work.firm /\ i \in work.listed \cup work.added
    \/ clock.fired
    \/ clock.left + clock.part <= interval - 1

RemindersInv ==
    /\ RemindersTypeOK
    /\ \A i \in Items : today[i] <= 1 /\ before[i] <= 1
    /\ \A i \in work.added : (IF work.late THEN before ELSE today)[i] = 0
    /\ work.late => quiet.firms = {}
    /\ quiet.items \subseteq dueItems
    /\ \A i \in quiet.items : FirmOf[i] \in quiet.firms => Accounted(i)

\* The clock of the next part of the day.
LEMMA PartsMove ==
  ASSUME NEW p \in 0 .. Parts - 1
  PROVE  /\ (p + 1) % Parts \in 0 .. Parts - 1
         /\ p = Parts - 1 => (p + 1) % Parts = 0
         /\ p # Parts - 1 => (p + 1) % Parts = p + 1
<1>1. Parts \in Nat \ {0}
  BY RemindersAssumption
<1> QED
  BY <1>1

\* Every step keeps the invariant.
LEMMA RemindersStepInv == RemindersInv /\ [RemindersStep]_reminderVars => RemindersInv'
<1> SUFFICES ASSUME RemindersInv, [RemindersStep]_reminderVars PROVE RemindersInv'
  OBVIOUS
<1> USE RemindersAssumption DEF RemindersInv, RemindersTypeOK, NoWork, NoneSent
<1>1. ASSUME NEW i \in Items, ComesDue(i)
      PROVE  RemindersInv'
  BY <1>1 DEF ComesDue, Accounted
<1>2. ASSUME NEW i \in Items, Settle(i)
      PROVE  RemindersInv'
  BY <1>2 DEF Settle, Accounted
<1>3. ASSUME NEW i \in Items, Remind(i)
      PROVE  RemindersInv'
  <2> DEFINE sent == IF work.late THEN before ELSE today
  <2>1. i \in work.listed /\ sent[i] \in 0 .. 1
    BY <1>3 DEF Remind
  <2>2. \E added \in {work.added, work.added \cup {i}} :
            /\ work' = [work EXCEPT !.listed = @ \ {i}, !.added = added]
            /\ sent[i] > 0 => added = work.added
            /\ ~(sent[i] > 0) => added = work.added \cup {i}
    BY <1>3 DEF Remind, alreadyNotifiedTodayTx
  <2>3. UNCHANGED <<dueItems, interval, clock, waiting, today, before, mishaps, quiet>>
    BY <1>3 DEF Remind
  <2>4. PICK added \in {work.added, work.added \cup {i}} :
            /\ work' = [work EXCEPT !.listed = @ \ {i}, !.added = added]
            /\ sent[i] > 0 => added = work.added
            /\ ~(sent[i] > 0) => added = work.added \cup {i}
    BY <2>2
  <2>5. /\ work' \in [firm : SUBSET Firms, listed : SUBSET Items, added : SUBSET Items, late : BOOLEAN]
        /\ work'.firm = work.firm /\ work'.late = work.late
        /\ work'.listed = work.listed \ {i} /\ work'.added = added
    BY <2>4
  <2>6. RemindersTypeOK'
    BY <2>3, <2>5
  <2>7. \A j \in added : sent[j] = 0
    BY <2>1, <2>4
  <2>8. ASSUME NEW j \in quiet.items, FirmOf[j] \in quiet.firms
        PROVE  Accounted(j)'
    <3>1. Accounted(j)
      BY <2>8
    <3>2. CASE j # i
      BY <2>3, <2>4, <2>5, <3>1, <3>2 DEF Accounted
    <3>3. CASE j = i /\ sent[i] > 0
      <4>1. ~work.late
        BY <2>8
      <4>2. today[i] = 1
        BY <2>1, <3>3, <4>1
      <4> QED
        BY <2>3, <3>3, <4>2 DEF Accounted
    <3>4. CASE j = i /\ ~(sent[i] > 0)
      BY <2>3, <2>4, <2>5, <3>1, <3>4 DEF Accounted
    <3> QED
      BY <3>2, <3>3, <3>4
  <2> QED
    BY <2>3, <2>5, <2>6, <2>7, <2>8
<1>4. ASSUME NEW f \in Firms, StartFirm(f)
      PROVE  RemindersInv'
  BY <1>4 DEF StartFirm, Accounted
<1>5. CASE TimePasses
  <2>1. /\ clock.part \in 0 .. Parts - 1 /\ clock.left \in 1 .. interval /\ clock.fired \in BOOLEAN
        /\ interval \in Nat \ {0}
    OBVIOUS
  <2>2. PICK p \in 0 .. Parts - 1 : p = (clock.part + 1) % Parts
    BY <2>1, PartsMove
  <2>3. PICK l \in 1 .. interval : l = IF clock.left = 1 THEN interval ELSE clock.left - 1
    BY <2>1
  <2>4. PICK f \in BOOLEAN : f = (clock.fired \/ clock.left = 1)
    BY <2>1
  <2>5. clock' = [part |-> p, left |-> l, fired |-> f] /\ UNCHANGED <<dueItems, interval, waiting, mishaps>>
    BY <1>5, <2>2, <2>3, <2>4 DEF TimePasses
  <2>6. clock' \in [part : 0 .. Parts - 1, left : 1 .. interval', fired : BOOLEAN]
    BY <2>5
  <2>7. f \/ l = clock.left - 1
    BY <2>3, <2>4
  <2>8. CASE Midnight
    <3>1. /\ ~work.late
          /\ today' = NoneSent
          /\ before' = IF work = NoWork THEN NoneSent ELSE today
          /\ work' = IF work = NoWork THEN NoWork ELSE [work EXCEPT !.late = TRUE]
          /\ quiet' = [items |-> dueItems, firms |-> IF Polling THEN {} ELSE Firms]
      BY <1>5, <2>8 DEF TimePasses
    <3>2. RemindersTypeOK'
      BY <2>5, <2>6, <3>1
    <3>3. \A i \in Items : today'[i] <= 1 /\ before'[i] <= 1
      BY <3>1
    <3>4. \A i \in work'.added : (IF work'.late THEN before' ELSE today')[i] = 0
      BY <3>1
    <3>5. work'.late => quiet'.firms = {}
      BY <3>1 DEF Polling
    <3>6. clock'.fired \/ clock'.left + clock'.part <= interval' - 1
      <4>1. p = 0
        BY <2>2, <2>8, PartsMove DEF Midnight
      <4>2. f \/ l + p <= interval - 1
        BY <2>1, <2>7, <4>1
      <4> QED
        BY <2>5, <4>2
    <3> QED
      BY <2>5, <3>1, <3>2, <3>3, <3>4, <3>5, <3>6 DEF Accounted
  <2>9. CASE ~Midnight
    <3>1. UNCHANGED <<today, before, work, quiet>>
      BY <1>5, <2>9 DEF TimePasses
    <3>2. p = clock.part + 1
      BY <2>1, <2>2, <2>9, PartsMove DEF Midnight
    <3>3. clock.fired \/ clock.left + clock.part <= interval - 1
            => clock'.fired \/ clock'.left + clock'.part <= interval' - 1
      <4>1. clock.fired \/ clock.left + clock.part <= interval - 1 => f \/ l + p <= interval - 1
        BY <2>1, <2>4, <2>7, <3>2
      <4> QED
        BY <2>5, <4>1
    <3>4. ASSUME NEW i \in Items, Accounted(i) PROVE Accounted(i)'
      BY <2>5, <3>1, <3>3, <3>4 DEF Accounted
    <3> QED
      BY <2>5, <2>6, <3>1, <3>4
  <2> QED
    BY <2>8, <2>9
<1>6. CASE StartPoll
  BY <1>6 DEF StartPoll, Accounted
<1>7. CASE CommitFirm
  BY <1>7 DEF CommitFirm, Accounted, Added
<1>8. CASE FirmFails
  BY <1>8 DEF FirmFails, Accounted
<1>9. CASE PollFails
  <2>1. mishaps' \in 0 .. Mishaps /\ quiet'.firms = {} /\ quiet'.items = quiet.items
    BY <1>9 DEF PollFails
  <2>2. RemindersTypeOK'
    BY <1>9, <2>1 DEF PollFails
  <2> QED
    BY <1>9, <2>1, <2>2 DEF PollFails
<1>10. CASE ServerRestarts
  <2>1. mishaps' \in 0 .. Mishaps /\ quiet'.firms = {} /\ quiet'.items = quiet.items
    BY <1>10 DEF ServerRestarts
  <2>3. interval \in 1 .. interval /\ interval' = interval
    BY <1>10 DEF ServerRestarts
  <2>4. clock' \in [part : 0 .. Parts - 1, left : 1 .. interval', fired : BOOLEAN]
    BY <1>10, <2>3 DEF ServerRestarts
  <2>2. RemindersTypeOK'
    BY <1>10, <2>1, <2>4 DEF ServerRestarts
  <2> QED
    BY <1>10, <2>1, <2>2 DEF ServerRestarts
<1>11. CASE UNCHANGED reminderVars
  BY <1>11 DEF reminderVars, Accounted
<1> QED
  BY <1>1, <1>2, <1>3, <1>4, <1>5, <1>6, <1>7, <1>8, <1>9, <1>10, <1>11 DEF RemindersStep

\* So it is at first.
LEMMA RemindersStart == RemindersInit => RemindersInv
BY RemindersAssumption
   DEF RemindersInit, RemindersInv, RemindersTypeOK, NoWork, NoneSent

\* The invariant holds throughout.
LEMMA RemindersAlways == RemindersSpec => []RemindersInv
BY RemindersStart, RemindersStepInv, PTL DEF RemindersSpec

\* The notifications counted, the firms waiting and the transaction under way have their types.
THEOREM RemindersAreTyped == RemindersSpec => []RemindersTypeOK
<1>1. RemindersInv => RemindersTypeOK
  BY DEF RemindersInv
<1> QED
  BY <1>1, RemindersAlways, PTL

\* At midnight nothing that was due all day lacks its reminder.
LEMMA RemindedByMidnight ==
  RemindersInv =>
    /\ \A i \in Items : today[i] <= 1 /\ before[i] <= 1
    /\ Midnight /\ ~Polling /\ ~clock.fired =>
         \A i \in quiet.items : FirmOf[i] \in quiet.firms => today[i] = 1
BY RemindersAssumption
   DEF RemindersInv, RemindersTypeOK, Accounted, Midnight, Polling, NoWork

\* Owners are told at most once a day, and of everything that was due all day, whatever fails
\* for other firms (asset/scheduler.go:74).
THEOREM RemindersServe == RemindersSpec => OwnersAreReminded
<1>1. RemindersInv =>
        [(Midnight /\ clock'.part # clock.part /\ ~Polling /\ ~clock.fired) =>
             \A i \in quiet.items : FirmOf[i] \in quiet.firms => today[i] = 1]_reminderVars
  BY RemindedByMidnight
<1>2. RemindersInv => \A i \in Items : today[i] <= 1 /\ before[i] <= 1
  BY RemindedByMidnight
<1> QED
  BY <1>1, <1>2, RemindersAlways, PTL DEF OwnersAreReminded

------------------------------------------------------------------------------------
\* Edge agents: type correctness needs facts about the sequences that the stream and the
\* fetched batch are.
LEMMA HeadTail ==
  ASSUME NEW S, NEW s \in Seq(S), s # <<>>
  PROVE  Head(s) \in S /\ Tail(s) \in Seq(S) /\ Len(Tail(s)) = Len(s) - 1
OBVIOUS

\* The first elements of a sequence, and the rest.
LEMMA FirstOnes ==
  ASSUME NEW S, NEW s \in Seq(S), NEW n \in Nat, n <= Len(s)
  PROVE  /\ SubSeq(s, 1, n) \in Seq(S) /\ Len(SubSeq(s, 1, n)) = n
         /\ SubSeq(s, n + 1, Len(s)) \in Seq(S)
OBVIOUS

\* Sequences that grow at either end.
LEMMA Grow ==
  ASSUME NEW S, NEW s \in Seq(S)
  PROVE  /\ <<>> \in Seq(S)
         /\ \A x \in S : Append(s, x) \in Seq(S) /\ <<x>> \o s \in Seq(S)
         /\ \A t \in Seq(S) : t \o s \in Seq(S)
OBVIOUS

\* The types of what concerns commands, and of what concerns events.
CommandsTyped ==
    /\ command \in [Commands -> {"none", "pending", "delivered", "acknowledged"}]
    /\ acker \in [Commands -> Tokens \cup {""}]
    /\ poll \in [Polls -> [token : Tokens, ids : SUBSET Commands] \cup {Idle}]
    /\ \A p \in Polls : \A c \in poll[p].ids : command[c] # "none"
    /\ seen \subseteq Commands

EventsTyped ==
    /\ stream \in Seq(Events \X Tokens)
    /\ pulled \in Seq(Events \X Tokens) /\ Len(pulled) <= Batch
    /\ stored \in [Events -> 0 .. 2]
    /\ rejected \subseteq Events
    /\ troubles \in 0 .. Troubles

TokensTyped ==
    /\ token \in [Tokens -> {"none", "valid", "expired"}]

\* The types of the module are these three.
LEMMA EdgeTypes == EdgeTypeOK <=> CommandsTyped /\ EventsTyped /\ TokensTyped
BY DEF EdgeTypeOK, CommandsTyped, EventsTyped, TokensTyped

\* What a poll, or none, has read are commands.
LEMMA PollIds == Idle.ids = {} /\ \A x \in [token : Tokens, ids : SUBSET Commands] \cup {Idle} : x.ids \subseteq Commands
<1>1. Idle.ids = {}
  BY DEF Idle
<1>2. \A x \in [token : Tokens, ids : SUBSET Commands] : x.ids \subseteq Commands
  OBVIOUS
<1> QED
  BY <1>1, <1>2

\* The commands and their polls.
LEMMA CommandsStepTyped ==
  ASSUME CommandsTyped, [EdgeNext]_edgeVars
  PROVE  CommandsTyped'
<1> USE DEF CommandsTyped
<1>0. (\A p \in Polls : poll[p].ids \subseteq Commands) /\ Idle.ids = {}
  BY PollIds
<1>1. ASSUME NEW t \in Tokens, NEW p \in Polls, PollRead(p, t)
      PROVE  CommandsTyped'
  BY <1>1 DEF PollRead, Idle
<1>2. ASSUME NEW t \in Tokens, NEW c \in Commands, AckCommand(c, t)
      PROVE  CommandsTyped'
  <2>1. command' \in [Commands -> {"none", "pending", "delivered", "acknowledged"}]
    BY <1>2 DEF AckCommand, Acknowledges
  <2>2. \A d \in Commands : command[d] # "none" => command'[d] # "none"
    BY <1>2 DEF AckCommand, Acknowledges
  <2> QED
    BY <1>0, <1>2, <2>1, <2>2 DEF AckCommand, Acknowledges
<1>3. ASSUME NEW c \in Commands, CreateCommand(c)
      PROVE  CommandsTyped'
  <2>1. command' \in [Commands -> {"none", "pending", "delivered", "acknowledged"}]
    BY <1>3 DEF CreateCommand
  <2>2. \A d \in Commands : command[d] # "none" => command'[d] # "none"
    BY <1>3 DEF CreateCommand
  <2> QED
    BY <1>0, <1>3, <2>1, <2>2 DEF CreateCommand
<1>4. ASSUME NEW p \in Polls, PollCommit(p)
      PROVE  CommandsTyped'
  <2>1. command' \in [Commands -> {"none", "pending", "delivered", "acknowledged"}]
    BY <1>4 DEF PollCommit
  <2>2. \A d \in Commands : command[d] # "none" => command'[d] # "none"
    BY <1>4 DEF PollCommit
  <2>3. poll' \in [Polls -> [token : Tokens, ids : SUBSET Commands] \cup {Idle}]
        /\ \A q \in Polls : poll'[q].ids \subseteq poll[q].ids
    BY <1>0, <1>4 DEF PollCommit
  <2>4. seen' \subseteq Commands /\ acker' = acker
    BY <1>0, <1>4 DEF PollCommit
  <2> QED
    BY <1>0, <2>1, <2>2, <2>3, <2>4
<1>5. ASSUME NEW p \in Polls, PollAborts(p)
      PROVE  CommandsTyped'
  BY <1>0, <1>5 DEF PollAborts
<1>6. CASE ServerStops
  BY <1>0, <1>6 DEF ServerStops
<1>7. CASE UNCHANGED commandVars
  BY <1>7 DEF commandVars
<1> QED
  BY <1>1, <1>2, <1>3, <1>4, <1>5, <1>6, <1>7
     DEF EdgeNext, edgeVars, commandVars, Subscriber, Fetch, StoreMessage, RejectMessage, RetryMessage,
         IssueToken, ExpireToken, PostEvent, Publish

\* The stream and the server's subscriber.
LEMMA EventsStepTyped ==
  ASSUME EventsTyped, [EdgeNext]_edgeVars
  PROVE  EventsTyped'
<1> DEFINE M == Events \X Tokens
<1> USE EdgeAssumption DEF EventsTyped
<1>1. ASSUME NEW t \in Tokens, NEW e \in Events, PostEvent(e, t)
      PROVE  EventsTyped'
  <2>1. stored' \in [Events -> 0 .. 2]
    <3>1. stored[e] \in 0 .. 2
      OBVIOUS
    <3>2. \E n \in 0 .. 2 : stored' = [stored EXCEPT ![e] = n]
      <4>1. (IF stored[e] = 2 THEN 2 ELSE stored[e] + 1) \in 0 .. 2
        BY <3>1
      <4> QED
        BY <1>1, <4>1 DEF PostEvent, Record
    <3> QED
      BY <3>2
  <2> QED
    BY <1>1, <2>1 DEF PostEvent
<1>2. ASSUME NEW t \in Tokens, NEW e \in Events, Publish(e, t)
      PROVE  EventsTyped'
  <2>1. stream' \in Seq(M)
    <3>1. <<e, t>> \in M /\ stream \in Seq(M)
      OBVIOUS
    <3>2. stream' = Append(stream, <<e, t>>)
      BY <1>2 DEF Publish
    <3> HIDE DEF M
    <3> QED
      BY <3>1, <3>2, Grow
  <2> QED
    BY <1>2, <2>1 DEF Publish
<1>3. CASE Fetch
  <2> DEFINE n == IF Len(stream) < Batch THEN Len(stream) ELSE Batch
  <2>1. stream \in Seq(M) /\ Len(stream) \in Nat
    OBVIOUS
  <2>2. n \in Nat /\ n <= Len(stream) /\ n <= Batch
    BY <2>1
  <2>3. pulled' = SubSeq(stream, 1, n) /\ stream' = SubSeq(stream, n + 1, Len(stream))
    BY <1>3 DEF Fetch
  <2> HIDE DEF n, M
  <2>4. pulled' \in Seq(M) /\ Len(pulled') <= Batch /\ stream' \in Seq(M)
    BY <2>1, <2>2, <2>3, FirstOnes
  <2> QED
    BY <1>3, <2>4 DEF Fetch, M
<1>4. ASSUME pulled # <<>>
      PROVE  /\ Message[1] \in Events
             /\ Tail(pulled) \in Seq(M) /\ Len(Tail(pulled)) <= Batch
             /\ Append(stream, Message) \in Seq(M)
             /\ <<Message>> \o stream \in Seq(M)
  <2>1. stream \in Seq(M) /\ pulled \in Seq(M) /\ Len(pulled) <= Batch
    OBVIOUS
  <2>2. Message \in M /\ Tail(pulled) \in Seq(M) /\ Len(Tail(pulled)) <= Batch
    <3> HIDE DEF M
    <3> QED
      BY <1>4, <2>1, HeadTail DEF Message
  <2>3. Append(stream, Message) \in Seq(M) /\ <<Message>> \o stream \in Seq(M)
    <3> HIDE DEF M
    <3> QED
      BY <2>1, <2>2, Grow
  <2> QED
    BY <2>2, <2>3
<1>5. Trouble => troubles' \in 0 .. Troubles
  BY DEF Trouble
<1>6. CASE StoreMessage
  <2>1. stored' \in [Events -> 0 .. 2]
    <3>1. Message[1] \in Events /\ stored[Message[1]] \in 0 .. 2
      BY <1>4, <1>6 DEF StoreMessage
    <3>2. \E n \in 0 .. 2 : stored' = [stored EXCEPT ![Message[1]] = n]
      <4>1. (IF stored[Message[1]] = 2 THEN 2 ELSE stored[Message[1]] + 1) \in 0 .. 2
        BY <3>1
      <4> QED
        BY <1>6, <4>1 DEF StoreMessage, Record
    <3> QED
      BY <3>2
  <2>2. troubles' \in 0 .. Troubles /\ stream' \in Seq(M)
    BY <1>4, <1>5, <1>6 DEF StoreMessage
  <2> QED
    BY <1>4, <1>6, <2>1, <2>2 DEF StoreMessage
<1>7. CASE RejectMessage
  BY <1>4, <1>7 DEF RejectMessage
<1>8. CASE RetryMessage
  <2>1. troubles' \in 0 .. Troubles
    BY <1>5, <1>8 DEF RetryMessage
  <2> QED
    BY <1>4, <1>8, <2>1 DEF RetryMessage
<1>9. CASE ServerStops
  <2>1. stream \in Seq(M) /\ pulled \in Seq(M)
    OBVIOUS
  <2>2. pulled \o stream \in Seq(M) /\ <<>> \in Seq(M)
    <3> HIDE DEF M
    <3> QED
      BY <2>1, Grow
  <2>3. Len(<<>>) <= Batch
    OBVIOUS
  <2>4. troubles' \in 0 .. Troubles
    BY <1>5, <1>9 DEF ServerStops
  <2> QED
    BY <1>9, <2>2, <2>3, <2>4 DEF ServerStops
<1>10. CASE UNCHANGED eventVars
  BY <1>10 DEF eventVars
<1> QED
  BY <1>1, <1>2, <1>3, <1>6, <1>7, <1>8, <1>9, <1>10
     DEF EdgeNext, edgeVars, eventVars, Subscriber, IssueToken, ExpireToken, PollRead,
         AckCommand, Acknowledges, CreateCommand, PollCommit, PollAborts

\* The types hold throughout.
LEMMA EdgeStepTyped == EdgeTypeOK /\ [EdgeNext]_edgeVars => EdgeTypeOK'
<1> SUFFICES ASSUME EdgeTypeOK, [EdgeNext]_edgeVars PROVE EdgeTypeOK'
  OBVIOUS
<1>1. CommandsTyped /\ EventsTyped /\ TokensTyped
  BY EdgeTypes
<1>2. CommandsTyped' /\ EventsTyped'
  BY <1>1, CommandsStepTyped, EventsStepTyped
<1>3. TokensTyped'
  BY <1>1 DEF TokensTyped, EdgeNext, edgeVars, Subscriber, Fetch, StoreMessage, RejectMessage, RetryMessage,
              ServerStops, IssueToken, ExpireToken, PollRead, AckCommand, Acknowledges, PostEvent,
              Publish, CreateCommand, PollCommit, PollAborts
<1> QED
  BY <1>2, <1>3 DEF CommandsTyped, EventsTyped, TokensTyped, EdgeTypeOK

\* So they are at first.
LEMMA EdgeStartsTyped == EdgeInit => EdgeTypeOK
<1> SUFFICES ASSUME EdgeInit PROVE EdgeTypeOK
  OBVIOUS
<1>1. <<>> \in Seq(Events \X Tokens)
  OBVIOUS
<1>2. EventsTyped
  <2>1. Len(<<>>) <= Batch
    BY EdgeAssumption
  <2>2. stream = <<>> /\ pulled = <<>> /\ rejected = {} /\ troubles = 0 /\ stored = [e \in Events |-> 0]
    BY DEF EdgeInit
  <2>3. stored \in [Events -> 0 .. 2] /\ troubles \in 0 .. Troubles
    BY <2>2, EdgeAssumption
  <2> QED
    BY <1>1, <2>1, <2>2, <2>3 DEF EventsTyped
<1>3. CommandsTyped /\ TokensTyped
  BY DEF EdgeInit, CommandsTyped, TokensTyped, Idle
<1> QED
  BY <1>2, <1>3, EdgeTypes

\* Commands that were polled exist, and no more messages are held than a fetch returns
\* (commands.go:196-226, nats.go:207-241).
THEOREM EdgeIsTyped == EdgeSpec => []EdgeTypeOK
BY EdgeStartsTyped, EdgeStepTyped, PTL DEF EdgeSpec

\* While a poll is in its transaction it holds the lock on its token's row: what it has read is
\* acknowledged meanwhile with other tokens only.
EdgeInv ==
    /\ EdgeTypeOK
    /\ \A p \in Polls : \A c \in poll[p].ids : command[c] = "acknowledged" => poll[p].token # acker[c]

\* Every step keeps that invariant.
LEMMA EdgeStepInv ==
  ASSUME EdgeInv, [EdgeNext]_edgeVars
  PROVE  EdgeInv'
<1> DEFINE Kept == \A p \in Polls : \A c \in poll'[p].ids :
                     command'[c] = "acknowledged" => poll'[p].token # acker'[c]
<1>1. EdgeTypeOK' /\ CommandsTyped
  BY EdgeStepTyped, EdgeTypes DEF EdgeInv
<1>2. Idle.ids = {} /\ \A p \in Polls : poll[p].ids \subseteq Commands
  BY <1>1, PollIds DEF CommandsTyped
<1>3. \A p \in Polls : \A c \in poll[p].ids : command[c] = "acknowledged" => poll[p].token # acker[c]
  BY DEF EdgeInv
<1>4. ASSUME NEW t \in Tokens, NEW p \in Polls, PollRead(p, t)
      PROVE  Kept
  <2>1. command' = command /\ acker' = acker
    BY <1>4 DEF PollRead
  <2>2. \A c \in poll'[p].ids : command[c] = "pending"
    BY <1>1, <1>4 DEF PollRead, CommandsTyped
  <2>3. \A q \in Polls : q # p => poll'[q] = poll[q]
    BY <1>1, <1>4 DEF PollRead, CommandsTyped
  <2> QED
    BY <1>3, <2>1, <2>2, <2>3
<1>5. ASSUME NEW t \in Tokens, NEW c \in Commands, AckCommand(c, t)
      PROVE  Kept
  <2>1. poll' = poll /\ \A q \in Polls : poll[q].token # t
    BY <1>5 DEF AckCommand, Acknowledges, WithToken, Locked
  <2>2. acker'[c] = t /\ \A d \in Commands : d # c => command'[d] = command[d] /\ acker'[d] = acker[d]
    BY <1>1, <1>5 DEF AckCommand, Acknowledges, CommandsTyped
  <2> QED
    BY <1>2, <1>3, <2>1, <2>2
<1>6. ASSUME NEW c \in Commands, CreateCommand(c)
      PROVE  Kept
  <2>1. poll' = poll /\ acker' = acker
    BY <1>6 DEF CreateCommand
  <2>2. \A d \in Commands : command'[d] = "acknowledged" => command[d] = "acknowledged"
    BY <1>1, <1>6 DEF CreateCommand, CommandsTyped
  <2> QED
    BY <1>2, <1>3, <2>1, <2>2
<1>7. ASSUME NEW p \in Polls, PollCommit(p)
      PROVE  Kept
  <2>1. acker' = acker /\ \A q \in Polls : poll'[q] = poll[q] \/ poll'[q] = Idle
    BY <1>1, <1>7 DEF PollCommit, CommandsTyped
  <2>2. \A d \in Commands : command'[d] = "acknowledged" => command[d] = "acknowledged"
    BY <1>1, <1>7 DEF PollCommit, CommandsTyped
  <2> QED
    BY <1>2, <1>3, <2>1, <2>2
<1>8. ASSUME NEW p \in Polls, PollAborts(p)
      PROVE  Kept
  <2>1. command' = command /\ acker' = acker /\ \A q \in Polls : poll'[q] = poll[q] \/ poll'[q] = Idle
    BY <1>1, <1>8 DEF PollAborts, CommandsTyped
  <2> QED
    BY <1>2, <1>3, <2>1
<1>9. ASSUME ServerStops
      PROVE  Kept
  <2>1. \A q \in Polls : poll'[q] = Idle
    BY <1>9 DEF ServerStops
  <2> QED
    BY <1>2, <2>1
<1>10. ASSUME UNCHANGED <<command, acker, poll>>
       PROVE  Kept
  BY <1>3, <1>10
<1> HIDE DEF Kept
<1>11. Kept
  BY <1>4, <1>5, <1>6, <1>7, <1>8, <1>9, <1>10
     DEF EdgeNext, edgeVars, commandVars, Subscriber, Fetch, StoreMessage, RejectMessage, RetryMessage,
         IssueToken, ExpireToken, PostEvent, Publish
<1> QED
  BY <1>1, <1>11 DEF EdgeInv, Kept

\* What the agent has acknowledged is taken back by a poll only, with another token.
LEMMA AckStays ==
  ASSUME EdgeInv, [EdgeNext]_edgeVars, NEW c \in Commands,
         command[c] = "acknowledged", command'[c] # "acknowledged"
  PROVE  \E p \in Polls : c \in poll[p].ids /\ poll[p].token # acker[c]
<1>0. CommandsTyped /\ \A p \in Polls : c \in poll[p].ids => poll[p].token # acker[c]
  BY EdgeTypes DEF EdgeInv
<1> USE <1>0 DEF CommandsTyped
<1>1. ASSUME NEW t \in Tokens, NEW d \in Commands, AckCommand(d, t)
      PROVE  FALSE
  BY <1>1 DEF AckCommand, Acknowledges
<1>2. ASSUME NEW d \in Commands, CreateCommand(d)
      PROVE  FALSE
  BY <1>2 DEF CreateCommand
<1>3. ASSUME NEW p \in Polls, PollCommit(p)
      PROVE  c \in poll[p].ids
  BY <1>3 DEF PollCommit
<1>4. ASSUME UNCHANGED command
      PROVE  FALSE
  BY <1>4
<1> QED
  BY <1>0, <1>1, <1>2, <1>3, <1>4
     DEF EdgeNext, edgeVars, commandVars, Subscriber, Fetch, StoreMessage, RejectMessage, RetryMessage,
         IssueToken, ExpireToken, PostEvent, Publish, PollRead, PollAborts, ServerStops

\* So it is at first.
LEMMA EdgeStartsApart == EdgeInit => EdgeInv
<1> SUFFICES ASSUME EdgeInit PROVE EdgeInv
  OBVIOUS
<1>1. \A p \in Polls : poll[p] = Idle /\ poll[p].ids = {}
  BY DEF EdgeInit, Idle
<1> QED
  BY <1>1, EdgeStartsTyped DEF EdgeInv

\* A command that was acknowledged goes back only by a poll of another token than the one it
\* was acknowledged with, which had read it before: for any number of tokens and polls
\* (commands.go:196-226, tokens.go:216-246).
THEOREM AcknowledgementsStay == EdgeSpec => AcknowledgedIsFinal
<1>1. EdgeInv /\ [EdgeNext]_edgeVars => EdgeInv'
  BY EdgeStepInv
<1>2. EdgeInv /\ [EdgeNext]_edgeVars =>
        [\A c \in Commands : command[c] = "acknowledged" /\ command'[c] # "acknowledged" =>
          \E p \in Polls : c \in poll[p].ids /\ poll[p].token # acker[c]]_edgeVars
  BY AckStays
<1> QED
  BY <1>1, <1>2, EdgeStartsApart, PTL DEF EdgeSpec, AcknowledgedIsFinal

------------------------------------------------------------------------------------
\* The types of what the screens fetch and show.
ScreensTyped ==
    /\ asked \in [Screens -> (0 .. grants) \cup {NotYet}]
    /\ fetches \in [Screens -> [0 .. MaxChanges -> Nat]]
    /\ \A s \in Screens : \A n \in 0 .. MaxChanges : fetches[s][n] > 0 => n <= grants
    /\ shown \in [Screens -> (0 .. grants) \cup {NotYet}]
    /\ tangled \in [Screens -> BOOLEAN]

\* A fetch reads the grants of the moment.
LEMMA FetchTyped ==
  ASSUME ScreensTyped, grants \in 0 .. MaxChanges, grants' = grants, NEW s \in Screens, Fetches(s)
  PROVE  ScreensTyped'
<1> USE ChangesAssumption DEF ScreensTyped
<1>1. asked' \in [Screens -> (0 .. grants) \cup {NotYet}] /\ shown' = shown
  BY DEF Fetches
<1>2. fetches' = [fetches EXCEPT ![s] = [fetches[s] EXCEPT ![grants] = fetches[s][grants] + 1]]
  BY DEF Fetches
<1>3. [fetches[s] EXCEPT ![grants] = fetches[s][grants] + 1] \in [0 .. MaxChanges -> Nat]
  OBVIOUS
<1>4. fetches' \in [Screens -> [0 .. MaxChanges -> Nat]]
  BY <1>2, <1>3
<1>5. \A r \in Screens : \A n \in 0 .. MaxChanges : fetches'[r][n] > 0 => n <= grants
  BY <1>2
<1>6. tangled' \in [Screens -> BOOLEAN]
  <2>1. InFlight(s) \in BOOLEAN
    BY DEF InFlight
  <2>2. tangled' = [tangled EXCEPT ![s] = InFlight(s)]
    BY DEF Fetches
  <2> QED
    BY <2>1, <2>2, Zenon
<1> QED
  BY <1>1, <1>4, <1>5, <1>6

\* An answer shows what was read.
LEMMA AnswerTyped ==
  ASSUME ScreensTyped, grants \in 0 .. MaxChanges, NEW s \in Screens, NEW n \in 0 .. MaxChanges, Answer(s, n)
  PROVE  ScreensTyped'
<1> USE ChangesAssumption DEF ScreensTyped
<1>1. grants' = grants /\ asked' = asked /\ n <= grants
  BY DEF Answer
<1>2. fetches' = [fetches EXCEPT ![s] = [fetches[s] EXCEPT ![n] = fetches[s][n] - 1]]
  BY DEF Answer
<1>3. [fetches[s] EXCEPT ![n] = fetches[s][n] - 1] \in [0 .. MaxChanges -> Nat]
  BY DEF Answer
<1>4. fetches' \in [Screens -> [0 .. MaxChanges -> Nat]]
  BY <1>2, <1>3
<1>5. \A r \in Screens : \A m \in 0 .. MaxChanges : fetches'[r][m] > 0 => m <= grants
  BY <1>1, <1>2
<1>6. shown' \in [Screens -> (0 .. grants) \cup {NotYet}] /\ tangled' \in [Screens -> BOOLEAN]
  <2>1. CASE shown' = [shown EXCEPT ![s] = n] /\ UNCHANGED tangled
    BY <1>1, <2>1
  <2>2. CASE /\ shown' \in {shown, [shown EXCEPT ![s] = NotYet]}
             /\ tangled' = [tangled EXCEPT ![s] = TRUE]
    BY <2>2
  <2> QED
    BY <2>1, <2>2 DEF Answer
<1> QED
  BY <1>1, <1>4, <1>5, <1>6

\* Every step of the granters, the streams and the screens keeps the types.
LEMMA FeedStepTyped == FeedTypeOK /\ [FeedNext]_feedVars => FeedTypeOK'
<1> SUFFICES ASSUME FeedTypeOK, [FeedNext]_feedVars PROVE FeedTypeOK'
  OBVIOUS
<1> DEFINE StreamsTyped ==
             /\ grants \in 0 .. MaxChanges
             /\ owner \in [Granters -> {"idle", "committed"}]
             /\ flag \in [Screens -> {"none", "empty", "full", "closed"}]
             /\ wire \in [Screens -> Nat]
<1>0. StreamsTyped /\ ScreensTyped /\ grants \in 0 .. MaxChanges
  BY DEF FeedTypeOK, ScreensTyped
<1>1. ASSUME NEW o \in Granters, ChangeGrants(o)
      PROVE  StreamsTyped' /\ ScreensTyped'
  <2>1. 0 .. grants \subseteq 0 .. grants' /\ \A n \in 0 .. MaxChanges : n <= grants => n <= grants'
    BY <1>0, <1>1, ChangesAssumption DEF ChangeGrants
  <2>2. grants' \in 0 .. MaxChanges /\ wire' = wire
        /\ asked' = asked /\ fetches' = fetches /\ shown' = shown /\ tangled' = tangled
    BY <1>0, <1>1, ChangesAssumption DEF ChangeGrants, screenVars
  <2>3. owner' \in [Granters -> {"idle", "committed"}]
    BY <1>0, <1>1 DEF ChangeGrants
  <2>4. flag' \in [Screens -> {"none", "empty", "full", "closed"}]
    BY <1>0, <1>1 DEF ChangeGrants, Raised
  <2>5. StreamsTyped'
    BY <1>0, <2>2, <2>3, <2>4
  <2>6. ScreensTyped'
    BY <1>0, <2>1, <2>2 DEF ScreensTyped
  <2> QED
    BY <2>5, <2>6
<1>2. ASSUME NEW s \in Screens, Subscribe(s)
      PROVE  StreamsTyped' /\ ScreensTyped'
  BY <1>0, <1>2 DEF Subscribe, ScreensTyped, screenVars
<1>3. ASSUME NEW s \in Screens, TurnOn(s)
      PROVE  StreamsTyped' /\ ScreensTyped'
  <2>1. StreamsTyped' /\ grants' = grants
    BY <1>0, <1>3 DEF TurnOn
  <2> QED
    BY <1>0, <1>3, <2>1, FetchTyped DEF TurnOn
<1>4. ASSUME NEW s \in Screens, Forward(s)
      PROVE  StreamsTyped' /\ ScreensTyped'
  BY <1>0, <1>4 DEF Forward, ScreensTyped, screenVars
<1>5. ASSUME NEW s \in Screens, Refetch(s)
      PROVE  StreamsTyped' /\ ScreensTyped'
  <2>1. StreamsTyped' /\ grants' = grants
    BY <1>0, <1>5 DEF Refetch
  <2>2. CASE UNCHANGED screenVars
    BY <1>0, <2>1, <2>2 DEF ScreensTyped, screenVars
  <2> QED
    BY <1>0, <1>5, <2>1, <2>2, FetchTyped DEF Refetch
<1>6. ASSUME NEW s \in Screens, NEW n \in 0 .. MaxChanges, Answer(s, n)
      PROVE  StreamsTyped' /\ ScreensTyped'
  <2>1. StreamsTyped'
    BY <1>0, <1>6 DEF Answer
  <2> QED
    BY <1>0, <1>6, <2>1, AnswerTyped
<1>7. ASSUME NEW s \in Screens, Close(s)
      PROVE  StreamsTyped' /\ ScreensTyped'
  BY <1>0, <1>7 DEF Close, ScreensTyped, screenVars
<1>8. ASSUME UNCHANGED feedVars
      PROVE  StreamsTyped' /\ ScreensTyped'
  BY <1>0, <1>8 DEF feedVars, ScreensTyped, screenVars
<1>9. StreamsTyped' /\ ScreensTyped'
  <2> HIDE DEF StreamsTyped
  <2> QED
    BY <1>1, <1>2, <1>3, <1>4, <1>5, <1>6, <1>7, <1>8 DEF FeedNext, Answers
<1> QED
  BY <1>9 DEF FeedTypeOK, ScreensTyped

\* So they are at first.
LEMMA FeedStartsTyped == FeedInit => FeedTypeOK
  BY ChangesAssumption DEF FeedInit, FeedTypeOK

\* Audit Mode's feed: what a screen has fetched is never newer than the grants.
THEOREM FeedIsTyped == FeedSpec => []FeedTypeOK
BY FeedStepTyped, FeedStartsTyped, PTL DEF FeedSpec

------------------------------------------------------------------------------------
\* Every step of the owners and the poller keeps the types.
LEMMA ReportsStepTyped == ReportsTypeOK /\ [ReportsStep]_reportVars => ReportsTypeOK'
<1> SUFFICES ASSUME ReportsTypeOK, [ReportsStep]_reportVars PROVE ReportsTypeOK'
  OBVIOUS
<1> USE DEF ReportsTypeOK, ReportRows, NoRow, Between
<1>1. ASSUME NEW r \in Reports, NEW active \in BOOLEAN, NEW known \in BOOLEAN,
             SaveReport(r, active, known)
      PROVE  ReportsTypeOK'
  BY <1>1 DEF SaveReport
<1>2. ASSUME NEW r \in Reports, DeleteReport(r)
      PROVE  ReportsTypeOK'
  BY <1>2 DEF DeleteReport
<1>9. ASSUME NEW r \in Reports, NextRunComes(r)
      PROVE  ReportsTypeOK'
  BY <1>9 DEF NextRunComes
<1>3. CASE ListDue
  BY <1>3 DEF ListDue
<1>4. ASSUME NEW r \in Reports, ReadReport(r)
      PROVE  ReportsTypeOK'
  BY <1>4 DEF ReadReport
<1>5. CASE RunReport
  BY <1>5 DEF RunReport
<1>6. CASE RecordRun
  BY <1>6 DEF RecordRun
<1>7. CASE Interrupted
  BY <1>7, RestartsAssumption DEF Interrupted
<1>8. CASE UNCHANGED reportVars
  BY <1>8 DEF reportVars
<1> QED
  BY <1>1, <1>2, <1>3, <1>4, <1>5, <1>6, <1>7, <1>8, <1>9 DEF ReportsStep, PollReports


\* So they are at first.
LEMMA ReportsStartsTyped == ReportsInit => ReportsTypeOK
  BY RestartsAssumption DEF ReportsInit, ReportsTypeOK, ReportRows, NoRow, Between

\* Scheduled reports: what is run is a report, with an outcome of its own.
THEOREM ReportsAreTyped == ReportsSpec => []ReportsTypeOK
BY ReportsStepTyped, ReportsStartsTyped, PTL DEF ReportsSpec

------------------------------------------------------------------------------------
(* The services together: each takes its own steps or none while another takes one. *)
DocProofs == INSTANCE ApprovalsProofs WITH
    Approvals <- {"a1"}, Users <- {"ann"}, Perms <- {"edit", "decide"}, Instances <- {"doc"},
    States <- {"draft", "review", "published"}, Actions <- {"submit", "publish", "sendback"},
    Initial <- "draft", Rules <- {"publish"}, Handlers <- {"h1", "h2"}, None <- None,
    Edges <- { DocEdge("draft", "submit", "review", "edit"),
               DocEdge("review", "publish", "published", "decide"),
               DocEdge("review", "sendback", "draft", "edit"),
               DocEdge("published", "sendback", "draft", "edit") },
    Cancellable <- FALSE, Crashable <- FALSE,
    state <- docState, grants <- docGrants, status <- docStatus, about <- docAbout,
    overdue <- docOverdue, inbox <- docInbox, executed <- docExecuted, pc <- docPc,
    caller <- docCaller, target <- docTarget, todo <- docTodo, live <- docLive

\* The document and its handlers are such as Approvals assumes.
LEMMA DocsFit ==
    /\ DocProofs!EdgesAssumption /\ DocProofs!RulesAssumption /\ DocProofs!InitialAssumption
    /\ DocProofs!NoneAssumption /\ DocProofs!FaultsAssumption
<1>1. DocProofs!EdgesAssumption
  BY DEF DocProofs!EdgesAssumption, DocEdge, DocProofs!Edge
<1>2. DocProofs!RulesAssumption /\ DocProofs!InitialAssumption /\ DocProofs!NoneAssumption
      /\ DocProofs!FaultsAssumption
  BY DocsAssumption
     DEF DocProofs!RulesAssumption, DocProofs!InitialAssumption, DocProofs!NoneAssumption,
         DocProofs!FaultsAssumption
<1> QED
  BY <1>1, <1>2

\* What is proved of Approvals is so of the document's approvals.
LEMMA DocsAreApprovals ==
    /\ Docs!Init => DocProofs!IInv
    /\ DocProofs!IInv /\ [Docs!Next]_docVars => DocProofs!IInv'
    /\ DocProofs!IInv => Docs!TypeOK
<1>1. DocProofs!Init => DocProofs!IInv
  BY DocsFit, DocProofs!InitInv
<1>2. DocProofs!IInv /\ [DocProofs!Next]_(DocProofs!vars) => DocProofs!IInv'
  BY DocsFit, DocProofs!StepInv
<1>3. Docs!Init <=> DocProofs!Init
  BY DEF Docs!Init, DocProofs!Init
<1>4. Docs!Next <=> DocProofs!Next
  BY Zenon DEF
       Docs!Next, DocProofs!Next, Docs!Step, DocProofs!Step, Docs!Begin, DocProofs!Begin,
       Docs!Goto, DocProofs!Goto, Docs!Return, DocProofs!Return, Docs!Allowed, DocProofs!Allowed,
       Docs!Matches, DocProofs!Matches, Docs!AfterTransition, DocProofs!AfterTransition,
       Docs!UserTransition, DocProofs!UserTransition, Docs!NextMatch, DocProofs!NextMatch,
       Docs!Holders, DocProofs!Holders, Docs!CreatePendingApproval,
       DocProofs!CreatePendingApproval, Docs!SkipMatch, DocProofs!SkipMatch, Docs!StartApprove,
       DocProofs!StartApprove, Docs!Claim, DocProofs!Claim, Docs!Execute, DocProofs!Execute,
       Docs!ExecuteFails, DocProofs!ExecuteFails, Docs!Revert, DocProofs!Revert, Docs!MarkExpired,
       DocProofs!MarkExpired, Docs!StartReject, DocProofs!StartReject, Docs!WriteRejection,
       DocProofs!WriteRejection, Docs!GiveUp, DocProofs!GiveUp, Docs!Cancel, DocProofs!Cancel,
       Docs!Crash, DocProofs!Crash, Docs!BecomeOverdue, DocProofs!BecomeOverdue, Docs!ChangeGrant,
       DocProofs!ChangeGrant, Docs!rows, DocProofs!rows, Docs!vars, DocProofs!vars, Docs!Match,
       DocProofs!Match, Docs!Proposal, DocProofs!Proposal, Docs!Edge, DocProofs!Edge,
       Docs!Statuses, DocProofs!Statuses, Docs!PCs, DocProofs!PCs
<1>5. [Docs!Next]_docVars <=> [DocProofs!Next]_(DocProofs!vars)
  BY <1>4 DEF docVars, DocProofs!vars
<1>6. DocProofs!IInv => DocProofs!TypeOK
  BY DEF DocProofs!IInv
<1>7. Docs!TypeOK <=> DocProofs!TypeOK
  BY DEF
       Docs!TypeOK, DocProofs!TypeOK, Docs!Match, DocProofs!Match, Docs!Proposal,
       DocProofs!Proposal, Docs!Statuses, DocProofs!Statuses, Docs!PCs, DocProofs!PCs
<1> QED
  BY <1>1, <1>2, <1>3, <1>5, <1>6, <1>7

\* A step of the services is a step of each or leaves it alone.
LEMMA EachItsOwn ==
  ASSUME [BackgroundNext]_<<service, docVars, cascadeVars, edgeVars, feedVars, reminderVars,
                            reportVars, schedulerVars>>
  PROVE  /\ [Docs!Next]_docVars /\ [CascadeNext]_cascadeVars /\ [EdgeNext]_edgeVars
         /\ [FeedNext]_feedVars /\ [RemindersStep]_reminderVars /\ [ReportsStep]_reportVars
         /\ [SchedulerNext]_schedulerVars
BY Zenon DEF BackgroundNext, Still

\* The invariants of all of them.
Together ==
    /\ DocProofs!IInv /\ CascadeInv /\ EdgeTypeOK /\ FeedTypeOK
    /\ RemindersInv /\ ReportsTypeOK /\ SchedulerInv

\* They hold together.
LEMMA TogetherAlways == BackgroundSpec => []Together
<1>1. BackgroundInit => Together
  BY DocsAreApprovals, CascadeStarts, EdgeStartsTyped, FeedStartsTyped, RemindersStart,
     ReportsStartsTyped, SchedulerStarts DEF BackgroundInit, Together
<1>2. Together /\ [BackgroundNext]_<<service, docVars, cascadeVars, edgeVars, feedVars, reminderVars,
                                    reportVars, schedulerVars>> => Together'
  <2> SUFFICES ASSUME Together,
                      [BackgroundNext]_<<service, docVars, cascadeVars, edgeVars, feedVars,
                                         reminderVars, reportVars, schedulerVars>>
               PROVE  Together'
    OBVIOUS
  <2>1. DocProofs!IInv' /\ CascadeInv' /\ EdgeTypeOK' /\ FeedTypeOK'
    BY DocsAreApprovals, EachItsOwn, CascadeStepInv, EdgeStepTyped, FeedStepTyped DEF Together
  <2>2. RemindersInv' /\ ReportsTypeOK' /\ SchedulerInv'
    BY EachItsOwn, RemindersStepInv, ReportsStepTyped, SchedulerStepInv DEF Together
  <2> QED
    BY <2>1, <2>2 DEF Together
<1> QED
  BY <1>1, <1>2, PTL DEF BackgroundSpec

\* In the background of a server every service keeps its types, whatever the others do, and a
\* scheduled rule never has two runs ahead, and a steady one never none (scheduler.go:225).
THEOREM BackgroundHolds == BackgroundSpec => [](BackgroundTypeOK /\ OneRunAhead)
<1>1. Together => BackgroundTypeOK /\ OneRunAhead
  BY DocsAreApprovals, CascadeMeans, InvMeans DEF Together, BackgroundTypeOK, RemindersInv
<1> QED
  BY <1>1, TogetherAlways, PTL

\* Nor does a rule act that was switched off before a commit, nor an owner miss or get twice a
\* day's reminder (rules.go:1465, asset/scheduler.go:74).
THEOREM BackgroundSteps == BackgroundSpec => OffRulesKeepStill /\ OwnersAreReminded
<1>1. Together => \A i \in Items : today[i] <= 1 /\ before[i] <= 1
  BY RemindedByMidnight DEF Together
<1>2. Together =>
        [(Midnight /\ clock'.part # clock.part /\ ~Polling /\ ~clock.fired) =>
             \A i \in quiet.items : FirmOf[i] \in quiet.firms => today[i] = 1]_reminderVars
  BY RemindedByMidnight DEF Together
<1>3. Together =>
        [\A c \in Callers : (RuleMoves(c) \/ RuleSetsField(c)) => Rule(c) \in Top(c).fit]_cascadeVars
  BY ActsAreFit DEF Together
<1> QED
  BY <1>1, <1>2, <1>3, TogetherAlways, PTL DEF OffRulesKeepStill, OwnersAreReminded
====================================================================================
