---------------------------- MODULE ApprovalsProofs ----------------------------
(* Proofs about Approvals, for any number of approvals, users, handlers,         *)
(* instances and any transition graph and rules: type correctness, that an       *)
(* approval's proposed transition is executed at most once, and that the         *)
(* handlers implement ApprovalPromise.                                           *)
EXTENDS Approvals, TLAPS

\* A handler past its first read works on a row that exists.
TargetsExist ==
    \A h \in Handlers : pc[h] \in {"claim", "execute", "revert", "expire", "reject"} =>
        target[h] \in Approvals /\ status[target[h]] # "none"

\* A row not yet inserted has had nothing executed for it.
NothingBeforeInsert == \A a \in Approvals : status[a] = "none" => executed[a] = 0

\* The inductive invariant.  AtMostOnce needs ClaimIsExclusive: it is the claim,
\* and not the row's status, which Reject can overwrite, that excludes a second
\* execution.
IInv ==
    /\ TypeOK
    /\ TargetsExist
    /\ NothingBeforeInsert
    /\ AtMostOnce
    /\ ExecutedStaysResolved
    /\ ClaimIsExclusive

USE DEF PCs, Statuses

\* The initial state satisfies the inductive invariant.
LEMMA InitInv == Init => IInv
  BY InitialAssumption, NoneAssumption
     DEF Init, IInv, TypeOK, TargetsExist, NothingBeforeInsert, AtMostOnce,
         ExecutedStaysResolved, ClaimIsExclusive, Claims, Proposal, Match

\* Matches yields well-formed matches.
LEMMA MatchesType ==
  ASSUME NEW i \in Instances, NEW s \in States
  PROVE  Matches(i, s) \in SUBSET Match
  BY RulesAssumption DEF Matches, Match

\* Whatever AfterTransition decides, the handler no longer works on an approval.
LEMMA AfterTransitionLeaves ==
  ASSUME TypeOK, NEW h \in Handlers, NEW u \in Users, NEW i \in Instances, NEW s \in States,
         AfterTransition(h, u, i, s)
  PROVE  \E l \in {"idle", "propose"}, w \in Users \cup {None}, t \in SUBSET Match, b \in BOOLEAN :
            /\ pc' = [pc EXCEPT ![h] = l]
            /\ caller' = [caller EXCEPT ![h] = w]
            /\ l # "idle" => w \in Users
            /\ target' = [target EXCEPT ![h] = None]
            /\ todo' = [todo EXCEPT ![h] = t]
            /\ live' = [live EXCEPT ![h] = b]
  <1>1. CASE Matches(i, s) = {}
    BY <1>1 DEF AfterTransition, Return
  <1>2. CASE Matches(i, s) # {}
    <2>1. live' = [live EXCEPT ![h] = live[h]] /\ live[h] \in BOOLEAN
      BY <1>2 DEF AfterTransition, TypeOK
    <2>2. Matches(i, s) \in SUBSET Match
      BY MatchesType
    <2> QED
      BY <1>2, <2>1, <2>2 DEF AfterTransition
  <1> QED
    BY <1>1, <1>2

\* A step that moves one handler and no row keeps the invariant, unless it makes
\* the handler a claimer.
LEMMA HandlerMoves ==
  ASSUME IInv, NEW h \in Handlers,
         NEW l \in PCs, NEW w \in Users \cup {None}, NEW t \in Approvals \cup {None},
         NEW m \in SUBSET Match, NEW b \in BOOLEAN,
         pc' = [pc EXCEPT ![h] = l],
         caller' = [caller EXCEPT ![h] = w],
         target' = [target EXCEPT ![h] = t],
         todo' = [todo EXCEPT ![h] = m],
         live' = [live EXCEPT ![h] = b],
         l # "idle" => w \in Users,
         l \in {"claim", "execute", "revert", "expire", "reject"} =>
            t \in Approvals /\ status[t] # "none",
         l \in {"execute", "revert"} => pc[h] \in {"execute", "revert"} /\ t = target[h],
         UNCHANGED rows,
         state' \in [Instances -> States], grants' \subseteq Users \X Perms
  PROVE  IInv'
  <1> USE DEF IInv, rows
  <1>1. TypeOK'
    BY DEF TypeOK
  <1>2. TargetsExist'
    BY DEF TypeOK, TargetsExist
  <1>3. NothingBeforeInsert' /\ AtMostOnce' /\ ExecutedStaysResolved'
    BY DEF NothingBeforeInsert, AtMostOnce, ExecutedStaysResolved
  <1>4. ASSUME NEW a \in Approvals, NEW g \in Handlers, Claims(g, a)'
        PROVE  Claims(g, a)
    BY <1>4 DEF TypeOK, Claims
  <1>5. ClaimIsExclusive'
    BY <1>4 DEF ClaimIsExclusive
  <1> QED
    BY <1>1, <1>2, <1>3, <1>5

\* A step that rewrites the status of the rows, moves no handler into a claim and
\* executes nothing keeps the invariant, if claimed and executed rows stay
\* resolved.
LEMMA RowMoves ==
  ASSUME IInv, NEW h \in Handlers,
         NEW a \in Approvals, NEW s \in Statuses,
         status' = [status EXCEPT ![a] = s], s # "none",
         status[a] = "none" => about'[a] \in Proposal,
         about' \in [Approvals -> Proposal \cup {None}],
         \A c \in Approvals : c # a => about'[c] = about[c],
         status[a] # "none" => about'[a] = about[a],
         inbox' \subseteq Users \X {"approval_pending", "approval_rejected"} \X Approvals,
         UNCHANGED <<state, grants, overdue, executed>>,
         pc' \in [Handlers -> PCs], caller' \in [Handlers -> Users \cup {None}],
         target' \in [Handlers -> Approvals \cup {None}],
         todo' \in [Handlers -> SUBSET Match], live' \in [Handlers -> BOOLEAN],
         \A g \in Handlers : pc'[g] # "idle" => caller'[g] \in Users,
         \A g \in Handlers : (pc'[g] = pc[g] /\ target'[g] = target[g])
                             \/ pc'[g] \in {"idle", "propose"},
         \/ s \in {"approved", "rejected"}
         \/ executed[a] = 0 /\ \A g \in Handlers : ~(Claims(g, a)')
  PROVE  IInv'
  <1> USE DEF IInv
  <1>1. TypeOK'
    BY DEF TypeOK
  <1>2. TargetsExist'
    BY DEF TypeOK, TargetsExist
  <1>3. NothingBeforeInsert' /\ AtMostOnce' /\ ExecutedStaysResolved'
    BY DEF TypeOK, NothingBeforeInsert, AtMostOnce, ExecutedStaysResolved
  <1>4. ASSUME NEW c \in Approvals, NEW g \in Handlers, Claims(g, c)'
        PROVE  Claims(g, c)
    BY <1>4 DEF TypeOK, Claims
  <1>5. ClaimIsExclusive'
    BY <1>4 DEF ClaimIsExclusive, TypeOK
  <1> QED
    BY <1>1, <1>2, <1>3, <1>5

\* What Return does to a handler, in the form HandlerMoves asks for.
LEMMA ReturnMoves ==
  ASSUME TypeOK, NEW h \in Handlers, Return(h)
  PROVE  /\ pc' = [pc EXCEPT ![h] = "idle"]
         /\ caller' = [caller EXCEPT ![h] = None]
         /\ target' = [target EXCEPT ![h] = None]
         /\ todo' = [todo EXCEPT ![h] = {}]
         /\ live' = [live EXCEPT ![h] = TRUE]
         /\ pc' \in [Handlers -> PCs] /\ caller' \in [Handlers -> Users \cup {None}]
         /\ target' \in [Handlers -> Approvals \cup {None}]
         /\ todo' \in [Handlers -> SUBSET Match] /\ live' \in [Handlers -> BOOLEAN]
         /\ \A g \in Handlers : pc'[g] # "idle" => caller'[g] \in Users
         /\ \A g \in Handlers : (pc'[g] = pc[g] /\ target'[g] = target[g])
                                \/ pc'[g] \in {"idle", "propose"}
  BY DEF Return, TypeOK

\* A handler that returns without touching a row keeps the invariant.
LEMMA ReturnKeepsInv ==
  ASSUME IInv, NEW h \in Handlers, Return(h), UNCHANGED <<state, grants, rows>>
  PROVE  IInv'
  <1>1. TypeOK
    BY DEF IInv
  <1>2. /\ pc' = [pc EXCEPT ![h] = "idle"]
        /\ caller' = [caller EXCEPT ![h] = None]
        /\ target' = [target EXCEPT ![h] = None]
        /\ todo' = [todo EXCEPT ![h] = {}]
        /\ live' = [live EXCEPT ![h] = TRUE]
    BY <1>1, ReturnMoves
  <1>3. state' \in [Instances -> States] /\ grants' \subseteq Users \X Perms
    BY <1>1 DEF TypeOK
  <1>4. None \in Users \cup {None} /\ None \in Approvals \cup {None}
        /\ {} \in SUBSET Match /\ TRUE \in BOOLEAN /\ "idle" \in PCs
    OBVIOUS
  <1> QED
    BY <1>2, <1>3, <1>4, HandlerMoves

\* A handler that returns after writing the status of one row keeps the invariant,
\* if the row becomes resolved or nothing is or can be executed for it.
LEMMA ReturnAfterWrite ==
  ASSUME IInv, NEW h \in Handlers, Return(h),
         NEW a \in Approvals, NEW s \in Statuses, s # "none", status[a] # "none",
         status' = [status EXCEPT ![a] = s],
         inbox' \subseteq Users \X {"approval_pending", "approval_rejected"} \X Approvals,
         UNCHANGED <<state, grants, about, overdue, executed>>,
         \/ s \in {"approved", "rejected"}
         \/ executed[a] = 0 /\ \A g \in Handlers : Claims(g, a) => g = h
  PROVE  IInv'
  <1>1. TypeOK
    BY DEF IInv
  <1>2. /\ pc' \in [Handlers -> PCs] /\ caller' \in [Handlers -> Users \cup {None}]
        /\ target' \in [Handlers -> Approvals \cup {None}]
        /\ todo' \in [Handlers -> SUBSET Match] /\ live' \in [Handlers -> BOOLEAN]
        /\ \A g \in Handlers : pc'[g] # "idle" => caller'[g] \in Users
        /\ \A g \in Handlers : (pc'[g] = pc[g] /\ target'[g] = target[g])
                               \/ pc'[g] \in {"idle", "propose"}
    BY <1>1, ReturnMoves
  <1>3. \/ s \in {"approved", "rejected"}
        \/ executed[a] = 0 /\ \A g \in Handlers : ~(Claims(g, a)')
    BY <1>1 DEF Return, TypeOK, Claims
  <1>4. /\ about' \in [Approvals -> Proposal \cup {None}]
        /\ \A c \in Approvals : about'[c] = about[c]
    BY <1>1 DEF TypeOK
  <1> QED
    BY <1>2, <1>3, <1>4, RowMoves

\* The handler of a rule match stays with the remaining matches or returns.
LEMMA NextMatchMoves ==
  ASSUME TypeOK, NEW h \in Handlers, NEW m, NextMatch(h, m), pc[h] = "propose"
  PROVE  \E l \in {"idle", "propose"}, w \in Users \cup {None}, t \in Approvals \cup {None},
            r \in SUBSET Match, b \in BOOLEAN :
            /\ pc' = [pc EXCEPT ![h] = l]
            /\ caller' = [caller EXCEPT ![h] = w]
            /\ l # "idle" => w \in Users
            /\ target' = [target EXCEPT ![h] = t]
            /\ todo' = [todo EXCEPT ![h] = r]
            /\ live' = [live EXCEPT ![h] = b]
  <1>1. CASE todo[h] = {m}
    BY <1>1 DEF NextMatch, Return
  <1>2. CASE todo[h] # {m}
    <2>1. /\ pc' = [pc EXCEPT ![h] = pc[h]]
          /\ caller' = [caller EXCEPT ![h] = caller[h]]
          /\ target' = [target EXCEPT ![h] = target[h]]
          /\ todo' = [todo EXCEPT ![h] = todo[h] \ {m}]
          /\ live' = [live EXCEPT ![h] = live[h]]
      BY <1>2 DEF NextMatch, TypeOK
    <2>2. /\ caller[h] \in Users /\ target[h] \in Approvals \cup {None}
          /\ todo[h] \ {m} \in SUBSET Match /\ live[h] \in BOOLEAN
      BY DEF TypeOK
    <2> QED
      BY <2>1, <2>2
  <1> QED
    BY <1>1, <1>2

\* Every step keeps the inductive invariant.
LEMMA StepInv == IInv /\ [Next]_vars => IInv'
  <1> SUFFICES ASSUME IInv, [Next]_vars PROVE IInv'
    OBVIOUS
  <1> USE DEF rows
  <1>t. TypeOK
    BY DEF IInv
  <1>0. CASE UNCHANGED vars
    BY <1>0 DEF vars, IInv, TypeOK, TargetsExist, NothingBeforeInsert, AtMostOnce,
                ExecutedStaysResolved, ClaimIsExclusive, Claims
  <1>1. ASSUME NEW h \in Handlers, NEW u \in Users, NEW i \in Instances, NEW act \in Actions,
               UserTransition(h, u, i, act)
        PROVE  IInv'
    <2>1. PICK e \in Allowed(u, i, act) :
             state' = [state EXCEPT ![i] = e.to] /\ AfterTransition(h, u, i, e.to)
      BY <1>1 DEF UserTransition
    <2>2. e.to \in States
      BY EdgesAssumption DEF Allowed, Edge
    <2>3. state' \in [Instances -> States] /\ grants' \subseteq Users \X Perms
      BY <1>t, <1>1, <2>1, <2>2 DEF TypeOK, UserTransition
    <2>4. PICK l \in {"idle", "propose"}, w \in Users \cup {None}, t \in SUBSET Match, b \in BOOLEAN :
            /\ pc' = [pc EXCEPT ![h] = l]
            /\ caller' = [caller EXCEPT ![h] = w]
            /\ l # "idle" => w \in Users
            /\ target' = [target EXCEPT ![h] = None]
            /\ todo' = [todo EXCEPT ![h] = t]
            /\ live' = [live EXCEPT ![h] = b]
      BY <1>t, <2>1, <2>2, AfterTransitionLeaves
    <2>5. UNCHANGED rows
      BY <1>1 DEF UserTransition
    <2> QED
      BY <2>3, <2>4, <2>5, HandlerMoves
  <1>2. ASSUME NEW h \in Handlers, NEW u \in Users, NEW a \in Approvals,
               StartApprove(h, u, a) \/ StartReject(h, u, a)
        PROVE  IInv'
    <2>1. \E l \in {"claim", "expire", "reject"} : Begin(h, u, a, l)
      BY <1>2 DEF StartApprove, StartReject
    <2>2. status[a] # "none" /\ UNCHANGED <<state, grants, rows>>
      BY <1>2 DEF StartApprove, StartReject
    <2>3. PICK l \in {"claim", "expire", "reject"} : Begin(h, u, a, l)
      BY <2>1
    <2>4. todo' = [todo EXCEPT ![h] = todo[h]] /\ live' = [live EXCEPT ![h] = live[h]]
          /\ todo[h] \in SUBSET Match /\ live[h] \in BOOLEAN
      BY <1>t, <2>3 DEF Begin, TypeOK
    <2>5. state' \in [Instances -> States] /\ grants' \subseteq Users \X Perms
      BY <1>t, <2>2 DEF TypeOK
    <2> QED
      BY <2>2, <2>3, <2>4, <2>5, HandlerMoves DEF Begin
  <1>3. ASSUME NEW h \in Handlers, CreatePendingApproval(h)
        PROVE  IInv'
    <2>1. PICK m \in todo[h], a \in Approvals, e \in Edges :
            /\ status[a] = "none"
            /\ status' = [status EXCEPT ![a] = "pending"]
            /\ about' = [about EXCEPT ![a] = [inst |-> m.inst, action |-> m.action,
                                              perm |-> e.perm, requester |-> caller[h]]]
            /\ inbox' = inbox \cup (Holders(e.perm) \X {"approval_pending"} \X {a})
            /\ NextMatch(h, m)
      BY <1>3 DEF CreatePendingApproval
    <2>2. [inst |-> m.inst, action |-> m.action, perm |-> e.perm, requester |-> caller[h]]
            \in Proposal
      <3>1. m \in Match /\ e \in Edge /\ caller[h] \in Users
        BY <1>t, <1>3, EdgesAssumption DEF TypeOK, CreatePendingApproval
      <3> QED
        BY <3>1 DEF Match, Edge, Proposal
    <2>3. Holders(e.perm) \X {"approval_pending"} \X {a}
            \subseteq Users \X {"approval_pending", "approval_rejected"} \X Approvals
      BY DEF Holders
    <2>4. inbox' \subseteq Users \X {"approval_pending", "approval_rejected"} \X Approvals
      BY <1>t, <2>1, <2>3 DEF TypeOK
    <2>5. PICK l \in {"idle", "propose"}, w \in Users \cup {None}, t \in Approvals \cup {None},
            r \in SUBSET Match, b \in BOOLEAN :
            /\ pc' = [pc EXCEPT ![h] = l]
            /\ caller' = [caller EXCEPT ![h] = w]
            /\ l # "idle" => w \in Users
            /\ target' = [target EXCEPT ![h] = t]
            /\ todo' = [todo EXCEPT ![h] = r]
            /\ live' = [live EXCEPT ![h] = b]
      BY <1>t, <1>3, <2>1, NextMatchMoves DEF CreatePendingApproval
    <2>6. /\ pc' \in [Handlers -> PCs] /\ caller' \in [Handlers -> Users \cup {None}]
          /\ target' \in [Handlers -> Approvals \cup {None}]
          /\ todo' \in [Handlers -> SUBSET Match] /\ live' \in [Handlers -> BOOLEAN]
          /\ \A g \in Handlers : pc'[g] # "idle" => caller'[g] \in Users
          /\ \A g \in Handlers : (pc'[g] = pc[g] /\ target'[g] = target[g])
                                 \/ pc'[g] \in {"idle", "propose"}
      BY <1>t, <2>5 DEF TypeOK
    <2>7. executed[a] = 0 /\ \A g \in Handlers : ~(Claims(g, a)')
      BY <1>t, <2>1, <2>6 DEF IInv, TargetsExist, NothingBeforeInsert, Claims
    <2>8. /\ about' \in [Approvals -> Proposal \cup {None}]
          /\ about'[a] \in Proposal
          /\ \A c \in Approvals : c # a => about'[c] = about[c]
      BY <1>t, <2>1, <2>2 DEF TypeOK
    <2>9. UNCHANGED <<state, grants, overdue, executed>>
      BY <1>3 DEF CreatePendingApproval
    <2> QED
      BY <2>1, <2>4, <2>6, <2>7, <2>8, <2>9, RowMoves
  <1>4. ASSUME NEW h \in Handlers, SkipMatch(h)
        PROVE  IInv'
    <2>1. PICK m \in todo[h] : NextMatch(h, m)
      BY <1>4 DEF SkipMatch
    <2>2. state' \in [Instances -> States] /\ grants' \subseteq Users \X Perms /\ UNCHANGED rows
      BY <1>t, <1>4 DEF TypeOK, SkipMatch
    <2>3. PICK l \in {"idle", "propose"}, w \in Users \cup {None}, t \in Approvals \cup {None},
            r \in SUBSET Match, b \in BOOLEAN :
            /\ pc' = [pc EXCEPT ![h] = l]
            /\ caller' = [caller EXCEPT ![h] = w]
            /\ l # "idle" => w \in Users
            /\ target' = [target EXCEPT ![h] = t]
            /\ todo' = [todo EXCEPT ![h] = r]
            /\ live' = [live EXCEPT ![h] = b]
      BY <1>t, <1>4, <2>1, NextMatchMoves DEF SkipMatch
    <2> QED
      BY <2>2, <2>3, HandlerMoves
  <1>5. ASSUME NEW h \in Handlers, Claim(h)
        PROVE  IInv'
    <2> DEFINE a == target[h]
    <2>1. a \in Approvals /\ status[a] # "none"
      BY <1>5 DEF IInv, TargetsExist, Claim
    <2>2. CASE status[a] = "pending"
      <3>1. /\ status' = [status EXCEPT ![a] = "approved"]
            /\ pc' = [pc EXCEPT ![h] = "execute"]
            /\ UNCHANGED <<caller, target, todo, live, state, grants, about, overdue, inbox, executed>>
        BY <1>5, <2>2 DEF Claim, Goto
      <3>2. TypeOK'
        BY <1>t, <1>5, <2>1, <3>1 DEF TypeOK, Claim
      <3>3. TargetsExist'
        BY <1>t, <2>1, <3>1 DEF IInv, TypeOK, TargetsExist
      <3>4. executed[a] = 0
        BY <1>t, <2>1, <2>2 DEF IInv, TypeOK, AtMostOnce, ExecutedStaysResolved
      <3>5. NothingBeforeInsert' /\ AtMostOnce' /\ ExecutedStaysResolved'
        BY <1>t, <2>1, <3>1, <3>4
           DEF IInv, TypeOK, NothingBeforeInsert, AtMostOnce, ExecutedStaysResolved
      <3>6. \A g \in Handlers : ~Claims(g, a)
        BY <2>1, <2>2 DEF IInv, ClaimIsExclusive
      <3>7. ASSUME NEW c \in Approvals, NEW g \in Handlers, Claims(g, c)'
            PROVE  (c = a /\ g = h) \/ (c # a /\ Claims(g, c))
        BY <1>t, <3>1, <3>6, <3>7 DEF TypeOK, Claims
      <3>8. ClaimIsExclusive'
        BY <1>t, <2>1, <3>1, <3>4, <3>7 DEF IInv, TypeOK, ClaimIsExclusive
      <3> QED
        BY <3>2, <3>3, <3>5, <3>8 DEF IInv
    <2>3. CASE status[a] # "pending"
      <3>1. Return(h) /\ UNCHANGED <<state, grants, rows>>
        BY <1>5, <2>3 DEF Claim
      <3> QED
        BY <3>1, ReturnKeepsInv
    <2> QED
      BY <2>2, <2>3
  <1>6. ASSUME NEW h \in Handlers, Execute(h)
        PROVE  IInv'
    <2> DEFINE a == target[h]
    <2>1. a \in Approvals /\ Claims(h, a) /\ caller[h] \in Users /\ about[a] \in Proposal
      BY <1>t, <1>6 DEF IInv, TypeOK, TargetsExist, Execute, Claims
    <2>2. PICK e \in Allowed(caller[h], about[a].inst, about[a].action) :
            /\ state' = [state EXCEPT ![about[a].inst] = e.to]
            /\ executed' = [executed EXCEPT ![a] = @ + 1]
            /\ AfterTransition(h, caller[h], about[a].inst, e.to)
      BY <1>6 DEF Execute
    <2>3. e.to \in States /\ about[a].inst \in Instances
      BY <2>1, EdgesAssumption DEF Allowed, Edge, Proposal
    <2>4. PICK l \in {"idle", "propose"}, w \in Users \cup {None}, t \in SUBSET Match, b \in BOOLEAN :
            /\ pc' = [pc EXCEPT ![h] = l]
            /\ caller' = [caller EXCEPT ![h] = w]
            /\ l # "idle" => w \in Users
            /\ target' = [target EXCEPT ![h] = None]
            /\ todo' = [todo EXCEPT ![h] = t]
            /\ live' = [live EXCEPT ![h] = b]
      BY <1>t, <2>1, <2>2, <2>3, AfterTransitionLeaves
    <2>5. UNCHANGED <<grants, status, about, overdue, inbox>>
      BY <1>6 DEF Execute
    <2>6. /\ executed[a] = 0 /\ status[a] \in {"approved", "rejected"}
          /\ \A g \in Handlers : Claims(g, a) => g = h
      BY <2>1 DEF IInv, ClaimIsExclusive
    <2>7. executed' \in [Approvals -> Nat] /\ executed'[a] = 1
          /\ \A c \in Approvals : c # a => executed'[c] = executed[c]
      BY <1>t, <2>1, <2>2, <2>6 DEF TypeOK
    <2>8. state' \in [Instances -> States]
      BY <1>t, <2>2, <2>3 DEF TypeOK
    <2>9. TypeOK'
      BY <1>t, <2>4, <2>5, <2>7, <2>8 DEF TypeOK
    <2>10. TargetsExist'
      BY <1>t, <2>4, <2>5 DEF IInv, TypeOK, TargetsExist
    <2>11. NothingBeforeInsert' /\ AtMostOnce' /\ ExecutedStaysResolved'
      BY <2>5, <2>6, <2>7
         DEF IInv, NothingBeforeInsert, AtMostOnce, ExecutedStaysResolved
    <2>12. ASSUME NEW c \in Approvals, NEW g \in Handlers, Claims(g, c)'
           PROVE  c # a /\ Claims(g, c)
      BY <1>t, <2>4, <2>6, <2>12 DEF TypeOK, Claims
    <2>13. ClaimIsExclusive'
      BY <2>5, <2>7, <2>12 DEF IInv, ClaimIsExclusive
    <2> QED
      BY <2>9, <2>10, <2>11, <2>13 DEF IInv
  <1>7. ASSUME NEW h \in Handlers, ExecuteFails(h)
        PROVE  IInv'
    <2>1. /\ pc' = [pc EXCEPT ![h] = "revert"] /\ pc[h] = "execute"
          /\ caller' = [caller EXCEPT ![h] = caller[h]] /\ caller[h] \in Users
          /\ target' = [target EXCEPT ![h] = target[h]]
          /\ target[h] \in Approvals /\ status[target[h]] # "none"
          /\ todo' = [todo EXCEPT ![h] = todo[h]] /\ todo[h] \in SUBSET Match
          /\ live' = [live EXCEPT ![h] = live[h]] /\ live[h] \in BOOLEAN
      BY <1>t, <1>7 DEF ExecuteFails, Goto, IInv, TypeOK, TargetsExist
    <2>2. state' \in [Instances -> States] /\ grants' \subseteq Users \X Perms /\ UNCHANGED rows
      BY <1>t, <1>7 DEF TypeOK, ExecuteFails
    <2> QED
      BY <2>1, <2>2, HandlerMoves
  <1>8. ASSUME NEW h \in Handlers, Revert(h)
        PROVE  IInv'
    <2> DEFINE a == target[h]
    <2>1. a \in Approvals /\ status[a] # "none" /\ Claims(h, a)
      BY <1>8 DEF IInv, TargetsExist, Revert, Claims
    <2>2. executed[a] = 0 /\ \A g \in Handlers : Claims(g, a) => g = h
      BY <2>1 DEF IInv, ClaimIsExclusive
    <2>3. /\ status' = [status EXCEPT ![a] = "pending"] /\ Return(h)
          /\ UNCHANGED <<state, grants, about, overdue, inbox, executed>>
      BY <1>8 DEF Revert
    <2>4. inbox' \subseteq Users \X {"approval_pending", "approval_rejected"} \X Approvals
      BY <1>t, <2>3 DEF TypeOK
    <2> QED
      BY <2>1, <2>2, <2>3, <2>4, ReturnAfterWrite
  <1>9. ASSUME NEW h \in Handlers, MarkExpired(h)
        PROVE  IInv'
    <2> DEFINE a == target[h]
    <2>1. a \in Approvals /\ status[a] # "none"
      BY <1>9 DEF IInv, TargetsExist, MarkExpired
    <2>2. /\ status' = [status EXCEPT ![a] = IF @ = "pending" THEN "expired" ELSE @]
          /\ Return(h)
          /\ UNCHANGED <<state, grants, about, overdue, inbox, executed>>
      BY <1>9 DEF MarkExpired
    <2>3. CASE status[a] = "pending"
      <3>1. status' = [status EXCEPT ![a] = "expired"]
        BY <1>t, <2>1, <2>2, <2>3 DEF TypeOK
      <3>2. executed[a] = 0 /\ \A g \in Handlers : ~Claims(g, a)
        BY <1>t, <2>1, <2>3 DEF IInv, TypeOK, ExecutedStaysResolved, ClaimIsExclusive
      <3>3. inbox' \subseteq Users \X {"approval_pending", "approval_rejected"} \X Approvals
        BY <1>t, <2>2 DEF TypeOK
      <3> QED
        BY <2>1, <2>2, <3>1, <3>2, <3>3, ReturnAfterWrite
    <2>4. CASE status[a] # "pending"
      <3>1. status' = status
        BY <1>t, <2>1, <2>2, <2>4 DEF TypeOK
      <3> QED
        BY <2>2, <3>1, ReturnKeepsInv
    <2> QED
      BY <2>3, <2>4
  <1>10. ASSUME NEW h \in Handlers, WriteRejection(h)
        PROVE  IInv'
    <2> DEFINE a == target[h]
    <2>1. a \in Approvals /\ status[a] # "none"
      BY <1>10 DEF IInv, TargetsExist, WriteRejection
    <2>2. /\ status' = [status EXCEPT ![a] = "rejected"] /\ Return(h)
          /\ inbox' = inbox \cup {<<about[a].requester, "approval_rejected", a>>}
          /\ UNCHANGED <<state, grants, about, overdue, executed>>
      BY <1>10 DEF WriteRejection
    <2>3. about[a].requester \in Users
      BY <1>t, <2>1 DEF TypeOK, Proposal
    <2>4. inbox' \subseteq Users \X {"approval_pending", "approval_rejected"} \X Approvals
      BY <1>t, <2>1, <2>2, <2>3 DEF TypeOK
    <2> QED
      BY <2>1, <2>2, <2>4, ReturnAfterWrite
  <1>11. ASSUME NEW h \in Handlers, GiveUp(h)
        PROVE  IInv'
    BY <1>11, ReturnKeepsInv DEF GiveUp
  <1>12. ASSUME NEW h \in Handlers, Cancel(h)
        PROVE  IInv'
    BY <1>12 DEF Cancel, IInv, TypeOK, TargetsExist, NothingBeforeInsert, AtMostOnce,
                 ExecutedStaysResolved, ClaimIsExclusive, Claims
  <1>13. CASE Crash
    BY <1>13, NoneAssumption DEF Crash, IInv, TypeOK, TargetsExist, NothingBeforeInsert, AtMostOnce,
                 ExecutedStaysResolved, ClaimIsExclusive, Claims
  <1>14. ASSUME NEW a \in Approvals, BecomeOverdue(a)
        PROVE  IInv'
    BY <1>14 DEF BecomeOverdue, IInv, TypeOK, TargetsExist, NothingBeforeInsert, AtMostOnce,
                 ExecutedStaysResolved, ClaimIsExclusive, Claims
  <1>15. ASSUME NEW u \in Users, NEW p \in Perms, ChangeGrant(u, p)
        PROVE  IInv'
    BY <1>15 DEF ChangeGrant, IInv, TypeOK, TargetsExist, NothingBeforeInsert, AtMostOnce,
                 ExecutedStaysResolved, ClaimIsExclusive, Claims
  <1> QED
    BY <1>0, <1>1, <1>2, <1>3, <1>4, <1>5, <1>6, <1>7, <1>8, <1>9, <1>10, <1>11, <1>12,
       <1>13, <1>14, <1>15 DEF Next, Step

\* The inductive invariant holds in every reachable state.
THEOREM Invariance == Spec => []IInv
  BY InitInv, StepInv, PTL DEF Spec

\* Type correctness of the approval workflow (approvals.go).
THEOREM TypeCorrect == Spec => []TypeOK
  BY Invariance, PTL DEF IInv

\* However many Approve and Reject calls race, are cancelled or crash, an approval's
\* proposed transition is executed for it at most once (approvals.go:406).
THEOREM ExecutedAtMostOnce == Spec => []AtMostOnce
  BY Invariance, PTL DEF IInv

\* An executed approval never shows as pending or expired again (approvals.go:428).
THEOREM ExecutedIsNeverPendingAgain == Spec => []ExecutedStaysResolved
  BY Invariance, PTL DEF IInv

\* At most one request at a time holds the claim on an approval (approvals.go:406).
THEOREM OneClaim == Spec => []ClaimIsExclusive
  BY Invariance, PTL DEF IInv

\* No step executes an expired approval for its proposal or makes it pending again: a claim finds
\* it taken, and who has claimed an approval keeps it from expiring.
LEMMA ExpiredStep ==
  ASSUME IInv, [Next]_vars, NEW a \in Approvals, status[a] = "expired"
  PROVE  executed'[a] = executed[a] /\ status'[a] \in {"expired", "rejected"}
<1> USE DEF rows
<1>1. TypeOK /\ \A h \in Handlers : ~Claims(h, a)
  BY DEF IInv, ClaimIsExclusive
<1>2. CASE UNCHANGED <<status, executed>>
  BY <1>2
<1>3. ASSUME NEW h \in Handlers, CreatePendingApproval(h)
      PROVE  executed'[a] = executed[a] /\ status'[a] \in {"expired", "rejected"}
  BY <1>1, <1>3 DEF CreatePendingApproval, TypeOK
<1>4. ASSUME NEW h \in Handlers, Claim(h)
      PROVE  executed'[a] = executed[a] /\ status'[a] \in {"expired", "rejected"}
  BY <1>1, <1>4 DEF Claim, TypeOK
<1>5. ASSUME NEW h \in Handlers, Execute(h)
      PROVE  executed'[a] = executed[a] /\ status'[a] \in {"expired", "rejected"}
  <2>1. target[h] # a
    BY <1>1, <1>5 DEF Execute, Claims
  <2> QED
    BY <1>1, <1>5, <2>1 DEF Execute, TypeOK
<1>6. ASSUME NEW h \in Handlers, Revert(h)
      PROVE  executed'[a] = executed[a] /\ status'[a] \in {"expired", "rejected"}
  <2>1. target[h] # a
    BY <1>1, <1>6 DEF Revert, Claims
  <2> QED
    BY <1>1, <1>6, <2>1 DEF Revert, TypeOK
<1>7. ASSUME NEW h \in Handlers, MarkExpired(h) \/ WriteRejection(h)
      PROVE  executed'[a] = executed[a] /\ status'[a] \in {"expired", "rejected"}
  BY <1>1, <1>7 DEF MarkExpired, WriteRejection, TypeOK
<1>8. ASSUME NEW h \in Handlers, Step(h)
      PROVE  executed'[a] = executed[a] /\ status'[a] \in {"expired", "rejected"}
  <2>1. CASE SkipMatch(h) \/ ExecuteFails(h) \/ GiveUp(h)
    BY <1>2, <2>1 DEF SkipMatch, ExecuteFails, GiveUp
  <2> QED
    BY <1>3, <1>4, <1>5, <1>6, <1>7, <1>8, <2>1 DEF Step
<1>9. CASE Next
  <2>1. CASE \E h \in Handlers : Step(h)
    BY <1>8, <2>1
  <2>2. CASE ~\E h \in Handlers : Step(h)
    BY <1>2, <1>9, <2>2 DEF Next, UserTransition, StartApprove, StartReject, Cancel, Crash, BecomeOverdue, ChangeGrant
  <2> QED
    BY <2>1, <2>2
<1> QED
  BY <1>2, <1>9 DEF vars

\* An expired approval is never executed, whoever read it before it was marked (markExpired).
THEOREM ExpiredForGood == Spec => ExpiredIsInert
<1>1. IInv /\ [Next]_vars =>
        [\A a \in Approvals : status[a] = "expired" => executed'[a] = executed[a]
                                                     /\ status'[a] \in {"expired", "rejected"}]_vars
  BY ExpiredStep
<1>2. Spec => [][Next]_vars
  BY PTL DEF Spec
<1> QED
  BY <1>1, <1>2, Invariance, PTL DEF ExpiredIsInert

--------------------------------------------------------------------------------
(* Approvals implements ApprovalPromise.                                         *)

fates == [a \in Approvals |-> Fate(a)]

\* A step that only closes open approvals is a step of the promise.
LEMMA OnlyCloses ==
  ASSUME \A a \in Approvals : \/ Fate(a)' = Fate(a)
                              \/ Fate(a) = "open" /\ Fate(a)' = "dead"
  PROVE  [Promise!Next]_fates
  <1> DEFINE S == {a \in Approvals : Fate(a)' # Fate(a)}
  <1>1. \A a \in S : Fate(a) = "open"
    OBVIOUS
  <1>2. fates' = [a \in Approvals |-> IF a \in S THEN "dead" ELSE Fate(a)]
    BY DEF fates
  <1>3. [a \in Approvals |-> IF a \in S THEN "dead" ELSE Fate(a)]
          = [a \in Approvals |-> IF a \in S THEN "dead" ELSE fates[a]]
    BY DEF fates
  <1>4. Promise!Close(S)
    BY <1>1, <1>2, <1>3 DEF Promise!Close, fates
  <1>5. S \in SUBSET Approvals
    OBVIOUS
  <1> QED
    BY <1>4, <1>5 DEF Promise!Next

\* A step in which the rows stay and every claim was there before only closes.
LEMMA FewerClaims ==
  ASSUME IInv, UNCHANGED rows,
         \A a \in Approvals, h \in Handlers : Claims(h, a)' => Claims(h, a)
  PROVE  [Promise!Next]_fates
  <1>1. \A a \in Approvals : Claimed(a)' => Claimed(a)
    BY DEF Claimed
  <1>2. \A a \in Approvals : \/ Fate(a)' = Fate(a)
                             \/ Fate(a) = "open" /\ Fate(a)' = "dead"
    BY <1>1 DEF Fate, rows
  <1> QED
    BY <1>2, OnlyCloses

\* Every step of Approvals is a step of the promise or leaves it as it is.
LEMMA StepPromise == IInv /\ [Next]_vars => [Promise!Next]_fates
  <1> SUFFICES ASSUME IInv, [Next]_vars PROVE [Promise!Next]_fates
    OBVIOUS
  <1>t. TypeOK
    BY DEF IInv
  <1>0. CASE UNCHANGED vars
    BY <1>0, FewerClaims DEF vars, rows, Claims
  <1>1. ASSUME NEW h \in Handlers, NEW u \in Users, NEW i \in Instances, NEW act \in Actions,
               UserTransition(h, u, i, act)
        PROVE  [Promise!Next]_fates
    <2>1. /\ UNCHANGED rows
          /\ \E l \in {"idle", "propose"} : pc' = [pc EXCEPT ![h] = l]
          /\ target' = [target EXCEPT ![h] = None]
      BY <1>1 DEF UserTransition, AfterTransition, Return
    <2>2. \A a \in Approvals, g \in Handlers : Claims(g, a)' => Claims(g, a)
      BY <1>t, <2>1 DEF Claims, TypeOK
    <2> QED
      BY <2>1, <2>2, FewerClaims
  <1>2. ASSUME NEW h \in Handlers, NEW u \in Users, NEW a \in Approvals,
               StartApprove(h, u, a) \/ StartReject(h, u, a)
        PROVE  [Promise!Next]_fates
    <2>1. /\ UNCHANGED rows
          /\ \E l \in {"claim", "expire", "reject"} : pc' = [pc EXCEPT ![h] = l]
          /\ target' = [target EXCEPT ![h] = a]
      BY <1>2 DEF StartApprove, StartReject, Begin
    <2>2. \A c \in Approvals, g \in Handlers : Claims(g, c)' => Claims(g, c)
      BY <1>t, <2>1 DEF Claims, TypeOK
    <2> QED
      BY <2>1, <2>2, FewerClaims
  <1>3. ASSUME NEW h \in Handlers, CreatePendingApproval(h)
        PROVE  [Promise!Next]_fates
    <2>1. PICK a \in Approvals :
            /\ status[a] = "none" /\ status' = [status EXCEPT ![a] = "pending"]
            /\ UNCHANGED executed
      BY <1>3 DEF CreatePendingApproval
    <2>2. \A c \in Approvals, g \in Handlers : Claims(g, c)' <=> Claims(g, c)
      BY <1>t, <1>3 DEF CreatePendingApproval, NextMatch, Return, TypeOK, Claims
    <2>3. executed[a] = 0
      BY <2>1 DEF IInv, NothingBeforeInsert
    <2>4. /\ Fate(a) = "none" /\ Fate(a)' = "open"
          /\ \A c \in Approvals : c # a => Fate(c)' = Fate(c)
      BY <1>t, <2>1, <2>2, <2>3 DEF Fate, Claimed, TypeOK
    <2>5. fates[a] = "none" /\ fates' = [fates EXCEPT ![a] = "open"]
      BY <2>4 DEF fates
    <2>6. Promise!Open(a)
      BY <2>5 DEF Promise!Open, fates
    <2> QED
      BY <2>6 DEF Promise!Next
  <1>4. ASSUME NEW h \in Handlers, SkipMatch(h)
        PROVE  [Promise!Next]_fates
    <2>1. UNCHANGED rows
      BY <1>4 DEF SkipMatch
    <2>2. \A c \in Approvals, g \in Handlers : Claims(g, c)' => Claims(g, c)
      BY <1>t, <1>4 DEF SkipMatch, NextMatch, Return, TypeOK, Claims
    <2> QED
      BY <2>1, <2>2, FewerClaims
  <1>5. ASSUME NEW h \in Handlers, Claim(h)
        PROVE  [Promise!Next]_fates
    <2>a. PICK a \in Approvals : a = target[h]
      BY <1>5 DEF IInv, TargetsExist, Claim
    <2>1. a \in Approvals /\ ~Claims(h, a)
      BY <2>a, <1>5 DEF IInv, TargetsExist, Claim, Claims
    <2>2. CASE status[a] = "pending"
      <3>1. /\ status' = [status EXCEPT ![a] = "approved"]
            /\ pc' = [pc EXCEPT ![h] = "execute"]
            /\ UNCHANGED <<target, executed>>
        BY <2>a, <1>5, <2>2 DEF Claim, Goto
      <3>2. executed[a] = 0
        BY <2>a, <1>t, <2>1, <2>2 DEF IInv, TypeOK, ExecutedStaysResolved
      <3>3. Claims(h, a)'
        BY <2>a, <1>t, <3>1 DEF Claims, TypeOK
      <3>4. \A c \in Approvals, g \in Handlers : c # a => (Claims(g, c)' <=> Claims(g, c))
        BY <2>a, <1>t, <3>1 DEF Claims, TypeOK
      <3>5. Fate(a) = "open" /\ Fate(a)' = "open"
        BY <2>a, <1>t, <2>1, <2>2, <3>1, <3>2, <3>3 DEF Fate, Claimed, TypeOK
      <3>6. \A c \in Approvals : c # a => Fate(c)' = Fate(c)
        BY <2>a, <1>t, <3>1, <3>4 DEF Fate, Claimed, TypeOK
      <3> QED
        BY <2>a, <3>5, <3>6, OnlyCloses
    <2>3. CASE status[a] # "pending"
      <3>1. Return(h) /\ UNCHANGED rows
        BY <2>a, <1>5, <2>3 DEF Claim, rows
      <3>2. \A c \in Approvals, g \in Handlers : Claims(g, c)' => Claims(g, c)
        BY <2>a, <1>t, <3>1 DEF Return, TypeOK, Claims
      <3> QED
        BY <2>a, <3>1, <3>2, FewerClaims
    <2> QED
      BY <2>a, <2>2, <2>3
  <1>6. ASSUME NEW h \in Handlers, Execute(h)
        PROVE  [Promise!Next]_fates
    <2>a. PICK a \in Approvals : a = target[h]
      BY <1>6 DEF IInv, TargetsExist, Execute
    <2>1. a \in Approvals /\ Claims(h, a)
      BY <2>a, <1>6 DEF IInv, TargetsExist, Execute, Claims
    <2>2. executed[a] = 0 /\ status[a] \in {"approved", "rejected"}
      BY <2>a, <2>1 DEF IInv, ClaimIsExclusive
    <2>3. /\ executed' = [executed EXCEPT ![a] = @ + 1] /\ UNCHANGED status
          /\ \E l \in {"idle", "propose"} : pc' = [pc EXCEPT ![h] = l]
          /\ target' = [target EXCEPT ![h] = None]
      BY <2>a, <1>6 DEF Execute, AfterTransition, Return
    <2>4. executed'[a] > 0 /\ \A c \in Approvals : c # a => executed'[c] = executed[c]
      BY <2>a, <1>t, <2>1, <2>2, <2>3 DEF TypeOK
    <2>5. \A c \in Approvals, g \in Handlers : c # a => (Claims(g, c)' <=> Claims(g, c))
      BY <2>a, <1>t, <2>3, NoneAssumption DEF Claims, TypeOK
    <2>6. Fate(a) = "open" /\ Fate(a)' = "done"
      BY <2>a, <2>1, <2>2, <2>3, <2>4 DEF Fate, Claimed
    <2>7. \A c \in Approvals : c # a => Fate(c)' = Fate(c)
      BY <2>a, <2>3, <2>4, <2>5 DEF Fate, Claimed
    <2>8. fates[a] = "open" /\ fates' = [fates EXCEPT ![a] = "done"]
      BY <2>a, <2>1, <2>6, <2>7 DEF fates
    <2>9. Promise!Fire(a)
      BY <2>a, <2>8 DEF Promise!Fire, fates
    <2> QED
      BY <2>a, <2>1, <2>9 DEF Promise!Next
  <1>7. ASSUME NEW h \in Handlers, ExecuteFails(h)
        PROVE  [Promise!Next]_fates
    <2>1. UNCHANGED rows
      BY <1>7 DEF ExecuteFails
    <2>2. \A c \in Approvals, g \in Handlers : Claims(g, c)' => Claims(g, c)
      BY <1>t, <1>7 DEF ExecuteFails, Goto, TypeOK, Claims
    <2> QED
      BY <2>1, <2>2, FewerClaims
  <1>8. ASSUME NEW h \in Handlers, Revert(h)
        PROVE  [Promise!Next]_fates
    <2>a. PICK a \in Approvals : a = target[h]
      BY <1>8 DEF IInv, TargetsExist, Revert
    <2>1. a \in Approvals /\ Claims(h, a)
      BY <2>a, <1>8 DEF IInv, TargetsExist, Revert, Claims
    <2>2. executed[a] = 0 /\ status[a] \in {"approved", "rejected"}
      BY <2>a, <2>1 DEF IInv, ClaimIsExclusive
    <2>3. status' = [status EXCEPT ![a] = "pending"] /\ Return(h) /\ UNCHANGED executed
      BY <2>a, <1>8 DEF Revert
    <2>4. \A c \in Approvals, g \in Handlers : c # a => (Claims(g, c)' <=> Claims(g, c))
      BY <2>a, <1>t, <2>3, NoneAssumption DEF Return, Claims, TypeOK
    <2>5. Fate(a) = "open" /\ Fate(a)' = "open"
      BY <2>a, <1>t, <2>1, <2>2, <2>3 DEF Fate, Claimed, TypeOK
    <2>6. \A c \in Approvals : c # a => Fate(c)' = Fate(c)
      BY <2>a, <1>t, <2>3, <2>4 DEF Fate, Claimed, TypeOK
    <2> QED
      BY <2>a, <2>5, <2>6, OnlyCloses
  <1>9. ASSUME NEW h \in Handlers, MarkExpired(h) \/ WriteRejection(h)
        PROVE  [Promise!Next]_fates
    <2>a. PICK a \in Approvals : a = target[h]
      BY <1>9 DEF IInv, TargetsExist, MarkExpired, WriteRejection
    <2>1. a \in Approvals /\ status[a] # "none"
      BY <2>a, <1>9 DEF IInv, TargetsExist, MarkExpired, WriteRejection
    <2>2. PICK s \in {"rejected", "expired", status[a]} :
            status' = [status EXCEPT ![a] = s] /\ Return(h) /\ UNCHANGED executed
      BY <2>a, <1>9 DEF MarkExpired, WriteRejection
    <2>3. pc[h] \notin {"execute", "revert"}
      BY <2>a, <1>9 DEF MarkExpired, WriteRejection
    <2>4. \A c \in Approvals, g \in Handlers : Claims(g, c)' <=> Claims(g, c)
      BY <2>a, <1>t, <2>2, <2>3, NoneAssumption DEF Return, Claims, TypeOK
    <2>5. \/ Fate(a)' = Fate(a)
          \/ Fate(a) = "open" /\ Fate(a)' = "dead"
      BY <2>a, <1>t, <2>1, <2>2, <2>4 DEF Fate, Claimed, TypeOK
    <2>6. \A c \in Approvals : c # a => Fate(c)' = Fate(c)
      BY <2>a, <1>t, <2>2, <2>4 DEF Fate, Claimed, TypeOK
    <2> QED
      BY <2>a, <2>5, <2>6, OnlyCloses
  <1>10. ASSUME NEW h \in Handlers, GiveUp(h)
         PROVE  [Promise!Next]_fates
    <2>1. UNCHANGED rows
      BY <1>10 DEF GiveUp
    <2>2. \A c \in Approvals, g \in Handlers : Claims(g, c)' => Claims(g, c)
      BY <1>t, <1>10 DEF GiveUp, Return, TypeOK, Claims
    <2> QED
      BY <2>1, <2>2, FewerClaims
  <1>11. ASSUME NEW h \in Handlers, Cancel(h)
         PROVE  [Promise!Next]_fates
    BY <1>11, FewerClaims DEF Cancel, Claims
  <1>12. CASE Crash
    BY <1>12, FewerClaims DEF Crash, Claims
  <1>13. ASSUME NEW a \in Approvals, BecomeOverdue(a)
         PROVE  [Promise!Next]_fates
    <2>1. \A c \in Approvals : Fate(c)' = Fate(c)
      BY <1>13 DEF BecomeOverdue, Fate, Claimed, Claims
    <2> QED
      BY <2>1, OnlyCloses
  <1>14. ASSUME NEW u \in Users, NEW p \in Perms, ChangeGrant(u, p)
         PROVE  [Promise!Next]_fates
    BY <1>14, FewerClaims DEF ChangeGrant, rows, Claims
  <1> QED
    BY <1>0, <1>1, <1>2, <1>3, <1>4, <1>5, <1>6, <1>7, <1>8, <1>9, <1>10, <1>11, <1>12,
       <1>13, <1>14 DEF Next, Step

\* The approval handlers implement the abstract promise: an approval stays open
\* until its transition is executed once or can never be (approvals.go:380-494).
THEOREM Refinement == Spec => KeepsPromise
  <1>1. Init => Promise!Init
    BY DEF Init, Promise!Init, Fate
  <1>2. IInv /\ [Next]_vars => [Promise!Next]_fates
    BY StepPromise
  <1> QED
    BY <1>1, <1>2, Invariance, PTL DEF Spec, KeepsPromise, Promise!Spec, fates
================================================================================
