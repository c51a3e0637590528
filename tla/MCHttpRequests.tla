--------------------------- MODULE MCHttpRequests ---------------------------
(* Every route of the server, one request of a stranger, a member or an owner at a time. *)
EXTENDS HttpRequests

Account == INSTANCE AccountApi
Goods == INSTANCE GoodsApi
Links == INSTANCE LinksApi
Trade == INSTANCE TradeApi
Flow == INSTANCE WorkflowApi
People == INSTANCE PeopleApi
Setup == INSTANCE SetupApi

\* newRouter: what every package's Register adds.
newRouter == Account!Routes @@ Goods!Routes @@ Links!Routes @@
               Trade!Routes @@ Flow!Routes @@ People!Routes @@ Setup!Routes

----------------------------------------------------------------------------
(* The notes of a handler: what reaches a step is what all the steps       *)
(* before it hand on to it.                                                *)

Both(n, m) ==
  [inside |-> n.inside,
   tx |-> [open |-> n.tx.open, checks |-> n.tx.checks \cap m.tx.checks,
           might |-> n.tx.might \cup m.tx.might, traced |-> n.tx.traced /\ m.tx.traced,
           wrote |-> n.tx.wrote \cup m.tx.wrote, firm |-> n.tx.firm /\ m.tx.firm],
   passed |-> n.passed \cap m.passed, kept |-> n.kept \cup m.kept, left |-> n.left \cup m.left,
   told |-> n.told \/ m.told, sure |-> n.sure /\ m.sure]
Add(notes, next) ==
  IF next[1] \in DOMAIN notes THEN [notes EXCEPT ![next[1]] = Both(@, next[2])]
  ELSE notes @@ (next[1] :> next[2])
\* The notes that follow from those of the steps up to i, with the steps from i to j.
RECURSIVE Through(_, _, _, _)
Through(h, notes, i, j) ==
  IF i = j THEN FoldSet(LAMBDA next, so : Add(so, next), notes, HandedOn(h, notes, i))
  ELSE LET mid == (i + j) \div 2
       IN CHOOSE after \in {Through(h, half, mid + 1, j) : half \in {Through(h, notes, i, mid)}} : TRUE
NotesOf(h) == Through(h, 1 :> Unstarted, 1, Len(h.steps))

\* Every handler of the server keeps to the discipline that makes the properties theorems.
newNotes == [r \in DOMAIN Api |-> NotesOf(Chain(Api[r]))]
ASSUME HandlersAreAnnotated == Annotated(newNotes)
=============================================================================
